----------------------------- MODULE UrlPolicyProofs -----------------------------
(***************************************************************************)
(* What holds of every URL and every origin, of any length, under every    *)
(* policy.                                                                 *)
(*                                                                         *)
(* The readings of check_url follow each other, so the invariant says what *)
(* is known of the host and the port at each of them (HostSoFar,           *)
(* PortSoFar), what is therefore known of a target (GoodTarget), and that  *)
(* the seam's own URL is read without changing it (SeamReads).             *)
(*                                                                         *)
(* Who is let through is said label by label (Names), while the code       *)
(* compares texts.  The two agree because a text can be read back from its *)
(* labels (LabelsInjective) and because labels begin anew behind a dot     *)
(* (LabelsBehindDot, LabelsCut); ListInv carries that to every state.      *)
(* Folding may make a text longer or shorter: what is known of it is that  *)
(* it goes part by part (FoldedParts), leaves what it returns as it is     *)
(* (Idempotent), and leaves something of what it encodes (FoldedNonempty). *)
(***************************************************************************)
EXTENDS UrlPolicy, SequenceTheorems, WellFoundedInduction, TLAPS

UrlRecord ==
    [length : Nat, control : BOOLEAN, scheme : Scheme, userinfo : BOOLEAN,
     parses : BOOLEAN, bracketed : BOOLEAN, host : Text, port : Int]

SettingsRecord ==
    [schemes : SUBSET Scheme, ports : SUBSET Nat, userinfo : BOOLEAN,
     maxUrlLength : Nat, denied : SUBSET Literal]

PastLength == {"control", "split", "scheme", "userinfo", "host", "hostlength", "normalise",
             "shape", "port", "listed", "address", "permitted"}

Raw == {"scheme", "userinfo", "host", "hostlength", "normalise"}
Normal == {"shape", "port", "listed", "address", "permitted"}

\* The texts that lower() and the codec leave as they are.
Plain == Seq(Ascii \ {"A"})

\* A name as normalisation leaves it: in particular a literal among them has no zone.
Normalised(name) ==
    /\ name \in Plain
    /\ Has(name, "%") => ~Has(name, ":") \/ name[1] = "v"

Typed ==
    /\ TypeOK /\ policy \in SettingsRecord
    /\ stage \in DOMAIN After \cup {"permitted"} => url \in UrlRecord

\* The lengths that have been looked at.
Lengths ==
    /\ stage \in PastLength => url.length <= policy.maxUrlLength
    /\ RefusedUnread

\* What the readings so far leave of the host.
HostSoFar ==
    /\ stage \in Raw => host = Lower(Hostpart) /\ Splits
    /\ stage \in {"hostlength", "normalise"} => host # << >> /\ ~Has(host, "%")
    /\ stage = "normalise" => Len(host) <= LongestHostname
    /\ stage \in Normal => Normalised(host)
    /\ stage \in Normal \ {"shape"} => WellShaped(host)
    /\ stage \in {"address", "permitted"} => CheckHost(host)
    /\ stage = "permitted" => host \notin policy.denied

PortSoFar ==
    /\ stage \in PastLength \ {"control", "split", "scheme"} =>
          url.scheme \in policy.schemes \ {""}
    /\ stage \in {"listed", "address", "permitted"} =>
          port \in PortNumber /\ port \in policy.ports

GoodTarget ==
    /\ stage = "unconfigured" => target = NoTarget
    /\ target # NoTarget =>
          /\ Normalised(target.host) /\ WellShaped(target.host)
          /\ CheckHost(target.host) /\ target.host \notin policy.denied
          /\ target.port \in PortNumber /\ target.port \in policy.ports
          /\ target.scheme \in policy.schemes \ {""}

\* The requests seam reads its own URL and finds what it put there.
SeamReads ==
    /\ stage \in DOMAIN After => by # "httpx"
    /\ by = "requests" /\ target # NoTarget /\ stage \in DOMAIN After \cup {"permitted"} =>
          /\ url = OriginUrl(target.scheme, [host |-> target.host, port |-> target.port])
          /\ stage \in Raw \cup Normal => host = target.host /\ port = target.port

IInv == Typed /\ Lengths /\ HostSoFar /\ PortSoFar /\ GoodTarget /\ SeamReads /\ SeamsAgree

-----------------------------------------------------------------------------
(* Texts.                                                                  *)

\* A nonempty set of naturals has a least element.
LEMMA LeastNatural ==
    ASSUME NEW T, T \subseteq Nat, T # {}
    PROVE  \E x \in T : \A y \in T : x <= y
<1> DEFINE R == {ss \in Nat \X Nat : ss[1] < ss[2]}
<1>1. IsWellFoundedOn(R, Nat)
  BY NatLessThanWellFounded, Zenon DEF OpToRel
<1>2. PICK x \in T : \A y \in T : ~ (<<y, x>> \in R)
  <2> HIDE DEF R
  <2> QED  BY <1>1, WFMin, Zenon
<1>3. \A y \in T : ~(y < x)
  BY <1>2
<1> QED  BY <1>3

\* The indices next to one within bounds.
LEMMA Neighbours ==
    ASSUME NEW n \in Nat
    PROVE  /\ \A i, x \in Nat : i >= 1 /\ i <= x /\ x <= n =>
                 i - 1 \in 0..n /\ (i - 1) + 1 = i /\ i - 1 < x /\ ~(x <= i - 1)
           /\ \A i \in 0..n : i \in Nat /\ i <= n /\ (i # n => i + 1 \in 1..n)
<1> QED  OBVIOUS

\* Before stops at the first c, or at the end.
LEMMA BeforeFirst ==
    ASSUME NEW text \in Text, NEW c
    PROVE  /\ Before(text, c) \in 0..Len(text)
           /\ \A i \in 1..Before(text, c) : text[i] # c
           /\ Before(text, c) = Len(text) \/ text[Before(text, c) + 1] = c
           /\ ~Has(text, c) => Before(text, c) = Len(text)
<1> DEFINE T == {n \in 0..Len(text) : n = Len(text) \/ text[n + 1] = c}
           Q(n) == /\ n = Len(text) \/ text[n + 1] = c
                   /\ \A i \in 1..n : text[i] # c
<1>0. Len(text) \in Nat /\ DOMAIN text = 1..Len(text)
  BY DEF Text
<1>1. PICK x \in T : \A y \in T : x <= y
  <2>1. Len(text) \in T /\ T \subseteq Nat  BY <1>0
  <2>2. T # {}  BY <2>1
  <2> HIDE DEF T
  <2> QED  BY <2>1, <2>2, LeastNatural
<1>2. \A i \in 1..x : text[i] # c
  <2> SUFFICES ASSUME NEW i \in 1..x, text[i] = c
               PROVE  FALSE
    OBVIOUS
  <2>0. x \in Nat /\ x <= Len(text)
    <3>1. x \in 0..Len(text)  BY <1>1
    <3> QED  BY <3>1, <1>0, Neighbours
  <2>1. i \in Nat /\ i >= 1 /\ i <= x  BY <2>0
  <2>2. i - 1 \in 0..Len(text) /\ (i - 1) + 1 = i /\ i - 1 < x
    BY <2>0, <2>1, <1>0, Neighbours
  <2>3. i - 1 \in T  BY <2>2
  <2>4. x <= i - 1  BY <2>3, <1>1
  <2> QED  BY <2>4, <2>0, <2>1, <1>0, Neighbours
<1>3. \E n \in 0..Len(text) : Q(n)
  BY <1>1, <1>2
<1>4. Before(text, c) \in 0..Len(text) /\ Q(Before(text, c))
  <2> DEFINE b == CHOOSE n \in 0..Len(text) : Q(n)
  <2>1. b \in 0..Len(text) /\ Q(b)
    <3> HIDE DEF Q
    <3> QED  BY <1>3
  <2> QED  BY <2>1 DEF Before
<1>5. ~Has(text, c) => \A i \in 1..Len(text) : text[i] # c
  BY <1>0 DEF Has, ToSet
<1>6. ASSUME ~Has(text, c), Before(text, c) # Len(text)
      PROVE  FALSE
  <2>0. Before(text, c) \in 0..Len(text) /\ Q(Before(text, c))  BY <1>4
  <2>1. Before(text, c) + 1 \in 1..Len(text)
    <3>1. Before(text, c) \in 0..Len(text)  BY <2>0
    <3> QED  BY <3>1, <1>6, <1>0, Neighbours
  <2> QED  BY <2>0, <2>1, <1>5, <1>6
<1> HIDE DEF T
<1> QED  BY <1>4, <1>6

\* The parts of a text are texts.
LEMMA PartsOfTexts ==
    ASSUME NEW text \in Text
    PROVE  /\ Rstrip(text) \in Text
           /\ Leftmost(text) \in Text /\ Rest(text) \in Text
<1>0. Len(text) \in Nat
  BY DEF Text
<1>1. Rstrip(text) \in Text
  <2> DEFINE kept == {n \in 0..Len(text) : \A i \in (n + 1)..Len(text) : text[i] = "."}
             least == CHOOSE n \in kept : \A k \in kept : n <= k
  <2>1. Len(text) \in kept  BY <1>0
  <2>2. kept \subseteq Nat  BY <1>0
  <2>3. \E n \in kept : \A k \in kept : n <= k  BY <2>1, <2>2, LeastNatural
  <2>4. least \in kept
    <3> HIDE DEF kept
    <3> QED  BY <2>3
  <2>5. least \in 0..Len(text)  BY <2>4
  <2>6. Rstrip(text) = SubSeq(text, 1, least)  BY DEF Rstrip
  <2> HIDE DEF least
  <2> QED  BY <2>5, <2>6, <1>0 DEF Text
<1>2. Before(text, ".") \in 0..Len(text)
  BY BeforeFirst
<1> QED  BY <1>0, <1>1, <1>2 DEF Leftmost, Rest, Text

\* The equation that FlattenSeq is defined by, for the first m sequences.
FlattenLike(f, s, m) ==
    f = [i \in 1..m |-> IF i = 1 THEN s[i] ELSE f[i - 1] \o s[i]]

\* There is such a function: of the lengths for which there were none, one would be the
\* least.
LEMMA FlattenExists ==
    ASSUME NEW s, NEW m \in Nat
    PROVE  \E f : FlattenLike(f, s, m)
<1> DEFINE T == {n \in 0..m : ~\E f : FlattenLike(f, s, n)}
<1>1. SUFFICES ASSUME T # {}
               PROVE  FALSE
  OBVIOUS
<1>2. PICK n \in T : \A k \in T : n <= k
  <2>1. T \subseteq Nat
    OBVIOUS
  <2> HIDE DEF T
  <2> QED  BY <1>1, <2>1, LeastNatural
<1>3. n # 0
  <2>1. FlattenLike([k \in 1..0 |-> << >>], s, 0)
    BY DEF FlattenLike
  <2> QED  BY <1>2, <2>1
<1>4. n \in Nat /\ n - 1 \in Nat /\ n - 1 \in 0..m /\ n - 1 < n
  BY <1>2, <1>3
<1>5. PICK f : FlattenLike(f, s, n - 1)
  BY <1>2, <1>4
<1> DEFINE g == [k \in 1..n |-> IF k = n THEN IF n = 1 THEN s[n] ELSE f[n - 1] \o s[n]
                                ELSE f[k]]
<1>6. \A k \in 1..(n - 1) : g[k] = f[k]
  BY <1>4
<1>7. ASSUME NEW k \in 1..n
      PROVE  g[k] = IF k = 1 THEN s[k] ELSE g[k - 1] \o s[k]
  <2>1. k # 1 => g[k - 1] = f[k - 1]
    BY <1>4, <1>6
  <2>2. CASE k = n
    BY <1>3, <1>4, <2>1, <2>2
  <2>3. CASE k \in 1..(n - 1)
    <3>1. f[k] = IF k = 1 THEN s[k] ELSE f[k - 1] \o s[k]
      BY <1>5, <2>3 DEF FlattenLike
    <3> HIDE DEF g
    <3> QED  BY <1>6, <2>1, <2>3, <3>1
  <2> QED  BY <1>4, <2>2, <2>3
<1>8. g = [k \in 1..n |-> g[k]]
  OBVIOUS
<1> HIDE DEF g
<1>9. FlattenLike(g, s, n)
  BY <1>7, <1>8 DEF FlattenLike
<1> QED  BY <1>2, <1>9

\* What the codec makes of a character: ASCII without capitals, and never a colon or a v
\* in front of what was not written with one.
LEMMA FoldIs ==
    /\ \A c \in Ascii \cup Wide : Fold[c] \in Plain
    /\ \A c \in Ascii \ {"A"} : Fold[c] = <<c>>
    /\ \A c \in (Ascii \cup Wide) \ {":"} : Fold[c] \in Seq((Ascii \cup Wide) \ {":"})
    /\ \A c \in Ascii : Fold[c] # << >>
    /\ \A c \in Ascii \ {"%"} : Fold[c] \in Seq((Ascii \cup Wide) \ {"%"})
<1> DEFINE Spelt == {<<"a">>, <<"1">>, <<".">>, <<"%">>, <<"*">>, <<"a", "a">>,
                     <<"1", ".">>, << >>, <<"v", "1">>}
           Bare == (Ascii \cup Wide) \ {":"}
           Zoneless == (Ascii \cup Wide) \ {"%"}
<1>1. \A c \in Ascii \ {"A"} : Fold[c] = <<c>>
  BY DEF Fold, Ascii, Wide
<1>2. Fold["A"] = <<"a">>
  BY DEF Fold, Ascii, Wide
<1>3. \A c \in Wide : Fold[c] \in Spelt
  BY DEF Fold, Ascii, Wide
<1>4. \A t \in Spelt : t \in Plain /\ t \in Seq(Bare)
  <2>1. ASSUME NEW S, {"a", "1", ".", "%", "*", "v"} \subseteq S
        PROVE  /\ <<"a">> \in Seq(S) /\ <<"1">> \in Seq(S) /\ <<".">> \in Seq(S)
               /\ <<"%">> \in Seq(S) /\ <<"*">> \in Seq(S) /\ << >> \in Seq(S)
               /\ <<"a", "a">> \in Seq(S) /\ <<"1", ".">> \in Seq(S)
               /\ <<"v", "1">> \in Seq(S)
    BY <2>1
  <2>2. ASSUME NEW S, {"a", "1", ".", "%", "*", "v"} \subseteq S, NEW t \in Spelt
        PROVE  t \in Seq(S)
    <3> HIDE DEF Bare, Zoneless
    <3> QED  BY <2>1, <2>2, Zenon DEF Spelt
  <2>3. /\ {"a", "1", ".", "%", "*", "v"} \subseteq Ascii \ {"A"}
        /\ {"a", "1", ".", "%", "*", "v"} \subseteq Bare
    BY DEF Ascii, Wide
  <2> HIDE DEF Spelt, Bare, Zoneless
  <2> QED  BY <2>2, <2>3 DEF Plain
<1>5. <<"a">> \in Plain /\ <<"a">> \in Seq(Bare) /\ <<"a">> \in Seq(Zoneless)
  BY DEF Plain, Ascii, Wide
<1>6. \A c \in Ascii \ {"A"} : <<c>> \in Plain /\ <<c>> # << >>
  BY DEF Plain
<1>7. \A c \in Ascii \ {":"} : <<c>> \in Seq(Bare)
  OBVIOUS
<1>8. \A c \in Ascii \ {"%"} : <<c>> \in Seq(Zoneless)
  OBVIOUS
<1>9. \A c : c = "A" \/ c \in Ascii \ {"A"} \/ c \notin Ascii
  OBVIOUS
<1> HIDE DEF Spelt, Bare, Zoneless
<1>10. \A c \in Ascii \cup Wide : Fold[c] \in Plain
  BY <1>1, <1>2, <1>3, <1>4, <1>5, <1>6, <1>9
<1>11. \A c \in (Ascii \cup Wide) \ {":"} : Fold[c] \in Seq(Bare)
  BY <1>1, <1>2, <1>3, <1>4, <1>5, <1>7, <1>9
<1>12. \A c \in Ascii : Fold[c] # << >>
  <2>1. <<"a">> # << >>
    OBVIOUS
  <2> QED  BY <1>1, <1>2, <1>6, <1>9, <2>1
<1>13. \A c \in Ascii \ {"%"} : Fold[c] \in Seq(Zoneless)
  BY <1>1, <1>2, <1>5, <1>8, <1>9
<1> QED  BY <1>1, <1>10, <1>11, <1>12, <1>13 DEF Bare, Zoneless

\* The folded text, a character at a time.
FoldsTo(g, text) ==
    /\ g[0] = << >>
    /\ \A n \in 1..Len(text) : g[n] = g[n - 1] \o Fold[text[n]]
    /\ Folded(text) = g[Len(text)]

LEMMA FoldedTo ==
    ASSUME NEW text \in Text
    PROVE  \E g : FoldsTo(g, text)
<1> DEFINE s == [i \in DOMAIN text |-> Fold[text[i]]]
           f == CHOOSE h : FlattenLike(h, s, Len(s))
<1>1. PICK m \in Nat : m = Len(text) /\ DOMAIN text = 1..m
  BY DEF Text
<1>2. \A i \in 1..m : text[i] \in Ascii \cup Wide
  BY <1>1 DEF Text
<1>3. \A i \in 1..m : Fold[text[i]] \in Plain
  BY <1>2, FoldIs
<1>4. s \in Seq(Plain) /\ Len(s) = m /\ \A i \in 1..m : s[i] = Fold[text[i]]
  BY <1>1, <1>3
<1>5. Folded(text) = FlattenSeq(s)
  BY DEF Folded
<1> HIDE DEF s
<1>6. FlattenLike(f, s, m)
  BY <1>1, <1>4, FlattenExists
<1>7. FlattenSeq(s) = IF m = 0 THEN s ELSE f[m]
  BY <1>4 DEF FlattenSeq, FlattenLike
<1> HIDE DEF f
<1> DEFINE g == [n \in 0..m |-> IF n = 0 THEN << >> ELSE f[n]]
<1>8. g[0] = << >> /\ \A n \in 1..m : g[n] = f[n]
  BY <1>1
<1>9. ASSUME NEW n \in 1..m
      PROVE  g[n] = g[n - 1] \o Fold[text[n]]
  <2>1. f[n] = IF n = 1 THEN s[n] ELSE f[n - 1] \o s[n]
    BY <1>6 DEF FlattenLike
  <2>2. CASE n = 1
    <3>1. g[n] = Fold[text[n]] /\ g[n - 1] = << >>
      BY <1>4, <1>8, <2>1, <2>2
    <3>2. << >> \o Fold[text[n]] = Fold[text[n]]
      BY <1>3 DEF Plain
    <3> QED  BY <3>1, <3>2
  <2>3. CASE n # 1
    <3>1. n - 1 \in 1..m
      BY <1>1, <2>3
    <3> HIDE DEF g
    <3> QED  BY <1>4, <1>8, <2>1, <2>3, <3>1
  <2> QED  BY <2>2, <2>3
<1>10. Folded(text) = g[m]
  <2>1. m = 0 => s = << >>
    BY <1>4
  <2> QED  BY <1>1, <1>5, <1>7, <1>8, <2>1
<1> HIDE DEF g
<1>11. FoldsTo(g, text)
  BY <1>1, <1>8, <1>9, <1>10 DEF FoldsTo
<1> QED  BY <1>11

\* Whatever the characters of a text are all spelt in, the text is.
LEMMA FoldedOver ==
    ASSUME NEW S, NEW R, NEW text \in Text, text \in Seq(S),
           \A c \in S : Fold[c] \in Seq(R)
    PROVE  Folded(text) \in Seq(R)
<1>1. PICK g : FoldsTo(g, text)
  BY FoldedTo
<1>2. PICK m \in Nat : m = Len(text) /\ \A i \in 1..m : text[i] \in S
  BY ElementOfSeq
<1> DEFINE T == {n \in 0..m : g[n] \notin Seq(R)}
<1>3. SUFFICES ASSUME T # {}
               PROVE  FALSE
  <2>1. m \in 0..m
    BY <1>2
  <2> QED  BY <1>1, <1>2, <2>1 DEF FoldsTo
<1>4. PICK n \in T : \A k \in T : n <= k
  <2>1. T \subseteq Nat
    OBVIOUS
  <2> HIDE DEF T
  <2> QED  BY <1>3, <2>1, LeastNatural
<1>5. n # 0
  <2>1. << >> \in Seq(R)
    OBVIOUS
  <2> QED  BY <1>1, <1>4, <2>1 DEF FoldsTo
<1>6. n \in 1..m /\ n - 1 \in 0..m /\ ~(n <= n - 1)
  BY <1>2, <1>4, <1>5
<1>7. g[n - 1] \in Seq(R) /\ Fold[text[n]] \in Seq(R) /\ g[n] = g[n - 1] \o Fold[text[n]]
  <2>1. n - 1 \notin T
    BY <1>4, <1>6
  <2> QED  BY <1>1, <1>2, <1>6, <2>1 DEF FoldsTo
<1>8. g[n] \in Seq(R)
  BY <1>7
<1> QED  BY <1>4, <1>8

\* What is spelt in itself stays.
LEMMA FoldedSame ==
    ASSUME NEW text \in Text, \A i \in 1..Len(text) : Fold[text[i]] = <<text[i]>>
    PROVE  Folded(text) = text
<1>1. PICK g : FoldsTo(g, text)
  BY FoldedTo
<1>2. PICK m \in Nat : m = Len(text)
  BY DEF Text
<1> DEFINE T == {n \in 0..m : g[n] # SubSeq(text, 1, n)}
<1>3. SUFFICES ASSUME T # {}
               PROVE  FALSE
  <2>1. m \in 0..m /\ SubSeq(text, 1, m) = text
    BY <1>2, SubSeqFull DEF Text
  <2> QED  BY <1>1, <1>2, <2>1 DEF FoldsTo
<1>4. PICK n \in T : \A k \in T : n <= k
  <2>1. T \subseteq Nat
    OBVIOUS
  <2> HIDE DEF T
  <2> QED  BY <1>3, <2>1, LeastNatural
<1>5. n # 0
  <2>1. SubSeq(text, 1, 0) = << >>
    BY DEF Text
  <2> QED  BY <1>1, <1>4, <2>1 DEF FoldsTo
<1>6. n \in 1..m /\ n - 1 \in 0..m /\ ~(n <= n - 1)
  BY <1>2, <1>4, <1>5
<1>7. g[n] = SubSeq(text, 1, n - 1) \o <<text[n]>>
  <2>1. n - 1 \notin T
    BY <1>4, <1>6
  <2> QED  BY <1>1, <1>2, <1>6, <2>1 DEF FoldsTo
<1>8. SubSeq(text, 1, n - 1) \o <<text[n]>> = SubSeq(text, 1, n)
  BY <1>2, <1>6 DEF Text
<1> QED  BY <1>4, <1>7, <1>8

\* Folding goes through a text part by part.
LEMMA FoldedParts ==
    ASSUME NEW front \in Text, NEW back \in Text
    PROVE  Folded(front \o back) = Folded(front) \o Folded(back)
<1> DEFINE all == front \o back
<1>1. PICK m \in Nat, n \in Nat : m = Len(front) /\ n = Len(back)
  BY DEF Text
<1>2. /\ all \in Text /\ Len(all) = m + n
      /\ \A i \in 1..m : all[i] = front[i]
      /\ \A i \in 1..n : all[m + i] = back[i]
  <2>1. all \in Text /\ Len(all) = m + n
    BY <1>1 DEF Text
  <2>2. \A i \in 1..(m + n) : all[i] = IF i <= m THEN front[i] ELSE back[i - m]
    BY <1>1 DEF Text
  <2> HIDE DEF all
  <2>3. \A i \in 1..m : all[i] = front[i]
    BY <1>1, <2>2
  <2>4. ASSUME NEW i \in 1..n
        PROVE  all[m + i] = back[i]
    <3>1. m + i \in 1..(m + n) /\ ~(m + i <= m) /\ (m + i) - m = i
      BY <1>1
    <3> QED  BY <2>2, <3>1
  <2> QED  BY <2>1, <2>3, <2>4
<1> HIDE DEF all
<1>3. PICK f, g, h : FoldsTo(f, front) /\ FoldsTo(g, back) /\ FoldsTo(h, all)
  BY <1>2, FoldedTo
<1>4. \A k \in 0..m : h[k] = f[k]
  <2> DEFINE T == {k \in 0..m : h[k] # f[k]}
  <2>1. SUFFICES ASSUME T # {}
                 PROVE  FALSE
    OBVIOUS
  <2>2. PICK k \in T : \A j \in T : k <= j
    <3>1. T \subseteq Nat
      OBVIOUS
    <3> HIDE DEF T
    <3> QED  BY <2>1, <3>1, LeastNatural
  <2>3. k # 0
    BY <1>3, <2>2 DEF FoldsTo
  <2>4. k \in 1..m /\ k \in 1..(m + n) /\ k - 1 \in 0..m /\ ~(k <= k - 1)
    BY <1>1, <2>2, <2>3
  <2>5. h[k - 1] = f[k - 1]
    BY <2>2, <2>4
  <2>6. h[k] = h[k - 1] \o Fold[front[k]] /\ f[k] = f[k - 1] \o Fold[front[k]]
    BY <1>1, <1>2, <1>3, <2>4 DEF FoldsTo
  <2> QED  BY <2>2, <2>5, <2>6
<1>5. /\ f[m] \in Plain /\ Folded(front) = f[m] /\ h[m] = f[m]
      /\ Folded(back) = g[n] /\ Folded(all) = h[m + n]
  <2>1. \A c \in Ascii \cup Wide : Fold[c] \in Seq(Ascii \ {"A"})
    BY FoldIs DEF Plain
  <2>2. Folded(front) \in Plain
    BY <2>1, FoldedOver DEF Text, Plain
  <2>3. m \in 0..m
    BY <1>1
  <2> QED  BY <1>1, <1>2, <1>3, <1>4, <2>2, <2>3 DEF FoldsTo
<1>6. \A k \in 0..n : g[k] \in Plain /\ h[m + k] = f[m] \o g[k]
  <2> DEFINE Good(k) == g[k] \in Plain /\ h[m + k] = f[m] \o g[k]
             T == {k \in 0..n : ~Good(k)}
  <2>1. SUFFICES ASSUME T # {}
                 PROVE  FALSE
    OBVIOUS
  <2>2. PICK k \in T : \A j \in T : k <= j
    <3>1. T \subseteq Nat
      <4> HIDE DEF Good
      <4> QED  BY <1>1
    <3> HIDE DEF T
    <3> QED  BY <2>1, <3>1, LeastNatural
  <2>3. k # 0
    <3>1. m + 0 = m /\ g[0] = << >>
      BY <1>1, <1>3 DEF FoldsTo
    <3>2. << >> \in Plain /\ f[m] \o << >> = f[m]
      BY <1>5 DEF Plain
    <3>3. Good(0)
      BY <1>5, <3>1, <3>2
    <3>4. ~Good(k)
      BY <2>2
    <3> HIDE DEF Good
    <3> QED  BY <3>3, <3>4
  <2>4. /\ k \in 1..n /\ m + k \in 1..(m + n) /\ k - 1 \in 0..n /\ ~(k <= k - 1)
        /\ (m + k) - 1 = m + (k - 1)
    BY <1>1, <2>2, <2>3
  <2>5. Good(k - 1)
    BY <2>2, <2>4
  <2>6. /\ h[m + k] = h[m + (k - 1)] \o Fold[back[k]]
        /\ g[k] = g[k - 1] \o Fold[back[k]]
    <3>1. h[m + k] = h[(m + k) - 1] \o Fold[all[m + k]]
      BY <1>2, <1>3, <2>4 DEF FoldsTo
    <3>2. g[k] = g[k - 1] \o Fold[back[k]]
      BY <1>1, <1>3, <2>4 DEF FoldsTo
    <3> QED  BY <1>2, <2>4, <3>1, <3>2
  <2>7. Fold[back[k]] \in Plain
    <3>1. back[k] \in Ascii \cup Wide
      BY <1>1, <2>4 DEF Text
    <3> QED  BY <3>1, FoldIs
  <2>8. \A a, b, c \in Plain : (a \o b) \o c = a \o (b \o c) /\ b \o c \in Plain
    BY DEF Plain
  <2>9. g[k] \in Plain
    BY <2>5, <2>6, <2>7, <2>8
  <2>10. h[m + k] = f[m] \o g[k]
    <3>1. h[m + k] = (f[m] \o g[k - 1]) \o Fold[back[k]]
      BY <2>5, <2>6
    <3>2. f[m] \in Plain /\ g[k - 1] \in Plain
      BY <1>5, <2>5
    <3>3. (f[m] \o g[k - 1]) \o Fold[back[k]] = f[m] \o (g[k - 1] \o Fold[back[k]])
      BY <2>7, <2>8, <3>2
    <3> QED  BY <2>6, <3>1, <3>3
  <2> QED  BY <2>2, <2>9, <2>10
<1>7. n \in 0..n
  BY <1>1
<1> QED  BY <1>5, <1>6, <1>7 DEF all

\* A text is what it begins with and the rest.
LEMMA TwoParts ==
    ASSUME NEW text \in Text, NEW k \in 0..Len(text)
    PROVE  /\ SubSeq(text, 1, k) \in Text /\ SubSeq(text, k + 1, Len(text)) \in Text
           /\ text = SubSeq(text, 1, k) \o SubSeq(text, k + 1, Len(text))
<1> DEFINE front == SubSeq(text, 1, k)
           back == SubSeq(text, k + 1, Len(text))
           all == front \o back
<1>1. PICK n \in Nat : n = Len(text)
  BY DEF Text
<1>2. k \in Nat /\ k <= n
  BY <1>1
<1>3. front \in Text /\ Len(front) = k /\ \A i \in 1..k : front[i] = text[i]
  BY <1>1, <1>2 DEF Text
<1>4. /\ back \in Text /\ Len(back) = n - k
      /\ \A i \in 1..(n - k) : back[i] = text[k + i]
  BY <1>1, <1>2 DEF Text
<1> HIDE DEF front, back
<1>5. /\ all \in Text /\ Len(all) = n
      /\ \A i \in 1..n : all[i] = IF i <= k THEN front[i] ELSE back[i - k]
  <2>1. n - k \in Nat /\ k + (n - k) = n
    BY <1>2
  <2>2. /\ all \in Text /\ Len(all) = k + (n - k)
        /\ \A i \in 1..(k + (n - k)) : all[i] = IF i <= k THEN front[i] ELSE back[i - k]
    <3>1. front \in Seq(Ascii \cup Wide) /\ back \in Seq(Ascii \cup Wide)
      BY <1>3, <1>4 DEF Text
    <3>2. /\ all \in Seq(Ascii \cup Wide) /\ Len(all) = Len(front) + Len(back)
          /\ \A i \in 1..(Len(front) + Len(back)) :
                all[i] = IF i <= Len(front) THEN front[i] ELSE back[i - Len(front)]
      BY <3>1, ConcatProperties
    <3> QED  BY <1>3, <1>4, <3>2 DEF Text
  <2> QED  BY <2>1, <2>2
<1> HIDE DEF all
<1>6. ASSUME NEW i \in 1..n
      PROVE  all[i] = text[i]
  <2>1. CASE i <= k
    <3>1. i \in 1..k
      BY <1>2, <2>1
    <3> QED  BY <1>3, <1>5, <2>1, <3>1
  <2>2. CASE ~(i <= k)
    <3>1. i - k \in 1..(n - k) /\ k + (i - k) = i
      BY <1>2, <2>2
    <3> QED  BY <1>4, <1>5, <2>2, <3>1
  <2> QED  BY <2>1, <2>2
<1>7. all = text
  BY <1>1, <1>5, <1>6, SeqEqual DEF Text
<1> QED  BY <1>3, <1>4, <1>7 DEF front, back, all

LEMMA FoldedTexts ==
    ASSUME NEW text \in Text
    PROVE  /\ Folded(text) \in Plain /\ Folded(text) \in Text
           /\ Lower(text) \in Text /\ Len(Lower(text)) = Len(text)
           /\ \A i \in 1..Len(text) :
                 Lower(text)[i] = IF text[i] = "A" THEN "a" ELSE text[i]
<1>1. Folded(text) \in Plain
  BY FoldIs, FoldedOver DEF Text, Plain
<1>2. Folded(text) \in Text
  BY <1>1 DEF Text, Plain
<1>3. "a" \in Ascii \cup Wide
  BY DEF Ascii
<1> QED  BY <1>1, <1>2, <1>3 DEF Lower, Text

\* A character by itself.
LEMMA FoldedChar ==
    ASSUME NEW c \in Ascii \cup Wide
    PROVE  <<c>> \in Text /\ Folded(<<c>>) = Fold[c]
<1>1. <<c>> \in Text /\ Len(<<c>>) = 1 /\ <<c>>[1] = c
  BY DEF Text
<1>2. PICK g : FoldsTo(g, <<c>>)
  BY <1>1, FoldedTo
<1>3. g[1] = << >> \o Fold[c] /\ Folded(<<c>>) = g[1]
  <2> DEFINE text == <<c>>
  <2>1. Len(text) = 1 /\ text[1] = c /\ 1 \in 1..1 /\ 1 - 1 = 0
    BY <1>1
  <2>2. FoldsTo(g, text)
    BY <1>2
  <2> HIDE DEF text
  <2>3. g[1] = g[1 - 1] \o Fold[text[1]] /\ g[0] = << >> /\ Folded(text) = g[1]
    BY <2>1, <2>2 DEF FoldsTo
  <2> QED  BY <2>1, <2>3 DEF text
<1>4. << >> \o Fold[c] = Fold[c]
  BY FoldIs DEF Plain
<1> QED  BY <1>1, <1>3, <1>4

\* What a text begins with when it is folded.
LEMMA FoldedFirst ==
    ASSUME NEW text \in Text, text # << >>
    PROVE  /\ text[1] \in Ascii \cup Wide
           /\ \E rest \in Plain : Folded(text) = Fold[text[1]] \o rest
<1>1. Len(text) \in Nat /\ 1 \in 0..Len(text) /\ 1 \in 1..Len(text)
  BY DEF Text
<1>2. text[1] \in Ascii \cup Wide
  BY <1>1 DEF Text
<1>3. SubSeq(text, 1, 1) = <<text[1]>>
  <2>1. /\ SubSeq(text, 1, 1) \in Text /\ Len(SubSeq(text, 1, 1)) = 1
        /\ SubSeq(text, 1, 1)[1] = text[1]
    BY <1>1 DEF Text
  <2>2. <<text[1]>> \in Text /\ Len(<<text[1]>>) = 1 /\ <<text[1]>>[1] = text[1]
    BY <1>2 DEF Text
  <2>3. \A i \in 1..1 : i = 1
    OBVIOUS
  <2> QED  BY <2>1, <2>2, <2>3, SeqEqual DEF Text
<1> DEFINE rest == SubSeq(text, 2, Len(text))
<1>4. rest \in Text /\ text = <<text[1]>> \o rest
  <2>1. 1 + 1 = 2
    OBVIOUS
  <2> QED  BY <1>1, <1>3, <2>1, TwoParts
<1> HIDE DEF rest
<1>5. Folded(text) = Folded(<<text[1]>>) \o Folded(rest)
  <2>1. <<text[1]>> \in Text
    BY <1>2, FoldedChar
  <2> QED  BY <1>4, <2>1, FoldedParts
<1> QED  BY <1>2, <1>4, <1>5, FoldedChar, FoldedTexts

\* What the codec takes does not vanish: a text that could be encoded is not empty.
LEMMA FoldedNonempty ==
    ASSUME NEW text \in Text, text # << >>, Encodes(text)
    PROVE  Folded(text) # << >>
<1>1. CASE IsAscii(text)
  <2>1. Len(text) \in Nat /\ 1 \in 1..Len(text)
    BY DEF Text
  <2>2. text[1] \in Ascii
    BY <1>1, <2>1 DEF IsAscii, ToSet, Text
  <2>3. PICK rest \in Plain : Folded(text) = Fold[text[1]] \o rest
    BY FoldedFirst
  <2>4. Fold[text[1]] \in Plain /\ Fold[text[1]] # << >>
    BY <2>2, FoldIs
  <2>5. \A a, b \in Plain : a # << >> => a \o b # << >>
    BY DEF Plain
  <2> QED  BY <2>3, <2>4, <2>5
<1>2. CASE LabelsFit(text, {".", "wide ."})
  <2> DEFINE C == Cuts(text, {".", "wide ."})
  <2>1. PICK n \in Nat : n = Len(text) /\ DOMAIN text = 1..n
    BY DEF Text
  <2>2. /\ 0 \in C /\ n + 1 \in C
        /\ \A k \in C : k \in Nat /\ k <= n + 1
    <3>1. 0 \in C /\ n + 1 \in C
      BY <2>1, Zenon DEF Cuts
    <3>2. \A k \in C : k = 0 \/ k = n + 1 \/ k \in 1..n
      BY <2>1, Zenon DEF Cuts
    <3> HIDE DEF C
    <3> QED  BY <2>1, <3>1, <3>2
  <2> HIDE DEF C
  <2>3. PICK j \in C \ {0} : \A k \in C \ {0} : j <= k
    <3>1. C \ {0} \subseteq Nat /\ C \ {0} # {}
      BY <2>1, <2>2
    <3> QED  BY <3>1, LeastNatural
  <2>4. j \in Nat /\ 0 < j /\ j <= n + 1 /\ \A k \in C : k <= 0 \/ j <= k
    BY <2>2, <2>3
  <2>5. Len(Folded(SubSeq(text, 0 + 1, j - 1))) \in 1..LongestLabel
    <3>1. \A i, k \in C :
             i < k /\ (\A h \in C : h <= i \/ k <= h)
             => \/ Len(Folded(SubSeq(text, i + 1, k - 1))) \in 1..LongestLabel
                \/ k = i + 1 /\ k = Len(text) + 1 /\ i > 0
      BY <1>2, Zenon DEF LabelsFit, C
    <3>2. ~(0 > 0) /\ j \in C
      BY <2>3
    <3> QED  BY <2>2, <2>4, <3>1, <3>2, Zenon
  <2>6. j - 1 \in 0..n /\ 0 + 1 = 1
    BY <2>1, <2>4
  <2> DEFINE front == SubSeq(text, 1, j - 1)
             back == SubSeq(text, (j - 1) + 1, n)
  <2>7. front \in Text /\ back \in Text /\ text = front \o back
    BY <2>1, <2>6, TwoParts
  <2>8. Len(Folded(front)) # 0
    BY <2>5, <2>6
  <2> HIDE DEF front, back
  <2>9. Folded(text) = Folded(front) \o Folded(back)
    BY <2>7, FoldedParts
  <2>10. Folded(front) \in Plain /\ Folded(back) \in Plain
    BY <2>7, FoldedTexts
  <2>11. \A a, b \in Plain : Len(a) # 0 => a \o b # << >>
    BY DEF Plain
  <2> QED  BY <2>8, <2>9, <2>10, <2>11
<1> QED  BY <1>1, <1>2 DEF Encodes

\* Normalising twice is normalising once.
LEMMA Idempotent ==
    ASSUME NEW text \in Plain
    PROVE  Folded(text) = text /\ Lower(text) = text /\ Encodes(text) /\ text \in Text
<1>1. /\ text = [i \in 1..Len(text) |-> text[i]] /\ DOMAIN text = 1..Len(text)
      /\ \A i \in 1..Len(text) : text[i] \in Ascii \ {"A"}
  BY DEF Plain
<1>2. text \in Text
  BY <1>1 DEF Plain, Text
<1>3. Folded(text) = text
  BY <1>1, <1>2, FoldIs, FoldedSame
<1>4. Lower(text) = text
  BY <1>1 DEF Lower
<1>5. IsAscii(text)
  BY <1>1 DEF IsAscii, ToSet
<1> QED  BY <1>2, <1>3, <1>4, <1>5 DEF Encodes

LEMMA PatternIsText ==
    ASSUME NEW text \in Text
    PROVE  AsHostPattern(Rstrip(text)) \in Text
<1> DEFINE entry == Rstrip(text)
<1>1. entry \in Text /\ Rest(entry) \in Text
  BY PartsOfTexts
<1> HIDE DEF entry
<1>2. Folded(entry) \in Text /\ Folded(Rest(entry)) \in Text
  BY <1>1, FoldedTexts
<1>3. <<"*", ".">> \in Text
  BY DEF Text, Ascii
<1> QED
  <2>1. <<"*", ".">> \o Folded(Rest(entry)) \in Text  BY <1>2, <1>3 DEF Text
  <2> QED  BY <1>2, <2>1 DEF AsHostPattern, Normalise, entry

-----------------------------------------------------------------------------
(* Readings.                                                               *)

LEMMA Order ==
    /\ DOMAIN After = {"length", "control", "split", "scheme", "userinfo", "host",
                       "hostlength", "normalise", "shape", "port", "listed", "address"}
    /\ After["length"] = "control" /\ After["control"] = "split"
    /\ After["split"] = "scheme" /\ After["scheme"] = "userinfo"
    /\ After["userinfo"] = "host" /\ After["host"] = "hostlength"
    /\ After["hostlength"] = "normalise" /\ After["normalise"] = "shape"
    /\ After["shape"] = "port" /\ After["port"] = "listed"
    /\ After["listed"] = "address" /\ After["address"] = "permitted"
<1> QED  BY DEF After

LEMMA SettingsFields == Settings \subseteq SettingsRecord
<1> QED  BY SettingsAssumption DEF SettingsRecord

LEMMA UrlFields == Url \subseteq UrlRecord
<1>1. Nat \cup {NoPort, BadPort} \subseteq Int
  BY DEF NoPort, BadPort
<1> QED  BY UrlAssumption, <1>1 DEF UrlRecord

\* What the host part of a URL is, and when it is all of it.
LEMMA HostpartIs ==
    ASSUME url \in UrlRecord
    PROVE  /\ Hostpart \in Text
           /\ url.bracketed \/ ~Has(url.host, ":") => Hostpart = url.host
           /\ ~url.bracketed => ~Has(Hostpart, ":")
<1> DEFINE n == Before(url.host, ":")
<1>1. url.host \in Text /\ Len(url.host) \in Nat
  BY DEF UrlRecord, Text
<1>2. /\ n \in 0..Len(url.host)
      /\ \A i \in 1..n : url.host[i] # ":"
      /\ ~Has(url.host, ":") => n = Len(url.host)
  BY <1>1, BeforeFirst
<1>3. Hostpart = IF url.bracketed THEN url.host ELSE SubSeq(url.host, 1, n)
  BY DEF Hostpart
<1> HIDE DEF n
<1>4. SubSeq(url.host, 1, n) \in Text
  BY <1>1, <1>2 DEF Text
<1>5. ~Has(SubSeq(url.host, 1, n), ":")
  BY <1>1, <1>2 DEF Text, Has, ToSet
<1>6. SubSeq(url.host, 1, Len(url.host)) = url.host
  BY <1>1 DEF Text
<1> QED  BY <1>1, <1>2, <1>3, <1>4, <1>5, <1>6

\* Normalisation leaves no zone in a literal that had none.
LEMMA Normalises ==
    ASSUME url \in UrlRecord, host = Lower(Hostpart), Splits,
           host # << >>, ~Has(host, "%")
    PROVE  Normalised(Normalise(host))
<1> DEFINE name == Folded(host)
           Chars == Ascii \cup Wide
<1>1. /\ Hostpart \in Text /\ host \in Text /\ Len(host) = Len(Hostpart)
      /\ \A i \in 1..Len(host) :
            host[i] = IF Hostpart[i] = "A" THEN "a" ELSE Hostpart[i]
  BY HostpartIs, FoldedTexts
<1>2. name \in Plain
  BY <1>1, FoldedTexts
<1>3. Len(host) \in Nat /\ 1 \in 1..Len(host) /\ host \in Seq(Chars)
  BY <1>1 DEF Text
<1>4. \A R, c : name \in Seq(R) /\ c \notin R => ~Has(name, c)
  <2> HIDE DEF name
  <2> QED  BY DEF Has, ToSet
<1>5. \A i \in 1..Len(host) : host[i] \in Chars /\ Has(host, host[i])
  <2> HIDE DEF Chars
  <2> QED  BY <1>3 DEF Has, ToSet
<1> HIDE DEF name
<1>6. ASSUME Has(name, "%"), Has(name, ":"), name[1] # "v"
      PROVE  FALSE
  <2>1. PICK j \in 1..Len(host) : host[j] = ":"
    <3> SUFFICES ASSUME \A j \in 1..Len(host) : host[j] # ":"
                 PROVE  FALSE
      OBVIOUS
    <3>1. host \in Seq(Chars \ {":"})
      BY <1>3, <1>5
    <3>2. name \in Seq(Chars \ {":"})
      BY <1>1, <3>1, FoldIs, FoldedOver DEF name
    <3> QED  BY <1>4, <1>6, <3>2
  <2>2. Hostpart[j] = ":"
    BY <1>1, <2>1
  <2>3. Has(Hostpart, ":")
    BY <1>1, <2>2 DEF Has, ToSet, Text
  <2>4. url.bracketed /\ Hostpart = url.host
    BY <2>3, HostpartIs
  <2>5. url.host \in Literal \/ url.host[1] = "v"
    BY <2>4 DEF Splits
  <2>6. CASE url.host[1] = "v"
    <3>1. host[1] = "v"
      BY <1>1, <1>3, <2>4, <2>6
    <3>2. PICK rest \in Plain : name = Fold["v"] \o rest
      BY <1>1, <3>1, FoldedFirst DEF name
    <3>3. Fold["v"] = <<"v">>
      BY FoldIs DEF Ascii
    <3>4. (<<"v">> \o rest)[1] = "v"
      BY DEF Plain
    <3> QED  BY <1>6, <3>2, <3>3, <3>4
  <2>7. CASE url.host \in Literal
    <3>1. Hostpart \in Seq(Ascii) /\ "a" \in Ascii
      BY <2>4, <2>7, LiteralAssumption DEF Ascii
    <3>2. \A i \in 1..Len(host) : Hostpart[i] \in Ascii
      BY <1>1, <3>1
    <3>3. \A i \in 1..Len(host) : host[i] \in Ascii /\ host[i] # "%"
      BY <1>1, <1>5, <3>1, <3>2
    <3>4. host \in Seq(Ascii \ {"%"})
      BY <1>3, <3>3
    <3>5. name \in Seq(Chars \ {"%"})
      BY <1>1, <3>4, FoldIs, FoldedOver DEF name
    <3> QED  BY <1>4, <1>6, <3>5
  <2> QED  BY <2>5, <2>6, <2>7
<1>7. Normalised(name)
  BY <1>2, <1>6 DEF Normalised
<1> QED  BY <1>7 DEF name, Normalise

\* A name that is normalised and well shaped passes the checks that come before those.
LEMMA NoZone ==
    ASSUME NEW name, Normalised(name), WellShaped(name)
    PROVE  /\ ~Has(name, "%") /\ name # << >> /\ name \in Plain
           /\ Has(name, ":") => name \in Literal
<1>1. CASE name \in Literal
  <2>1. /\ name[1] # "v" /\ name # << >>
        /\ ":" \in ToSet(name) \/ ToSet(name) \subseteq {"1", "."}
    BY <1>1, LiteralAssumption
  <2> QED  BY <1>1, <2>1 DEF Normalised, Has
<1>2. CASE Hostname(name)
  BY <1>2 DEF Hostname, Normalised, Has
<1> QED  BY <1>1, <1>2 DEF WellShaped

\* The URL of a target is read as the target.
LEMMA SeamUrl ==
    ASSUME NEW t \in [host : Text, port : Int, scheme : Scheme],
           Normalised(t.host), WellShaped(t.host), url \in UrlRecord,
           url = OriginUrl(t.scheme, [host |-> t.host, port |-> t.port])
    PROVE  Splits /\ Lower(Hostpart) = t.host /\ Portpart = t.port
<1>1. /\ url.host = t.host /\ url.port = t.port /\ url.parses
      /\ url.bracketed = Has(t.host, ":")
  BY DEF OriginUrl
<1>2. Has(t.host, ":") => t.host \in Literal
  BY NoZone
<1>3. Hostpart = t.host
  BY <1>1, HostpartIs
<1>4. Lower(t.host) = t.host
  BY NoZone, Idempotent
<1> QED  BY <1>1, <1>2, <1>3, <1>4 DEF Splits, Portpart

-----------------------------------------------------------------------------
(* The readings keep the invariant.                                        *)

Kept == UNCHANGED <<policy, listed, hosts, by, url, origin, host, port, target>>

\* What does not depend on the reading that comes next.
LEMMA LookKeeps ==
    ASSUME Kept, stage' \in DOMAIN After \cup {"permitted", "refused"},
           stage \in DOMAIN After, read' \subseteq DOMAIN After, Typed, GoodTarget
    PROVE  Typed' /\ GoodTarget' /\ Hostpart' = Hostpart
<1>1. TypeOK'
  BY DEF Kept, Typed, TypeOK, Stage
<1>2. Typed'
  BY <1>1 DEF Kept, Typed
<1>3. GoodTarget'
  BY Order DEF Kept, GoodTarget, CheckHost
<1>4. Hostpart' = Hostpart
  BY DEF Kept, Hostpart
<1> QED  BY <1>2, <1>3, <1>4

LEMMA RejectOverlongKeeps ==
    ASSUME IInv, RejectOverlong
    PROVE  IInv'
<1>0. Typed /\ Lengths /\ HostSoFar /\ PortSoFar /\ GoodTarget /\ SeamReads
  BY DEF IInv
<1>1. /\ stage = "length" /\ read' = read \cup {"length"} /\ Kept
      /\ stage' \in {"control", "refused"}
      /\ stage' = "control" <=> url.length <= policy.maxUrlLength
  BY Order DEF RejectOverlong, Looks, Reading, configured, Kept
<1>2. Typed' /\ GoodTarget' /\ Hostpart' = Hostpart
  <2>1. read \subseteq DOMAIN After  BY <1>0 DEF Typed, TypeOK
  <2> QED  BY <2>1, <1>0, <1>1, Order, LookKeeps
<1>3. Lengths'
  BY <1>0, <1>1, <1>2 DEF Lengths, RefusedUnread, PastLength, Kept
<1>4. HostSoFar'
  BY <1>0, <1>1, <1>2 DEF HostSoFar, Splits, Raw, Normal, CheckHost, Kept
<1>5. PortSoFar'
  BY <1>0, <1>1 DEF PortSoFar, PastLength, Kept
<1>6. SeamReads'
  BY <1>0, <1>1, Order DEF SeamReads, Raw, Normal, Kept
<1>7. SeamsAgree'
  <2> SUFFICES ASSUME by = "requests", target # NoTarget, stage' = "refused"
               PROVE  Frame + Len(target.host) > policy.maxUrlLength
    BY <1>0, <1>1, Order DEF SeamsAgree, SeamReads, Kept
  <2>1. ~(url.length <= policy.maxUrlLength)  BY <1>1
  <2>2. url.length = Frame + Len(target.host)
    BY <1>0, <1>1, Order DEF SeamReads, OriginUrl
  <2>3. url.length \in Nat /\ policy.maxUrlLength \in Nat
    BY <1>0, <1>1, Order DEF Typed, UrlRecord, SettingsRecord
  <2> QED  BY <2>1, <2>2, <2>3
<1> QED  BY <1>2, <1>3, <1>4, <1>5, <1>6, <1>7 DEF IInv

LEMMA RejectControlCharactersKeeps ==
    ASSUME IInv, RejectControlCharacters
    PROVE  IInv'
<1>0. Typed /\ Lengths /\ HostSoFar /\ PortSoFar /\ GoodTarget /\ SeamReads
  BY DEF IInv
<1>1. /\ stage = "control" /\ read' = read \cup {"control"} /\ Kept
      /\ stage' \in {"split", "refused"}
      /\ stage' = "split" <=> ~url.control
  BY Order DEF RejectControlCharacters, Looks, Reading, configured, Kept
<1>2. Typed' /\ GoodTarget' /\ Hostpart' = Hostpart
  <2>1. read \subseteq DOMAIN After  BY <1>0 DEF Typed, TypeOK
  <2> QED  BY <2>1, <1>0, <1>1, Order, LookKeeps
<1>3. Lengths'
  BY <1>0, <1>1, <1>2 DEF Lengths, RefusedUnread, PastLength, Kept
<1>4. HostSoFar'
  BY <1>0, <1>1, <1>2 DEF HostSoFar, Splits, Raw, Normal, CheckHost, Kept
<1>5. PortSoFar'
  BY <1>0, <1>1 DEF PortSoFar, PastLength, Kept
<1>6. SeamReads'
  BY <1>0, <1>1, Order DEF SeamReads, Raw, Normal, Kept
<1>7. SeamsAgree'
  <2> SUFFICES ASSUME by = "requests", target # NoTarget, stage' = "refused"
               PROVE  Frame + Len(target.host) > policy.maxUrlLength
    BY <1>0, <1>1, Order DEF SeamsAgree, SeamReads, Kept
  <2>1. ~url.control  BY <1>0, <1>1, Order DEF SeamReads, OriginUrl
  <2> QED  BY <2>1, <1>1
<1> QED  BY <1>2, <1>3, <1>4, <1>5, <1>6, <1>7 DEF IInv

LEMMA CheckSchemeKeeps ==
    ASSUME IInv, CheckScheme
    PROVE  IInv'
<1>0. Typed /\ Lengths /\ HostSoFar /\ PortSoFar /\ GoodTarget /\ SeamReads
  BY DEF IInv
<1>1. /\ stage = "scheme" /\ read' = read \cup {"scheme"} /\ Kept
      /\ stage' \in {"userinfo", "refused"}
      /\ stage' = "userinfo" <=> url.scheme \in policy.schemes \ {""}
  BY Order DEF CheckScheme, Looks, Reading, configured, Kept
<1>2. Typed' /\ GoodTarget' /\ Hostpart' = Hostpart
  <2>1. read \subseteq DOMAIN After  BY <1>0 DEF Typed, TypeOK
  <2> QED  BY <2>1, <1>0, <1>1, Order, LookKeeps
<1>3. Lengths'
  BY <1>0, <1>1, <1>2 DEF Lengths, RefusedUnread, PastLength, Kept
<1>4. HostSoFar'
  BY <1>0, <1>1, <1>2 DEF HostSoFar, Splits, Raw, Normal, CheckHost, Kept
<1>5. PortSoFar'
  BY <1>0, <1>1 DEF PortSoFar, PastLength, Kept
<1>6. SeamReads'
  BY <1>0, <1>1, Order DEF SeamReads, Raw, Normal, Kept
<1>7. SeamsAgree'
  <2> SUFFICES ASSUME by = "requests", target # NoTarget, stage' = "refused"
               PROVE  Frame + Len(target.host) > policy.maxUrlLength
    BY <1>0, <1>1, Order DEF SeamsAgree, SeamReads, Kept
  <2>0. url = OriginUrl(target.scheme, [host |-> target.host, port |-> target.port])
    BY <1>0, <1>1, Order DEF SeamReads
  <2>1. url.scheme = target.scheme
    BY <2>0 DEF OriginUrl
  <2>2. url.scheme \in policy.schemes \ {""}
    BY <1>0, <2>1 DEF GoodTarget
  <2> QED  BY <2>2, <1>1
<1> QED  BY <1>2, <1>3, <1>4, <1>5, <1>6, <1>7 DEF IInv

LEMMA CheckUserinfoKeeps ==
    ASSUME IInv, CheckUserinfo
    PROVE  IInv'
<1>0. Typed /\ Lengths /\ HostSoFar /\ PortSoFar /\ GoodTarget /\ SeamReads
  BY DEF IInv
<1>1. /\ stage = "userinfo" /\ read' = read \cup {"userinfo"} /\ Kept
      /\ stage' \in {"host", "refused"}
      /\ stage' = "host" <=> policy.userinfo \/ ~url.userinfo
  BY Order DEF CheckUserinfo, Looks, Reading, configured, Kept
<1>2. Typed' /\ GoodTarget' /\ Hostpart' = Hostpart
  <2>1. read \subseteq DOMAIN After  BY <1>0 DEF Typed, TypeOK
  <2> QED  BY <2>1, <1>0, <1>1, Order, LookKeeps
<1>3. Lengths'
  BY <1>0, <1>1, <1>2 DEF Lengths, RefusedUnread, PastLength, Kept
<1>4. HostSoFar'
  BY <1>0, <1>1, <1>2 DEF HostSoFar, Splits, Raw, Normal, CheckHost, Kept
<1>5. PortSoFar'
  BY <1>0, <1>1 DEF PortSoFar, PastLength, Kept
<1>6. SeamReads'
  BY <1>0, <1>1, Order DEF SeamReads, Raw, Normal, Kept
<1>7. SeamsAgree'
  <2> SUFFICES ASSUME by = "requests", target # NoTarget, stage' = "refused"
               PROVE  Frame + Len(target.host) > policy.maxUrlLength
    BY <1>0, <1>1, Order DEF SeamsAgree, SeamReads, Kept
  <2>1. ~url.userinfo  BY <1>0, <1>1, Order DEF SeamReads, OriginUrl
  <2> QED  BY <2>1, <1>1
<1> QED  BY <1>2, <1>3, <1>4, <1>5, <1>6, <1>7 DEF IInv

LEMMA HostPresentKeeps ==
    ASSUME IInv, HostPresent
    PROVE  IInv'
<1>0. Typed /\ Lengths /\ HostSoFar /\ PortSoFar /\ GoodTarget /\ SeamReads
  BY DEF IInv
<1>1. /\ stage = "host" /\ read' = read \cup {"host"} /\ Kept
      /\ stage' \in {"hostlength", "refused"}
      /\ stage' = "hostlength" <=> host # << >> /\ ~Has(host, "%")
  BY Order DEF HostPresent, Looks, Reading, configured, Kept
<1>2. Typed' /\ GoodTarget' /\ Hostpart' = Hostpart
  <2>1. read \subseteq DOMAIN After  BY <1>0 DEF Typed, TypeOK
  <2> QED  BY <2>1, <1>0, <1>1, Order, LookKeeps
<1>3. Lengths'
  BY <1>0, <1>1, <1>2 DEF Lengths, RefusedUnread, PastLength, Kept
<1>4. HostSoFar'
  BY <1>0, <1>1, <1>2 DEF HostSoFar, Splits, Raw, Normal, CheckHost, Kept
<1>5. PortSoFar'
  BY <1>0, <1>1 DEF PortSoFar, PastLength, Kept
<1>6. SeamReads'
  BY <1>0, <1>1, Order DEF SeamReads, Raw, Normal, Kept
<1>7. SeamsAgree'
  <2> SUFFICES ASSUME by = "requests", target # NoTarget, stage' = "refused"
               PROVE  Frame + Len(target.host) > policy.maxUrlLength
    BY <1>0, <1>1, Order DEF SeamsAgree, SeamReads, Kept
  <2>1. host = target.host  BY <1>0, <1>1, Order DEF SeamReads, Raw
  <2>2. host # << >> /\ ~Has(host, "%")  BY <1>0, <2>1, NoZone DEF GoodTarget
  <2> QED  BY <2>2, <1>1
<1> QED  BY <1>2, <1>3, <1>4, <1>5, <1>6, <1>7 DEF IInv

LEMMA RejectOverlongHostKeeps ==
    ASSUME IInv, RejectOverlongHost
    PROVE  IInv'
<1>0. Typed /\ Lengths /\ HostSoFar /\ PortSoFar /\ GoodTarget /\ SeamReads
  BY DEF IInv
<1>1. /\ stage = "hostlength" /\ read' = read \cup {"hostlength"} /\ Kept
      /\ stage' \in {"normalise", "refused"}
      /\ stage' = "normalise" <=> Len(host) <= LongestHostname
  BY Order DEF RejectOverlongHost, Looks, Reading, configured, Kept
<1>2. Typed' /\ GoodTarget' /\ Hostpart' = Hostpart
  <2>1. read \subseteq DOMAIN After  BY <1>0 DEF Typed, TypeOK
  <2> QED  BY <2>1, <1>0, <1>1, Order, LookKeeps
<1>3. Lengths'
  BY <1>0, <1>1, <1>2 DEF Lengths, RefusedUnread, PastLength, Kept
<1>4. HostSoFar'
  BY <1>0, <1>1, <1>2 DEF HostSoFar, Splits, Raw, Normal, CheckHost, Kept
<1>5. PortSoFar'
  BY <1>0, <1>1 DEF PortSoFar, PastLength, Kept
<1>6. SeamReads'
  BY <1>0, <1>1, Order DEF SeamReads, Raw, Normal, Kept
<1>7. SeamsAgree'
  <2> SUFFICES ASSUME by = "requests", target # NoTarget, stage' = "refused"
               PROVE  Len(target.host) > LongestHostname
    BY <1>0, <1>1, Order DEF SeamsAgree, SeamReads, Kept
  <2>1. host = target.host  BY <1>0, <1>1, Order DEF SeamReads, Raw
  <2>2. ~(Len(host) <= LongestHostname)  BY <1>1
  <2>3. Len(host) \in Nat /\ LongestHostname \in Nat
    BY <1>0, LengthAssumption DEF Typed, TypeOK, Text
  <2> QED  BY <2>1, <2>2, <2>3
<1> QED  BY <1>2, <1>3, <1>4, <1>5, <1>6, <1>7 DEF IInv

LEMMA ShapeKeeps ==
    ASSUME IInv, Shape
    PROVE  IInv'
<1>0. Typed /\ Lengths /\ HostSoFar /\ PortSoFar /\ GoodTarget /\ SeamReads
  BY DEF IInv
<1>1. /\ stage = "shape" /\ read' = read \cup {"shape"} /\ Kept
      /\ stage' \in {"port", "refused"}
      /\ stage' = "port" <=> WellShaped(host)
  BY Order DEF Shape, Looks, Reading, configured, Kept
<1>2. Typed' /\ GoodTarget' /\ Hostpart' = Hostpart
  <2>1. read \subseteq DOMAIN After  BY <1>0 DEF Typed, TypeOK
  <2> QED  BY <2>1, <1>0, <1>1, Order, LookKeeps
<1>3. Lengths'
  BY <1>0, <1>1, <1>2 DEF Lengths, RefusedUnread, PastLength, Kept
<1>4. HostSoFar'
  BY <1>0, <1>1, <1>2 DEF HostSoFar, Splits, Raw, Normal, CheckHost, Kept
<1>5. PortSoFar'
  BY <1>0, <1>1 DEF PortSoFar, PastLength, Kept
<1>6. SeamReads'
  BY <1>0, <1>1, Order DEF SeamReads, Raw, Normal, Kept
<1>7. SeamsAgree'
  <2> SUFFICES ASSUME by = "requests", target # NoTarget, stage' = "refused"
               PROVE  Frame + Len(target.host) > policy.maxUrlLength
    BY <1>0, <1>1, Order DEF SeamsAgree, SeamReads, Kept
  <2>1. host = target.host  BY <1>0, <1>1, Order DEF SeamReads, Normal
  <2>2. WellShaped(host)  BY <1>0, <2>1 DEF GoodTarget
  <2> QED  BY <2>2, <1>1
<1> QED  BY <1>2, <1>3, <1>4, <1>5, <1>6, <1>7 DEF IInv

LEMMA CheckHostIsListedKeeps ==
    ASSUME IInv, CheckHostIsListed
    PROVE  IInv'
<1>0. Typed /\ Lengths /\ HostSoFar /\ PortSoFar /\ GoodTarget /\ SeamReads
  BY DEF IInv
<1>1. /\ stage = "listed" /\ read' = read \cup {"listed"} /\ Kept
      /\ stage' \in {"address", "refused"}
      /\ stage' = "address" <=> CheckHost(host)
  BY Order DEF CheckHostIsListed, Looks, Reading, configured, Kept
<1>2. Typed' /\ GoodTarget' /\ Hostpart' = Hostpart
  <2>1. read \subseteq DOMAIN After  BY <1>0 DEF Typed, TypeOK
  <2> QED  BY <2>1, <1>0, <1>1, Order, LookKeeps
<1>3. Lengths'
  BY <1>0, <1>1, <1>2 DEF Lengths, RefusedUnread, PastLength, Kept
<1>4. HostSoFar'
  BY <1>0, <1>1, <1>2 DEF HostSoFar, Splits, Raw, Normal, CheckHost, Kept
<1>5. PortSoFar'
  BY <1>0, <1>1 DEF PortSoFar, PastLength, Kept
<1>6. SeamReads'
  BY <1>0, <1>1, Order DEF SeamReads, Raw, Normal, Kept
<1>7. SeamsAgree'
  <2> SUFFICES ASSUME by = "requests", target # NoTarget, stage' = "refused"
               PROVE  Frame + Len(target.host) > policy.maxUrlLength
    BY <1>0, <1>1, Order DEF SeamsAgree, SeamReads, Kept
  <2>1. host = target.host  BY <1>0, <1>1, Order DEF SeamReads, Normal
  <2>2. CheckHost(host)  BY <1>0, <2>1 DEF GoodTarget
  <2> QED  BY <2>2, <1>1
<1> QED  BY <1>2, <1>3, <1>4, <1>5, <1>6, <1>7 DEF IInv

LEMMA SplitKeeps ==
    ASSUME IInv, Split
    PROVE  IInv'
<1>0. Typed /\ Lengths /\ HostSoFar /\ PortSoFar /\ GoodTarget /\ SeamReads
  BY DEF IInv
<1>1. /\ stage = "split" /\ read' = read \cup {"split"}
      /\ UNCHANGED <<policy, listed, hosts, by, url, origin, target>>
      /\ stage' \in {"scheme", "refused"}
      /\ stage' = "scheme" <=> Splits
      /\ host' = Lower(Hostpart) /\ port' = Portpart
  BY Order DEF Split, Reading, configured
<1>2. url \in UrlRecord /\ Hostpart \in Text /\ Hostpart' = Hostpart
  BY <1>0, <1>1, Order, HostpartIs DEF Typed, Hostpart
<1>3. Typed'
  <2>1. host' \in Text  BY <1>1, <1>2, FoldedTexts
  <2>2. port' \in Int  BY <1>1, <1>2 DEF Portpart, BadPort, UrlRecord
  <2>3. TypeOK'  BY <1>0, <1>1, <2>1, <2>2, Order DEF Typed, TypeOK, Stage
  <2> QED  BY <1>0, <1>1, <2>3, Order DEF Typed
<1>4. Lengths'
  BY <1>0, <1>1, <1>2 DEF Lengths, RefusedUnread, PastLength
<1>5. HostSoFar'
  BY <1>0, <1>1, <1>2 DEF HostSoFar, Splits, Raw, Normal
<1>6. PortSoFar'
  BY <1>0, <1>1 DEF PortSoFar, PastLength
<1>7. GoodTarget'
  BY <1>0, <1>1 DEF GoodTarget, CheckHost
<1>8. by = "requests" /\ target # NoTarget =>
         Splits /\ host' = target.host /\ port' = target.port
  BY <1>0, <1>1, <1>2, Order, SeamUrl DEF SeamReads, GoodTarget, Typed, TypeOK
<1>9. SeamReads'
  BY <1>0, <1>1, <1>8, Order DEF SeamReads
<1>10. SeamsAgree'
  BY <1>0, <1>1, <1>8, Order DEF SeamsAgree, SeamReads
<1> QED  BY <1>3, <1>4, <1>5, <1>6, <1>7, <1>9, <1>10 DEF IInv

LEMMA NormaliseHostKeeps ==
    ASSUME IInv, NormaliseHost
    PROVE  IInv'
<1>0. Typed /\ Lengths /\ HostSoFar /\ PortSoFar /\ GoodTarget /\ SeamReads
  BY DEF IInv
<1>1. /\ stage = "normalise" /\ read' = read \cup {"normalise"}
      /\ UNCHANGED <<policy, listed, hosts, by, url, origin, target, port>>
      /\ stage' \in {"shape", "refused"}
      /\ stage' = "shape" <=> Encodes(host)
      /\ host' = Normalise(host)
  BY Order DEF NormaliseHost, Reading, configured
<1>2. url \in UrlRecord /\ Hostpart \in Text /\ Hostpart' = Hostpart
  BY <1>0, <1>1, Order, HostpartIs DEF Typed, Hostpart
<1>3. host = Lower(Hostpart) /\ Splits /\ host # << >> /\ ~Has(host, "%")
      /\ Len(host) <= LongestHostname
  BY <1>0, <1>1 DEF HostSoFar, Raw
<1>4. Typed'
  <2>1. host' \in Text
    BY <1>0, <1>1, FoldedTexts, Idempotent DEF Typed, TypeOK, Normalise
  <2>2. TypeOK'  BY <1>0, <1>1, <2>1, Order DEF Typed, TypeOK, Stage
  <2> QED  BY <1>0, <1>1, <2>2, Order DEF Typed
<1>5. Lengths'
  <2>1. Len(Hostpart) <= LongestHostname  BY <1>2, <1>3, FoldedTexts
  <2> QED  BY <2>1, <1>0, <1>1, <1>2 DEF Lengths, RefusedUnread, PastLength
<1>6. HostSoFar'
  <2>1. Normalised(host')  BY <1>1, <1>2, <1>3, Normalises
  <2> QED  BY <2>1, <1>0, <1>1 DEF HostSoFar, Raw, Normal
<1>7. PortSoFar'
  BY <1>0, <1>1 DEF PortSoFar, PastLength
<1>8. GoodTarget'
  BY <1>0, <1>1 DEF GoodTarget, CheckHost
<1>9. by = "requests" /\ target # NoTarget => Encodes(host) /\ host' = target.host
  <2> SUFFICES ASSUME by = "requests", target # NoTarget
               PROVE  Encodes(host) /\ host' = target.host
    OBVIOUS
  <2>1. host = target.host  BY <1>0, <1>1, Order DEF SeamReads, Raw
  <2>2. host \in Plain  BY <1>0, <2>1, NoZone DEF GoodTarget
  <2> QED  BY <2>1, <2>2, <1>1, Idempotent DEF Normalise
<1>10. SeamReads'
  BY <1>0, <1>1, <1>9, Order DEF SeamReads, Raw, Normal
<1>11. SeamsAgree'
  BY <1>0, <1>1, <1>9, Order DEF SeamsAgree, SeamReads
<1> QED  BY <1>4, <1>5, <1>6, <1>7, <1>8, <1>10, <1>11 DEF IInv

LEMMA CheckPortKeeps ==
    ASSUME IInv, CheckPort
    PROVE  IInv'
<1>0. Typed /\ Lengths /\ HostSoFar /\ PortSoFar /\ GoodTarget /\ SeamReads
  BY DEF IInv
<1>1. /\ stage = "port" /\ read' = read \cup {"port"}
      /\ UNCHANGED <<policy, listed, hosts, by, url, origin, target, host>>
      /\ stage' \in {"listed", "refused"}
      /\ stage' = "listed" <=> Chosen \in PortNumber /\ Chosen \in policy.ports
      /\ port' = Chosen
  BY Order DEF CheckPort, Reading, configured
<1>2. Hostpart' = Hostpart
  BY <1>1 DEF Hostpart
<1>3. Typed'
  <2>1. Chosen \in Int  BY <1>0 DEF Chosen, DefaultPorts, BadPort, Typed, TypeOK
  <2>2. TypeOK'  BY <1>0, <1>1, <2>1, Order DEF Typed, TypeOK, Stage
  <2> QED  BY <1>0, <1>1, <2>2, Order DEF Typed
<1>4. Lengths'
  BY <1>0, <1>1, <1>2 DEF Lengths, RefusedUnread, PastLength
<1>5. HostSoFar'
  BY <1>0, <1>1, <1>2 DEF HostSoFar, Raw, Normal
<1>6. PortSoFar'
  BY <1>0, <1>1 DEF PortSoFar, PastLength
<1>7. GoodTarget'
  BY <1>0, <1>1 DEF GoodTarget, CheckHost
<1>8. by = "requests" /\ target # NoTarget =>
         Chosen = target.port /\ Chosen \in PortNumber /\ Chosen \in policy.ports
  <2> SUFFICES ASSUME by = "requests", target # NoTarget
               PROVE  Chosen = target.port /\ Chosen \in PortNumber /\ Chosen \in policy.ports
    OBVIOUS
  <2>1. port = target.port  BY <1>0, <1>1, Order DEF SeamReads, Normal
  <2>2. target.port \in PortNumber /\ target.port \in policy.ports
    BY <1>0 DEF GoodTarget
  <2>3. NoPort \notin PortNumber  BY DEF NoPort, PortNumber
  <2>4. Chosen = port  BY <2>1, <2>2, <2>3 DEF Chosen
  <2> QED  BY <2>1, <2>2, <2>4
<1>9. SeamReads'
  BY <1>0, <1>1, <1>8, Order DEF SeamReads, Raw, Normal
<1>10. SeamsAgree'
  BY <1>0, <1>1, <1>8, Order DEF SeamsAgree, SeamReads
<1> QED  BY <1>3, <1>4, <1>5, <1>6, <1>7, <1>9, <1>10 DEF IInv

LEMMA CheckLiteralKeeps ==
    ASSUME IInv, CheckLiteral
    PROVE  IInv'
<1>0. Typed /\ Lengths /\ HostSoFar /\ PortSoFar /\ GoodTarget /\ SeamReads
  BY DEF IInv
<1>1. /\ stage = "address" /\ read' = read \cup {"address"}
      /\ UNCHANGED <<policy, listed, hosts, by, url, origin, host, port>>
      /\ stage' \in {"permitted", "refused"}
      /\ stage' = "permitted" <=> host \notin policy.denied
      /\ target' = IF host \notin policy.denied /\ by = "client"
                   THEN [host |-> host, port |-> port, scheme |-> url.scheme] ELSE target
  BY Order DEF CheckLiteral, Reading, configured
<1>2. Hostpart' = Hostpart
  BY <1>1 DEF Hostpart
<1>3. Typed'
  <2>1. target' \in [host : Text, port : Int, scheme : Scheme]
    BY <1>0, <1>1, Order DEF Typed, TypeOK, UrlRecord
  <2>2. TypeOK'  BY <1>0, <1>1, <2>1, Order DEF Typed, TypeOK, Stage
  <2> QED  BY <1>0, <1>1, <2>2, Order DEF Typed
<1>4. Lengths'
  BY <1>0, <1>1, <1>2 DEF Lengths, RefusedUnread, PastLength
<1>5. HostSoFar'
  BY <1>0, <1>1 DEF HostSoFar, Raw, Normal, CheckHost
<1>6. PortSoFar'
  BY <1>0, <1>1 DEF PortSoFar, PastLength
<1>7. GoodTarget'
  BY <1>0, <1>1 DEF GoodTarget, HostSoFar, PortSoFar, Normal, PastLength, CheckHost
<1>8. by = "requests" /\ target # NoTarget => host \notin policy.denied /\ target' = target
  BY <1>0, <1>1, Order DEF SeamReads, Normal, GoodTarget
<1>9. SeamReads'
  BY <1>0, <1>1, <1>8, Order DEF SeamReads, Raw, Normal
<1>10. SeamsAgree'
  BY <1>0, <1>1, <1>8, Order DEF SeamsAgree, SeamReads
<1> QED  BY <1>3, <1>4, <1>5, <1>6, <1>7, <1>9, <1>10 DEF IInv

-----------------------------------------------------------------------------
(* Construction and the callers.                                           *)

LEMMA ConfigureKeeps ==
    ASSUME IInv, Configure
    PROVE  IInv'
<1>0. Typed /\ Lengths /\ GoodTarget /\ SeamReads
  BY DEF IInv
<1>1. /\ stage = "unconfigured" /\ stage' \in {"idle", "ValueError"}
      /\ listed' \in AllowLists
      /\ \/ UNCHANGED hosts
         \/ hosts' = {AsHostPattern(entry) : entry \in {Rstrip(text) : text \in listed'}}
      /\ UNCHANGED <<policy, by, url, origin, read, host, port, target, told>>
  BY DEF Configure
<1>2. listed' \subseteq Text
  BY <1>1, UrlAssumption
<1>3. hosts' \subseteq Text
  <2>1. hosts \subseteq Text  BY <1>0 DEF Typed, TypeOK
  <2>2. \A text \in Text : AsHostPattern(Rstrip(text)) \in Text  BY PatternIsText
  <2> QED  BY <1>1, <1>2, <2>1, <2>2
<1>4. Typed'
  <2>1. TypeOK'  BY <1>0, <1>1, <1>2, <1>3 DEF Typed, TypeOK, Stage
  <2> QED  BY <1>0, <1>1, <2>1, Order DEF Typed
<1>5. Lengths'
  BY <1>0, <1>1 DEF Lengths, RefusedUnread, PastLength, Hostpart
<1>6. HostSoFar' /\ PortSoFar'
  BY <1>1 DEF HostSoFar, PortSoFar, Raw, Normal, PastLength
<1>7. GoodTarget' /\ SeamReads' /\ SeamsAgree'
  BY <1>0, <1>1, Order DEF GoodTarget, SeamReads, SeamsAgree
<1> QED  BY <1>4, <1>5, <1>6, <1>7 DEF IInv

LEMMA NothingTyped ==
    /\ NoOrigin \in [host : Text, port : Int]
    /\ NoTarget \in [host : Text, port : Int, scheme : Scheme] /\ << >> \in Text
<1>1. << >> \in Text  BY DEF Text
<1>2. "" \in Scheme  BY DEF Scheme
<1>3. 0 \in Int  OBVIOUS
<1> QED  BY <1>1, <1>2, <1>3, Zenon DEF NoOrigin, NoTarget

\* Nothing has been read when check_url begins.
LEMMA JudgeKeeps ==
    ASSUME NEW who \in {"client", "requests"}, NEW asked \in UrlRecord, Judge(who, asked),
           Typed, GoodTarget, stage # "unconfigured", target' \in {target, NoTarget},
           origin' \in [host : Text, port : Int],
           who = "requests" /\ target' # NoTarget =>
               asked = OriginUrl(target'.scheme, [host |-> target'.host, port |-> target'.port])
    PROVE  IInv'
<1>1. /\ by' = who /\ url' = asked /\ stage' = "length" /\ read' = {}
      /\ host' = << >> /\ port' = 0 /\ UNCHANGED <<policy, listed, hosts>>
  BY DEF Judge, configured
<1>2. Typed'
  <2>1. target' \in [host : Text, port : Int, scheme : Scheme]
    BY NothingTyped DEF Typed, TypeOK
  <2>2. host' \in Text  BY <1>1 DEF Text
  <2>3. TypeOK'  BY <1>1, <2>1, <2>2, Order DEF Typed, TypeOK, Stage
  <2> QED  BY <1>1, <2>3 DEF Typed
<1>3. Lengths'
  BY <1>1 DEF Lengths, RefusedUnread, PastLength
<1>4. HostSoFar' /\ PortSoFar'
  BY <1>1 DEF HostSoFar, PortSoFar, Raw, Normal, PastLength
<1>5. GoodTarget'
  BY <1>1 DEF GoodTarget, CheckHost
<1>6. SeamReads' /\ SeamsAgree'
  BY <1>1 DEF SeamReads, SeamsAgree, Raw, Normal
<1> QED  BY <1>2, <1>3, <1>4, <1>5, <1>6 DEF IInv

LEMMA CheckUrlKeeps ==
    ASSUME IInv, CheckUrl
    PROVE  IInv'
<1>1. PICK asked \in Url : Judge("client", asked)
  BY DEF CheckUrl
<1>2. stage # "unconfigured" /\ target' = NoTarget /\ origin' = NoOrigin
  BY DEF CheckUrl
<1>3. origin' \in [host : Text, port : Int]
  BY <1>2 DEF NoOrigin, Text
<1>4. asked \in UrlRecord
  BY UrlFields
<1> QED  BY <1>1, <1>2, <1>3, <1>4, JudgeKeeps DEF IInv

\* What a library hands over is the target, or nothing is the target.
LEMMA HandedIs ==
    ASSUME NEW opened, Handed(opened), Typed,
           opened \in Origin \cup {[host |-> target.host, port |-> target.port]}
    PROVE  /\ opened \in [host : Text, port : Int]
           /\ stage \notin DOMAIN After \cup {"unconfigured"}
           /\ \/ /\ stage = "permitted" /\ by = "client" /\ target' = target
                 /\ opened = [host |-> target.host, port |-> target.port]
              \/ stage = "idle" /\ target' = NoTarget
<1>1. \A o \in Origin : o \in [host : Text, port : Int]
  <2>1. \A text \in Seq(Ascii) : text \in Text  BY DEF Text
  <2> QED  BY <2>1, UrlAssumption
<1>2. [host |-> target.host, port |-> target.port] \in [host : Text, port : Int]
  BY DEF Typed, TypeOK
<1> QED  BY <1>1, <1>2, Order DEF Handed

LEMMA PinnedSocketKeeps ==
    ASSUME IInv, PinnedSocket
    PROVE  IInv'
<1>0. Typed /\ GoodTarget
  BY DEF IInv
<1>1. PICK opened \in Origin \cup {[host |-> target.host, port |-> target.port]},
           scheme \in {"http", "https"} :
          /\ stage = "permitted" => scheme = target.scheme
          /\ Handed(opened)
          /\ origin' = opened
          /\ Judge("requests", OriginUrl(scheme, opened))
  BY DEF PinnedSocket
<1>2. /\ opened \in [host : Text, port : Int]
      /\ stage \notin DOMAIN After \cup {"unconfigured"}
      /\ \/ /\ stage = "permitted" /\ by = "client" /\ target' = target
            /\ opened = [host |-> target.host, port |-> target.port]
         \/ stage = "idle" /\ target' = NoTarget
  BY <1>0, <1>1, HandedIs
<1>3. OriginUrl(scheme, opened) \in UrlRecord
  <2>1. Frame + Len(opened.host) \in Nat
    <3>1. Frame \in Nat /\ Len(opened.host) \in Nat  BY <1>2, LengthAssumption DEF Text
    <3> QED  BY <3>1
  <2>2. Has(opened.host, ":") \in BOOLEAN  BY DEF Has
  <2> QED  BY <1>2, <2>1, <2>2 DEF OriginUrl, UrlRecord, Scheme
<1>4. target' # NoTarget =>
          OriginUrl(scheme, opened)
          = OriginUrl(target'.scheme, [host |-> target'.host, port |-> target'.port])
  BY <1>1, <1>2
<1> QED  BY <1>0, <1>1, <1>2, <1>3, <1>4, JudgeKeeps

LEMMA CheckOriginKeeps ==
    ASSUME IInv, CheckOrigin
    PROVE  IInv'
<1>0. Typed /\ Lengths /\ GoodTarget /\ SeamReads
  BY DEF IInv
<1>1. PICK opened \in Origin \cup {[host |-> target.host, port |-> target.port]} :
          /\ Handed(opened)
          /\ origin' = opened
          /\ host' = opened.host /\ port' = opened.port
          /\ stage' = IF opened.port \in policy.ports /\ CheckHost(opened.host)
                      THEN "lookup" ELSE "refused"
  BY DEF CheckOrigin
<1>2. by' = "httpx" /\ UNCHANGED <<policy, listed, hosts, url, read>>
  BY DEF CheckOrigin, configured
<1>3. /\ opened \in [host : Text, port : Int]
      /\ \/ /\ target' = target
            /\ opened = [host |-> target.host, port |-> target.port]
         \/ target' = NoTarget
  BY <1>0, <1>1, HandedIs
<1>4. stage' \in {"lookup", "refused"}
  BY <1>1
<1>5. Typed'
  <2>1. target' \in [host : Text, port : Int, scheme : Scheme]
    BY <1>0, <1>3, NothingTyped DEF Typed, TypeOK
  <2>2. TypeOK'  BY <1>0, <1>1, <1>2, <1>3, <1>4, <2>1 DEF Typed, TypeOK, Stage
  <2> QED  BY <1>0, <1>2, <1>4, <2>2, Order DEF Typed
<1>6. Lengths'
  BY <1>0, <1>2, <1>4 DEF Lengths, RefusedUnread, PastLength, Hostpart
<1>7. HostSoFar' /\ PortSoFar'
  BY <1>4 DEF HostSoFar, PortSoFar, Raw, Normal, PastLength
<1>8. GoodTarget'
  BY <1>0, <1>2, <1>3, <1>4 DEF GoodTarget, CheckHost
<1>9. SeamReads'
  BY <1>2, <1>4, Order DEF SeamReads
<1>10. SeamsAgree'
  <2>1. target' # NoTarget => opened.port \in policy.ports /\ CheckHost(opened.host)
    <3> SUFFICES ASSUME target' # NoTarget
                 PROVE  opened.port \in policy.ports /\ CheckHost(opened.host)
      OBVIOUS
    <3>1. target # NoTarget /\ opened.host = target.host /\ opened.port = target.port
      BY <1>3
    <3>2. target.port \in policy.ports /\ CheckHost(target.host)
      BY <3>1, <1>0 DEF GoodTarget
    <3> QED  BY <3>1, <3>2
  <2>2. target' # NoTarget => stage' = "lookup"
    BY <2>1, <1>1
  <2> QED  BY <2>2 DEF SeamsAgree
<1> QED  BY <1>5, <1>6, <1>7, <1>8, <1>9, <1>10 DEF IInv

-----------------------------------------------------------------------------
(* The theorems.                                                           *)

\* The invariant holds initially and is kept by every step.
THEOREM Invariant == Spec => []IInv
<1>1. Init => IInv
  <2> SUFFICES ASSUME Init
               PROVE  IInv
    OBVIOUS
  <2>1. Typed
    BY NothingTyped, SettingsFields, Order DEF Init, Typed, TypeOK, Stage
  <2>2. Lengths  BY DEF Init, Lengths, RefusedUnread, PastLength
  <2>3. HostSoFar /\ PortSoFar
    BY DEF Init, HostSoFar, PortSoFar, Raw, Normal, PastLength
  <2>4. GoodTarget /\ SeamReads /\ SeamsAgree
    BY Order DEF Init, GoodTarget, SeamReads, SeamsAgree
  <2> QED  BY <2>1, <2>2, <2>3, <2>4 DEF IInv
<1>2. IInv /\ [Next]_vars => IInv'
  <2> SUFFICES ASSUME IInv, [Next]_vars
               PROVE  IInv'
    OBVIOUS
  <2>1. CASE Configure  BY <2>1, ConfigureKeeps
  <2>2. CASE CheckUrl  BY <2>2, CheckUrlKeeps
  <2>3. CASE CheckUrlGoesOn
    BY <2>3, RejectOverlongKeeps, RejectControlCharactersKeeps, SplitKeeps,
       CheckSchemeKeeps, CheckUserinfoKeeps, HostPresentKeeps, RejectOverlongHostKeeps,
       NormaliseHostKeeps, ShapeKeeps, CheckPortKeeps, CheckHostIsListedKeeps,
       CheckLiteralKeeps DEF CheckUrlGoesOn
  <2>4. CASE PinnedSocket  BY <2>4, PinnedSocketKeeps
  <2>5. CASE Tunnelled
    <3>0. Typed /\ Lengths /\ GoodTarget /\ SeamReads  BY DEF IInv
    <3>1. /\ stage = "permitted" /\ by = "client" /\ stage' = "ProxyUnsupportedError"
          /\ UNCHANGED <<policy, listed, hosts, by, url, origin, read, host, port, target>>
      BY <2>5 DEF Tunnelled, configured
    <3>2. Typed'
      <4>1. TypeOK'  BY <3>0, <3>1 DEF Typed, TypeOK, Stage
      <4> QED  BY <3>0, <3>1, <4>1, Order DEF Typed
    <3>3. Lengths'  BY <3>0, <3>1 DEF Lengths, RefusedUnread, PastLength, Hostpart
    <3>4. HostSoFar' /\ PortSoFar'
      BY <3>1 DEF HostSoFar, PortSoFar, Raw, Normal, PastLength
    <3>5. GoodTarget' /\ SeamReads' /\ SeamsAgree'
      BY <3>0, <3>1, Order DEF GoodTarget, SeamReads, SeamsAgree, CheckHost
    <3> QED  BY <3>2, <3>3, <3>4, <3>5 DEF IInv
  <2>6. CASE CheckOrigin  BY <2>6, CheckOriginKeeps
  <2>7. CASE UNCHANGED vars
    <3>0. Typed /\ Lengths /\ HostSoFar /\ PortSoFar /\ GoodTarget /\ SeamReads /\ SeamsAgree
      BY DEF IInv
    <3>1. UNCHANGED <<policy, listed, hosts, by, url, origin, stage, read, host, port, target>>
      BY <2>7 DEF vars, configured
    <3>2. Typed'
      <4>1. TypeOK'  BY <3>0, <3>1 DEF Typed, TypeOK
      <4> QED  BY <3>0, <3>1, <4>1 DEF Typed
    <3>3. Lengths' /\ Hostpart' = Hostpart
      BY <3>0, <3>1 DEF Lengths, RefusedUnread, Hostpart
    <3>4. HostSoFar' /\ PortSoFar'
      BY <3>0, <3>1, <3>3 DEF HostSoFar, PortSoFar, Splits, CheckHost
    <3>5. GoodTarget' /\ SeamReads' /\ SeamsAgree'
      BY <3>0, <3>1 DEF GoodTarget, SeamReads, SeamsAgree, CheckHost
    <3> QED  BY <3>2, <3>3, <3>4, <3>5 DEF IInv
  <2> QED  BY <2>1, <2>2, <2>3, <2>4, <2>5, <2>6, <2>7 DEF Next, Unconstructed
<1> QED  BY <1>1, <1>2, PTL DEF Spec

\* Every variable keeps its type: patterns, hosts, ports and the origins handed around.
THEOREM TypeCorrect == Spec => []TypeOK
<1>1. IInv => TypeOK  BY DEF IInv, Typed
<1> QED  BY <1>1, Invariant, PTL

\* Texts over a limit are never read, for every limit and every length.
THEOREM OverlongUnread == Spec => []RefusedUnread
<1>1. IInv => RefusedUnread  BY DEF IInv, Lengths
<1> QED  BY <1>1, Invariant, PTL

\* A permitted host of digits and dots, or with a colon, is an address the policy permits,
\* in whatever characters and at whatever length it was written.
THEOREM NumericLiterals == Spec => []DigitsAreAddresses
<1>1. IInv => DigitsAreAddresses
  <2> SUFFICES ASSUME IInv, stage = "permitted",
                      ToSet(host) \subseteq {"1", "."} \/ ":" \in ToSet(host)
               PROVE  host \in Literal \ policy.denied
    BY DEF DigitsAreAddresses
  <2>1. WellShaped(host) /\ host \notin policy.denied
    BY DEF IInv, HostSoFar, Normal
  <2> QED  BY <2>1 DEF WellShaped, NumericShaped, Hostname, Has
<1> QED  BY <1>1, Invariant, PTL

\* check_url's own result passes both seams, but for the two lengths that the requests
\* seam measures anew: nothing else of a second judgement differs from the first.
THEOREM SeamsConfirm == Spec => []SeamsAgree
<1>1. IInv => SeamsAgree  BY DEF IInv
<1> QED  BY <1>1, Invariant, PTL

-----------------------------------------------------------------------------
(* Labels.                                                                 *)

\* The equation that Labels is defined by, for the first m characters.
LabelsLike(f, text, m) ==
    f = [n \in 0..m |-> IF n = 0 THEN << << >> >> ELSE NextLabels(f[n - 1], text[n])]

\* The labels before each place of a text.
LabelsTo(text) == CHOOSE f : LabelsLike(f, text, Len(text))

\* There is such a function, whatever the text: of the lengths for which there were none,
\* one would be the least.
LEMMA LabelsExist ==
    ASSUME NEW text, NEW m \in Nat
    PROVE  \E f : LabelsLike(f, text, m)
<1> DEFINE T == {n \in 0..m : ~\E f : LabelsLike(f, text, n)}
<1>1. SUFFICES ASSUME T # {}
               PROVE  FALSE
  OBVIOUS
<1>2. PICK n \in T : \A k \in T : n <= k
  <2>1. T \subseteq Nat
    OBVIOUS
  <2> HIDE DEF T
  <2> QED  BY <1>1, <2>1, LeastNatural
<1>3. n # 0
  <2>1. LabelsLike([k \in 0..0 |-> << << >> >>], text, 0)
    BY DEF LabelsLike
  <2> QED  BY <1>2, <2>1
<1>4. n \in Nat /\ n - 1 \in Nat /\ n - 1 \in 0..m /\ n - 1 < n
  BY <1>2, <1>3
<1>5. PICK f : LabelsLike(f, text, n - 1)
  BY <1>2, <1>4
<1> DEFINE g == [k \in 0..n |-> IF k = n THEN NextLabels(f[n - 1], text[n]) ELSE f[k]]
<1>6. \A k \in 0..(n - 1) : g[k] = f[k]
  BY <1>4
<1>7. ASSUME NEW k \in 0..n
      PROVE  g[k] = IF k = 0 THEN << << >> >> ELSE NextLabels(g[k - 1], text[k])
  <2>1. k # 0 => g[k - 1] = f[k - 1]
    BY <1>4, <1>6
  <2>2. CASE k = n
    BY <1>3, <1>4, <2>1, <2>2
  <2>3. CASE k \in 0..(n - 1)
    <3>1. f[k] = IF k = 0 THEN << << >> >> ELSE NextLabels(f[k - 1], text[k])
      BY <1>5, <2>3 DEF LabelsLike
    <3> HIDE DEF g
    <3> QED  BY <1>6, <2>1, <2>3, <3>1
  <2> QED  BY <1>4, <2>2, <2>3
<1>8. g = [k \in 0..n |-> g[k]]
  OBVIOUS
<1> HIDE DEF g
<1>9. LabelsLike(g, text, n)
  BY <1>7, <1>8 DEF LabelsLike
<1> QED  BY <1>2, <1>9

\* The equation, a character at a time.
LEMMA LabelsToIs ==
    ASSUME NEW text, Len(text) \in Nat
    PROVE  /\ Labels(text) = LabelsTo(text)[Len(text)]
           /\ LabelsTo(text)[0] = << << >> >>
           /\ \A n \in 1..Len(text) :
                 LabelsTo(text)[n] = NextLabels(LabelsTo(text)[n - 1], text[n])
<1>1. LabelsLike(LabelsTo(text), text, Len(text))
  BY LabelsExist DEF LabelsTo
<1>2. Labels(text) = LabelsTo(text)[Len(text)]
  BY DEF Labels, LabelsTo, LabelsLike
<1> HIDE DEF LabelsTo
<1> QED  BY <1>1, <1>2 DEF LabelsLike

\* Lists of labels over some characters; there is always one, if only an empty one.
ListsOver(S) == Seq(Seq(S)) \ {<< >>}

LEMMA NextLabelsTyped ==
    ASSUME NEW S, NEW labels \in ListsOver(S), NEW c \in S
    PROVE  /\ NextLabels(labels, c) \in ListsOver(S)
           /\ Len(labels) \in Nat /\ Len(labels) > 0
           /\ c = "." => /\ Len(NextLabels(labels, c)) = Len(labels) + 1
                         /\ NextLabels(labels, c)[Len(labels) + 1] = << >>
           /\ c # "." => /\ Len(NextLabels(labels, c)) = Len(labels)
                         /\ NextLabels(labels, c)[Len(labels)] = Append(labels[Len(labels)], c)
           /\ NextLabels(labels, c) # << << >> >>
<1> DEFINE k == Len(labels)
           next == NextLabels(labels, c)
           longer == Append(labels[k], c)
<1>1. labels \in Seq(Seq(S)) /\ k \in Nat /\ k > 0 /\ k \in 1..k
  BY DEF ListsOver
<1>2. << >> \in Seq(S) /\ labels[k] \in Seq(S)
  BY <1>1
<1>3. longer \in Seq(S) /\ longer # << >>
  <2>1. longer \in Seq(S) /\ Len(longer) > 0
    BY <1>2, AppendProperties, LenProperties
  <2>2. Len(<< >>) = 0
    OBVIOUS
  <2> QED  BY <2>1, <2>2
<1>4. CASE c = "."
  <2>1. next = Append(labels, << >>)
    BY <1>4 DEF NextLabels
  <2>2. /\ next \in Seq(Seq(S)) /\ Len(next) = k + 1 /\ next[k + 1] = << >>
    BY <1>1, <1>2, <2>1, AppendProperties
  <2> HIDE DEF next
  <2>3. Len(<< << >> >>) = 1 /\ Len(<< >>) = 0 /\ k + 1 # 1 /\ k + 1 # 0
    BY <1>1
  <2>4. next # << >> /\ next # << << >> >>
    BY <2>2, <2>3
  <2> QED  BY <1>1, <1>4, <2>2, <2>4 DEF ListsOver, next
<1>5. CASE c # "."
  <2>1. next = [labels EXCEPT ![k] = longer]
    BY <1>5 DEF NextLabels
  <2> HIDE DEF longer
  <2>2. next \in Seq(Seq(S)) /\ Len(next) = k /\ next[k] = longer
    BY <1>1, <1>3, <2>1, ExceptSeq
  <2> HIDE DEF next
  <2>3. next # << >> /\ next # << << >> >>
    BY <1>1, <1>3, <2>2
  <2> QED  BY <1>1, <1>5, <2>2, <2>3 DEF ListsOver, next, longer
<1> QED  BY <1>4, <1>5

LEMMA LabelsTyped ==
    ASSUME NEW S, NEW text \in Seq(S)
    PROVE  \A n \in 0..Len(text) : /\ LabelsTo(text)[n] \in ListsOver(S)
                                   /\ n > 0 => LabelsTo(text)[n] # << << >> >>
<1> DEFINE f == LabelsTo(text)
           Good(n) == f[n] \in ListsOver(S) /\ (n > 0 => f[n] # << << >> >>)
           T == {n \in 0..Len(text) : ~Good(n)}
<1>1. SUFFICES ASSUME T # {}
               PROVE  FALSE
  OBVIOUS
<1>2. Len(text) \in Nat /\ T \subseteq Nat /\ \A n \in 1..Len(text) : text[n] \in S
  BY ElementOfSeq
<1>3. PICK n \in T : \A k \in T : n <= k
  <2> HIDE DEF T
  <2> QED  BY <1>1, <1>2, LeastNatural
<1>4. f[0] = << << >> >> /\ \A k \in 1..Len(text) : f[k] = NextLabels(f[k - 1], text[k])
  BY <1>2, LabelsToIs
<1> HIDE DEF f
<1>5. n # 0
  <2>1. << >> \in Seq(S) /\ << << >> >> # << >>
    OBVIOUS
  <2>2. << << >> >> \in Seq(Seq(S))
    BY <2>1
  <2>3. f[0] \in ListsOver(S)
    BY <1>4, <2>1, <2>2 DEF ListsOver
  <2>4. Good(0)
    BY <2>3
  <2>5. ~Good(n)
    BY <1>3
  <2> HIDE DEF Good
  <2> QED  BY <2>4, <2>5
<1>6. n \in 1..Len(text) /\ n - 1 \in 0..Len(text) /\ ~(n <= n - 1)
  BY <1>2, <1>3, <1>5
<1>7. f[n - 1] \in ListsOver(S)
  BY <1>3, <1>6
<1>8. Good(n)
  <2>1. f[n] = NextLabels(f[n - 1], text[n]) /\ text[n] \in S
    BY <1>2, <1>4, <1>6
  <2>2. f[n] \in ListsOver(S) /\ f[n] # << << >> >>
    BY <1>7, <2>1, NextLabelsTyped
  <2> QED  BY <2>2
<1> QED  BY <1>3, <1>8

LEMMA LabelsAreLists ==
    ASSUME NEW S, NEW text \in Seq(S)
    PROVE  Labels(text) \in ListsOver(S)
<1>1. Len(text) \in Nat /\ Len(text) \in 0..Len(text)
  OBVIOUS
<1> QED  BY <1>1, LabelsTyped, LabelsToIs

\* Labels in front stay as they are.
LEMMA NextLabelsBehind ==
    ASSUME NEW S, NEW front \in ListsOver(S), NEW labels \in ListsOver(S), NEW c \in S
    PROVE  NextLabels(front \o labels, c) = front \o NextLabels(labels, c)
<1> DEFINE k == Len(labels)
           m == Len(front)
           all == front \o labels
           next == NextLabels(labels, c)
           longer == Append(labels[k], c)
<1>1. /\ labels \in Seq(Seq(S)) /\ k \in Nat /\ k > 0 /\ k \in 1..k
      /\ front \in Seq(Seq(S)) /\ m \in Nat
  BY DEF ListsOver
<1>2. /\ all \in Seq(Seq(S)) /\ Len(all) = m + k
      /\ \A i \in 1..(m + k) : all[i] = IF i <= m THEN front[i] ELSE labels[i - m]
  BY <1>1, ConcatProperties
<1>3. all[m + k] = labels[k] /\ m + k \in 1..(m + k) /\ (m + k) - m = k
  BY <1>1, <1>2
<1>4. << >> \in Seq(S) /\ labels[k] \in Seq(S) /\ longer \in Seq(S)
  BY <1>1, AppendProperties
<1> HIDE DEF k, m, all, longer
<1>5. CASE c = "."
  <2>1. next = Append(labels, << >>) /\ NextLabels(all, c) = Append(all, << >>)
    BY <1>5 DEF NextLabels
  <2> HIDE DEF next
  <2>2. next = labels \o << << >> >> /\ NextLabels(all, c) = all \o << << >> >>
    BY <1>1, <1>2, <1>4, <2>1, AppendIsConcat
  <2>3. << << >> >> \in Seq(Seq(S))
    BY <1>4
  <2>4. (front \o labels) \o << << >> >> = front \o (labels \o << << >> >>)
    <3>1. \A a, b, d \in Seq(Seq(S)) : (a \o b) \o d = a \o (b \o d)
      BY ConcatAssociative
    <3> QED  BY <1>1, <2>3, <3>1, Zenon
  <2>5. NextLabels(all, c) = (front \o labels) \o << << >> >>
    BY <2>2 DEF all
  <2> QED  BY <2>2, <2>4, <2>5 DEF all, next
<1>6. CASE c # "."
  <2>1. next = [labels EXCEPT ![k] = longer] /\ NextLabels(all, c) = [all EXCEPT ![m + k] = longer]
    BY <1>2, <1>3, <1>6 DEF NextLabels, longer, k
  <2> HIDE DEF next
  <2>2. /\ next \in Seq(Seq(S)) /\ Len(next) = k
        /\ \A i \in 1..k : next[i] = IF i = k THEN longer ELSE labels[i]
    <3>1. Len(labels) = k
      BY DEF k
    <3> QED  BY <1>1, <1>4, <2>1, <3>1, ExceptSeq
  <2>3. /\ NextLabels(all, c) \in Seq(Seq(S)) /\ Len(NextLabels(all, c)) = m + k
        /\ \A i \in 1..(m + k) :
              NextLabels(all, c)[i] = IF i = m + k THEN longer ELSE all[i]
    BY <1>2, <1>3, <1>4, <2>1, ExceptSeq
  <2>4. /\ front \o next \in Seq(Seq(S)) /\ Len(front \o next) = m + k
        /\ \A i \in 1..(m + k) :
              (front \o next)[i] = IF i <= m THEN front[i] ELSE next[i - m]
    BY <1>1, <2>2, ConcatProperties DEF m
  <2>5. \A i \in 1..(m + k) : NextLabels(all, c)[i] = (front \o next)[i]
    <3> SUFFICES ASSUME NEW i \in 1..(m + k)
                 PROVE  NextLabels(all, c)[i] = (front \o next)[i]
      OBVIOUS
    <3>1. CASE i <= m
      <4>1. i # m + k
        BY <1>1, <3>1
      <4>2. NextLabels(all, c)[i] = all[i] /\ all[i] = front[i]
        BY <1>2, <2>3, <3>1, <4>1
      <4>3. (front \o next)[i] = front[i]
        BY <2>4, <3>1
      <4> QED  BY <4>2, <4>3
    <3>2. CASE i > m
      <4>1. PICK x \in 1..k : x = i - m
        BY <1>1, <3>2
      <4>2. (i = m + k <=> x = k) /\ ~(i <= m)
        BY <1>1, <3>2, <4>1
      <4>3. NextLabels(all, c)[i] = IF x = k THEN longer ELSE labels[x]
        BY <1>2, <2>3, <4>1, <4>2
      <4>4. (front \o next)[i] = next[x]
        BY <2>4, <4>1, <4>2
      <4>5. next[x] = IF x = k THEN longer ELSE labels[x]
        BY <2>2, <4>1
      <4> QED  BY <4>3, <4>4, <4>5
    <3>3. i <= m \/ i > m
      BY <1>1
    <3> QED  BY <3>1, <3>2, <3>3
  <2>6. NextLabels(all, c) = front \o next
    BY <2>3, <2>4, <2>5, SeqEqual
  <2> QED  BY <2>6 DEF all, next
<1> QED  BY <1>5, <1>6

\* The labels before a place and the character there can be told from the labels behind it.
LEMMA NextLabelsInjective ==
    ASSUME NEW S, NEW a \in ListsOver(S), NEW b \in ListsOver(S), NEW c \in S, NEW d \in S,
           NextLabels(a, c) = NextLabels(b, d)
    PROVE  a = b /\ c = d
<1>1. PICK next : next = NextLabels(a, c) /\ next = NextLabels(b, d)
  OBVIOUS
<1>2. PICK i \in Nat, j \in Nat : i = Len(a) /\ i > 0 /\ j = Len(b) /\ j > 0
  BY DEF ListsOver
<1>3. a \in Seq(Seq(S)) /\ b \in Seq(Seq(S)) /\ << >> \in Seq(S)
  BY DEF ListsOver
<1>4. /\ c = "." => Len(next) = i + 1 /\ next[i + 1] = << >>
      /\ c # "." => Len(next) = i /\ next[i] = Append(a[i], c)
  <2>1. /\ c = "." => Len(NextLabels(a, c)) = Len(a) + 1 /\ NextLabels(a, c)[Len(a) + 1] = << >>
        /\ c # "." => /\ Len(NextLabels(a, c)) = Len(a)
                      /\ NextLabels(a, c)[Len(a)] = Append(a[Len(a)], c)
    BY NextLabelsTyped
  <2> QED  BY <1>1, <1>2, <2>1
<1>5. /\ d = "." => Len(next) = j + 1 /\ next[j + 1] = << >>
      /\ d # "." => Len(next) = j /\ next[j] = Append(b[j], d)
  <2>1. /\ d = "." => Len(NextLabels(b, d)) = Len(b) + 1 /\ NextLabels(b, d)[Len(b) + 1] = << >>
        /\ d # "." => /\ Len(NextLabels(b, d)) = Len(b)
                      /\ NextLabels(b, d)[Len(b)] = Append(b[Len(b)], d)
    BY NextLabelsTyped
  <2> QED  BY <1>1, <1>2, <2>1
<1>6. /\ a[i] \in Seq(S) /\ b[j] \in Seq(S)
      /\ Append(a[i], c) # << >> /\ Append(b[j], d) # << >>
  <2>1. a[i] \in Seq(S) /\ b[j] \in Seq(S)
    BY <1>2, <1>3, ElementOfSeq
  <2> QED  BY <2>1, AppendProperties
<1>7. CASE c = "." /\ d = "."
  <2>1. Append(a, << >>) = Append(b, << >>)
    BY <1>1, <1>7 DEF NextLabels
  <2>2. a = b
    BY <1>3, <2>1, AppendInjective
  <2> QED  BY <1>7, <2>2
<1>8. CASE c # "." /\ d # "."
  <2>1. j = i /\ Append(a[i], c) = Append(b[i], d)
    BY <1>4, <1>5, <1>8
  <2>2. a[i] = b[i] /\ c = d
    <3>1. a[i] \in Seq(S) /\ b[i] \in Seq(S)
      BY <1>6, <2>1
    <3> QED  BY <2>1, <3>1, AppendInjective
  <2> DEFINE one == Append(a[i], c)
             other == Append(b[i], d)
  <2>3. next = [a EXCEPT ![i] = one] /\ next = [b EXCEPT ![i] = other]
    BY <1>1, <1>2, <1>8, <2>1 DEF NextLabels
  <2>4. /\ one \in Seq(S) /\ other \in Seq(S)
        /\ i \in 1..Len(a) /\ i \in 1..Len(b)
    BY <1>2, <1>6, <2>1, AppendProperties
  <2> HIDE DEF one, other
  <2>5. \A k \in 1..Len(a) : next[k] = IF k = i THEN one ELSE a[k]
    BY <1>3, <2>3, <2>4, ExceptSeq
  <2>6. \A k \in 1..Len(b) : next[k] = IF k = i THEN other ELSE b[k]
    BY <1>3, <2>3, <2>4, ExceptSeq
  <2>7. Len(a) = Len(b) /\ \A k \in 1..Len(a) : a[k] = b[k]
    BY <1>2, <2>1, <2>2, <2>5, <2>6
  <2>8. a = b
    BY <1>3, <2>7, SeqEqual
  <2> QED  BY <2>2, <2>8
<1>9. ~(c = "." /\ d # ".") /\ ~(c # "." /\ d = ".")
  BY <1>2, <1>4, <1>5, <1>6
<1> QED  BY <1>7, <1>8, <1>9

\* Texts of the same labels are the same text.
LEMMA LabelsInjective ==
    ASSUME NEW S, NEW s \in Seq(S), NEW t \in Seq(S), Labels(s) = Labels(t)
    PROVE  s = t
<1> DEFINE f == LabelsTo(s)
           g == LabelsTo(t)
           Alike(j, k) == j = k /\ \A i \in 1..j : s[i] = t[i]
           T == {j \in 0..Len(s) : \E k \in 0..Len(t) : f[j] = g[k] /\ ~Alike(j, k)}
<1>1. Len(s) \in Nat /\ Len(t) \in Nat /\ T \subseteq Nat
  OBVIOUS
<1>2. /\ f[0] = << << >> >> /\ \A n \in 1..Len(s) : f[n] = NextLabels(f[n - 1], s[n])
      /\ g[0] = << << >> >> /\ \A n \in 1..Len(t) : g[n] = NextLabels(g[n - 1], t[n])
  BY <1>1, LabelsToIs
<1>3. /\ \A n \in 0..Len(s) : f[n] \in ListsOver(S) /\ (n > 0 => f[n] # << << >> >>)
      /\ \A n \in 0..Len(t) : g[n] \in ListsOver(S) /\ (n > 0 => g[n] # << << >> >>)
  BY LabelsTyped
<1>4. f[Len(s)] = g[Len(t)]
  BY <1>1, LabelsToIs
<1> HIDE DEF f, g
<1>5. T = {}
  <2>1. SUFFICES ASSUME T # {}
                 PROVE  FALSE
    OBVIOUS
  <2>2. PICK j \in T : \A i \in T : j <= i
    <3> HIDE DEF T
    <3> QED  BY <1>1, <2>1, LeastNatural
  <2>3. PICK k \in 0..Len(t) : f[j] = g[k] /\ ~Alike(j, k)
    BY <2>2
  <2>4. j \in 0..Len(s)
    BY <2>2
  <2>5. j # 0
    <3>1. SUFFICES ASSUME j = 0
                   PROVE  FALSE
      OBVIOUS
    <3>2. k = 0
      BY <1>1, <1>2, <1>3, <2>3, <3>1
    <3>3. Alike(j, k)
      BY <3>1, <3>2
    <3> QED  BY <2>3, <3>3
  <2>6. k # 0
    BY <1>1, <1>2, <1>3, <2>3, <2>4, <2>5
  <2>7. /\ j \in 1..Len(s) /\ k \in 1..Len(t) /\ j - 1 \in 0..Len(s) /\ k - 1 \in 0..Len(t)
        /\ ~(j <= j - 1) /\ (j - 1 = k - 1 => j = k)
        /\ \A i \in 1..j : i \in 1..(j - 1) \/ i = j
    BY <1>1, <2>3, <2>4, <2>5, <2>6
  <2>8. f[j - 1] = g[k - 1] /\ s[j] = t[k]
    <3>1. NextLabels(f[j - 1], s[j]) = NextLabels(g[k - 1], t[k])
      BY <1>2, <2>3, <2>7
    <3>2. s[j] \in S /\ t[k] \in S
      BY <2>7, ElementOfSeq
    <3> QED  BY <1>3, <2>7, <3>1, <3>2, NextLabelsInjective
  <2>9. Alike(j - 1, k - 1)
    <3> HIDE DEF Alike
    <3> QED  BY <2>2, <2>7, <2>8
  <2>10. Alike(j, k)
    BY <2>7, <2>8, <2>9
  <2> QED  BY <2>3, <2>10
<1>6. Alike(Len(s), Len(t))
  <2>1. Len(s) \in 0..Len(s) /\ Len(t) \in 0..Len(t)
    BY <1>1
  <2> HIDE DEF Alike
  <2> QED  BY <1>4, <1>5, <2>1
<1> QED  BY <1>6, SeqEqual

\* Behind a dot, labels begin anew.
LEMMA LabelsBehindDot ==
    ASSUME NEW S, NEW text \in Seq(S), NEW i \in 1..Len(text), text[i] = "."
    PROVE  Labels(text) = LabelsTo(text)[i - 1] \o Labels(SubSeq(text, i + 1, Len(text)))
<1> DEFINE rest == SubSeq(text, i + 1, Len(text))
           f == LabelsTo(text)
           g == LabelsTo(rest)
           T == {n \in 0..Len(rest) : f[i + n] # f[i - 1] \o g[n]}
<1>1. /\ Len(text) \in Nat /\ i \in Nat /\ i > 0 /\ i <= Len(text)
      /\ \A n \in 1..Len(text) : text[n] \in S
  BY ElementOfSeq
<1>2. /\ rest \in Seq(S) /\ Len(rest) = Len(text) - i
      /\ \A n \in 1..Len(rest) : rest[n] = text[i + n]
  <2>1. /\ rest \in Seq(S) /\ Len(rest) = IF i + 1 <= Len(text) THEN Len(text) - (i + 1) + 1 ELSE 0
        /\ \A n \in 1..(Len(text) - (i + 1) + 1) : rest[n] = text[(i + 1) + n - 1]
    BY <1>1, SubSeqProperties
  <2> HIDE DEF rest
  <2>2. Len(rest) = Len(text) - i /\ Len(text) - (i + 1) + 1 = Len(text) - i
    BY <1>1, <2>1
  <2>3. \A n \in 1..Len(rest) : (i + 1) + n - 1 = i + n
    BY <1>1, <2>2
  <2> QED  BY <2>1, <2>2, <2>3
<1>3. /\ \A n \in 1..Len(text) : f[n] = NextLabels(f[n - 1], text[n])
      /\ Labels(text) = f[Len(text)]
  BY <1>1, LabelsToIs
<1>4. /\ g[0] = << << >> >> /\ \A n \in 1..Len(rest) : g[n] = NextLabels(g[n - 1], rest[n])
      /\ Labels(rest) = g[Len(rest)]
  <2>1. Len(rest) \in Nat
    BY <1>2
  <2> QED  BY <2>1, LabelsToIs
<1>5. /\ \A n \in 0..Len(text) : f[n] \in ListsOver(S)
      /\ \A n \in 0..Len(rest) : g[n] \in ListsOver(S)
  BY <1>2, LabelsTyped
<1> HIDE DEF f, g, rest
<1>6. i - 1 \in 0..Len(text) /\ f[i - 1] \in ListsOver(S) /\ f[i - 1] \in Seq(Seq(S))
  <2>1. i - 1 \in 0..Len(text)
    BY <1>1
  <2> QED  BY <1>5, <2>1 DEF ListsOver
<1>9. \A labels \in ListsOver(S), c \in S :
         NextLabels(f[i - 1] \o labels, c) = f[i - 1] \o NextLabels(labels, c)
  <2>1. \A front, labels \in ListsOver(S), c \in S :
           NextLabels(front \o labels, c) = front \o NextLabels(labels, c)
    BY NextLabelsBehind
  <2> QED  BY <1>6, <2>1
<1>7. T = {}
  <2>1. SUFFICES ASSUME T # {}
                 PROVE  FALSE
    OBVIOUS
  <2>2. PICK n \in T : \A k \in T : n <= k
    <3>0. Len(rest) \in Nat
      BY <1>2
    <3>1. T \subseteq 0..Len(rest)
      BY Zenon
    <3> HIDE DEF T
    <3>2. T \subseteq Nat
      BY <3>0, <3>1
    <3> QED  BY <2>1, <3>2, LeastNatural
  <2>3. n \in 0..Len(rest) /\ f[i + n] # f[i - 1] \o g[n]
    BY <2>2
  <2>4. n # 0
    <3>1. f[i] = Append(f[i - 1], << >>)
      BY <1>3 DEF NextLabels
    <3>2. Append(f[i - 1], << >>) = f[i - 1] \o << << >> >>
      <4>1. << >> \in Seq(S)
        OBVIOUS
      <4> QED  BY <1>6, <4>1, AppendIsConcat
    <3>3. f[i + 0] = f[i - 1] \o g[0]
      <4>1. i + 0 = i
        BY <1>1
      <4> QED  BY <1>4, <3>1, <3>2, <4>1
    <3> QED  BY <2>3, <3>3
  <2>5. /\ n \in 1..Len(rest) /\ n - 1 \in 0..Len(rest) /\ ~(n <= n - 1)
        /\ i + n \in 1..Len(text) /\ (i + n) - 1 = i + (n - 1)
    BY <1>1, <1>2, <2>3, <2>4
  <2>6. f[i + (n - 1)] = f[i - 1] \o g[n - 1]
    BY <2>2, <2>5
  <2>7. f[i + n] = NextLabels(f[i - 1] \o g[n - 1], rest[n])
    BY <1>2, <1>3, <2>5, <2>6
  <2>8. rest[n] \in S /\ g[n - 1] \in ListsOver(S)
    BY <1>2, <1>5, <2>5, ElementOfSeq
  <2>9. f[i + n] = f[i - 1] \o NextLabels(g[n - 1], rest[n])
    <3>1. NextLabels(f[i - 1] \o g[n - 1], rest[n])
          = f[i - 1] \o NextLabels(g[n - 1], rest[n])
      BY <1>6, <1>9, <2>8
    <3> QED  BY <2>7, <3>1
  <2> QED  BY <1>4, <2>3, <2>5, <2>9
<1>8. Len(rest) \in 0..Len(rest) /\ i + Len(rest) = Len(text)
  BY <1>1, <1>2
<1> QED  BY <1>3, <1>4, <1>7, <1>8 DEF f, rest

\* There is a dot behind any number of labels but all of them.
LEMMA LabelsCut ==
    ASSUME NEW S, NEW text \in Seq(S), NEW m \in Nat, 0 < m, m < Len(Labels(text))
    PROVE  \E i \in 1..Len(text) : text[i] = "." /\ Len(LabelsTo(text)[i - 1]) = m
<1> DEFINE f == LabelsTo(text)
           T == {n \in 0..Len(text) : Len(f[n]) > m}
<1>1. Len(text) \in Nat /\ T \subseteq Nat /\ \A n \in 1..Len(text) : text[n] \in S
  BY ElementOfSeq
<1>2. /\ Labels(text) = f[Len(text)] /\ f[0] = << << >> >>
      /\ \A n \in 1..Len(text) : f[n] = NextLabels(f[n - 1], text[n])
  BY <1>1, LabelsToIs
<1>3. \A n \in 0..Len(text) : f[n] \in ListsOver(S) /\ Len(f[n]) \in Nat
  <2>1. \A n \in 0..Len(text) : f[n] \in ListsOver(S)
    BY LabelsTyped
  <2> HIDE DEF f
  <2> QED  BY <2>1 DEF ListsOver
<1> HIDE DEF f
<1>4. Len(text) \in T
  BY <1>1, <1>2
<1>5. PICK i \in T : \A k \in T : i <= k
  <2> HIDE DEF T
  <2> QED  BY <1>1, <1>4, LeastNatural
<1>6. i # 0
  <2>1. Len(<< << >> >>) = 1 /\ ~(1 > m)
    OBVIOUS
  <2>2. ~(Len(f[0]) > m)
    BY <1>2, <2>1
  <2>3. Len(f[i]) > m
    BY <1>5
  <2> QED  BY <2>2, <2>3
<1>7. i \in 1..Len(text) /\ i - 1 \in 0..Len(text) /\ ~(i <= i - 1)
  BY <1>1, <1>5, <1>6
<1>8. Len(f[i]) > m /\ ~(Len(f[i - 1]) > m)
  BY <1>5, <1>7
<1>9. /\ text[i] = "." => Len(f[i]) = Len(f[i - 1]) + 1
      /\ text[i] # "." => Len(f[i]) = Len(f[i - 1])
  <2>1. f[i] = NextLabels(f[i - 1], text[i]) /\ f[i - 1] \in ListsOver(S) /\ text[i] \in S
    BY <1>1, <1>2, <1>3, <1>7
  <2>2. /\ text[i] = "." => Len(NextLabels(f[i - 1], text[i])) = Len(f[i - 1]) + 1
        /\ text[i] # "." => Len(NextLabels(f[i - 1], text[i])) = Len(f[i - 1])
    <3>1. \A labels \in ListsOver(S), c \in S :
             /\ c = "." => Len(NextLabels(labels, c)) = Len(labels) + 1
             /\ c # "." => Len(NextLabels(labels, c)) = Len(labels)
      BY NextLabelsTyped
    <3> QED  BY <2>1, <3>1
  <2>3. Len(f[i]) = Len(NextLabels(f[i - 1], text[i]))
    BY <2>1
  <2> QED  BY <2>2, <2>3
<1>10. Len(f[i]) \in Nat /\ Len(f[i - 1]) \in Nat
  BY <1>3, <1>7
<1>11. text[i] = "." /\ Len(f[i - 1]) = m
  BY <1>8, <1>9, <1>10
<1> QED  BY <1>7, <1>11 DEF f

-----------------------------------------------------------------------------
(* An entry and a host.                                                    *)

\* The two halves of a sequence.
LEMMA Halves ==
    ASSUME NEW S, NEW a \in Seq(S), NEW b \in Seq(S)
    PROVE  /\ SubSeq(a \o b, 1, Len(a)) = a
           /\ SubSeq(a \o b, Len(a) + 1, Len(a \o b)) = b
           /\ Len(a \o b) = Len(a) + Len(b) /\ a \o b \in Seq(S)
<1> DEFINE all == a \o b
<1>1. PICK m \in Nat, n \in Nat : m = Len(a) /\ n = Len(b)
  OBVIOUS
<1>2. /\ all \in Seq(S) /\ Len(all) = m + n
      /\ \A i \in 1..(m + n) : all[i] = (IF i <= m THEN a[i] ELSE b[i - m])
      /\ \A i \in 1..(m + n) : all[i] \in S
  <2>1. /\ all \in Seq(S) /\ Len(all) = Len(a) + Len(b)
        /\ \A i \in 1..(Len(a) + Len(b)) : all[i] = IF i <= Len(a) THEN a[i] ELSE b[i - Len(a)]
    BY ConcatProperties
  <2> HIDE DEF all
  <2>2. \A i \in 1..(m + n) : all[i] \in S
    BY <1>1, <2>1, ElementOfSeq
  <2> QED  BY <1>1, <2>1, <2>2
<1> HIDE DEF all
<1>3. SubSeq(all, 1, m) = a
  <2>1. /\ SubSeq(all, 1, m) \in Seq(S) /\ Len(SubSeq(all, 1, m)) = m
        /\ \A i \in 1..m : SubSeq(all, 1, m)[i] = all[i]
    BY <1>1, <1>2
  <2>2. \A i \in 1..m : i \in 1..(m + n) /\ i <= m
    OBVIOUS
  <2>3. \A i \in 1..m : SubSeq(all, 1, m)[i] = a[i]
    BY <1>2, <2>1, <2>2
  <2> QED  BY <1>1, <2>1, <2>3, SeqEqual
<1>4. SubSeq(all, m + 1, m + n) = b
  <2>1. /\ SubSeq(all, m + 1, m + n) \in Seq(S) /\ Len(SubSeq(all, m + 1, m + n)) = n
        /\ \A i \in 1..n : SubSeq(all, m + 1, m + n)[i] = all[m + i]
    BY <1>1, <1>2
  <2>2. \A i \in 1..n : m + i \in 1..(m + n) /\ ~(m + i <= m) /\ (m + i) - m = i
    BY <1>1
  <2>3. ASSUME NEW i \in 1..n
        PROVE  SubSeq(all, m + 1, m + n)[i] = b[i]
    <3>1. all[m + i] = b[(m + i) - m]
      BY <1>2, <2>2
    <3> QED  BY <2>1, <2>2, <3>1
  <2> QED  BY <1>1, <2>1, <2>3, SeqEqual
<1> QED  BY <1>1, <1>2, <1>3, <1>4 DEF all

\* What is left of a text without the dots at its end, ...
LEMMA RstripIs ==
    ASSUME NEW text \in Text
    PROVE  LET left == Rstrip(text)
           IN  /\ left \in Text /\ Len(left) \in 0..Len(text)
               /\ left = SubSeq(text, 1, Len(left))
               /\ \A i \in 1..Len(left) : left[i] = text[i]
               /\ \A i \in (Len(left) + 1)..Len(text) : text[i] = "."
               /\ Len(left) > 0 => left[Len(left)] # "."
<1> DEFINE kept == {n \in 0..Len(text) : \A i \in (n + 1)..Len(text) : text[i] = "."}
           least == CHOOSE n \in kept : \A k \in kept : n <= k
           left == Rstrip(text)
<1>0. Len(text) \in Nat
  BY DEF Text
<1>1. least \in kept /\ \A k \in kept : least <= k
  <2>1. Len(text) \in kept /\ kept \subseteq Nat  BY <1>0
  <2>2. \E n \in kept : \A k \in kept : n <= k  BY <2>1, LeastNatural
  <2> HIDE DEF kept
  <2> QED  BY <2>2
<1>2. left = SubSeq(text, 1, least)
  BY DEF Rstrip
<1>3. least \in 0..Len(text) /\ \A i \in (least + 1)..Len(text) : text[i] = "."
  BY <1>1
<1>4. /\ left \in Text /\ Len(left) = least
      /\ \A i \in 1..least : left[i] = text[i]
  <2> HIDE DEF least, left
  <2> QED  BY <1>0, <1>2, <1>3 DEF Text
<1>5. ASSUME least > 0
      PROVE  text[least] # "."
  <2>1. SUFFICES ASSUME text[least] = "."
                 PROVE  FALSE
    OBVIOUS
  <2> HIDE DEF least
  <2>2. least - 1 \in 0..Len(text) /\ (least - 1) + 1 = least /\ ~(least <= least - 1)
    BY <1>0, <1>3, <1>5
  <2>3. \A i \in least..Len(text) : i = least \/ i \in (least + 1)..Len(text)
    BY <1>0, <1>3
  <2>4. \A i \in least..Len(text) : text[i] = "."
    BY <1>3, <2>1, <2>3
  <2>5. least - 1 \in kept
    BY <2>2, <2>4
  <2> QED  BY <1>1, <2>2, <2>5
<1> HIDE DEF least, left
<1>6. least > 0 => left[least] # "."
  <2>1. least > 0 => least \in 1..least
    BY <1>0, <1>3
  <2> QED  BY <1>4, <1>5, <2>1
<1> QED  BY <1>2, <1>3, <1>4, <1>6 DEF left

\* ... and there is only one place where it can end.
LEMMA RstripUnique ==
    ASSUME NEW text \in Text, NEW n \in 0..Len(text),
           \A i \in (n + 1)..Len(text) : text[i] = ".",
           n > 0 => text[n] # "."
    PROVE  Rstrip(text) = SubSeq(text, 1, n)
<1>1. PICK m \in Nat : m = Len(text)
  BY DEF Text
<1>2. PICK k \in 0..m : k = Len(Rstrip(text))
  BY <1>1, RstripIs
<1>3. /\ Rstrip(text) = SubSeq(text, 1, k)
      /\ \A i \in (k + 1)..m : text[i] = "."
      /\ k > 0 => text[k] # "."
  <2>1. k > 0 => k \in 1..k
    BY <1>1, <1>2
  <2> QED  BY <1>1, <1>2, <2>1, RstripIs
<1>4. ~(k < n)
  <2>1. k < n => n \in (k + 1)..m /\ n > 0
    BY <1>1, <1>2
  <2> QED  BY <1>3, <2>1
<1>5. ~(n < k)
  <2>1. n < k => k \in (n + 1)..m /\ k > 0
    BY <1>1, <1>2
  <2> QED  BY <1>1, <1>3, <2>1
<1>6. k = n
  BY <1>1, <1>2, <1>4, <1>5
<1> QED  BY <1>3, <1>6

\* Folding and stripping can be done in either order, unless a dot of another spelling
\* ends the text.
LEMMA RstripFolded ==
    ASSUME NEW text \in Text, ~KeepsDot(text)
    PROVE  Rstrip(Folded(text)) = Folded(Rstrip(text))
<1> DEFINE left == Rstrip(text)
<1>1. PICK m \in Nat : m = Len(text)
  BY DEF Text
<1>2. PICK n \in 0..m : n = Len(left)
  BY <1>1, RstripIs
<1> DEFINE dots == SubSeq(text, n + 1, m)
<1>3. left \in Text /\ dots \in Text /\ text = left \o dots
  <2>1. left = SubSeq(text, 1, n)
    BY <1>2, RstripIs
  <2> QED  BY <1>1, <1>2, <2>1, TwoParts
<1>4. \A i \in 1..Len(dots) : dots[i] = "."
  <2>1. \A i \in (n + 1)..m : text[i] = "."
    BY <1>1, <1>2, RstripIs
  <2>2. /\ Len(dots) = IF n + 1 <= m THEN m - (n + 1) + 1 ELSE 0
        /\ \A i \in 1..(m - (n + 1) + 1) : dots[i] = text[(n + 1) + i - 1]
    BY <1>1, <1>2, SubSeqProperties DEF Text
  <2> HIDE DEF dots, left
  <2>3. n \in Nat /\ n <= m
    BY <1>1, <1>2
  <2>4. \A i \in 1..Len(dots) : /\ i \in 1..(m - (n + 1) + 1)
                                /\ (n + 1) + i - 1 \in (n + 1)..m
    BY <1>1, <2>2, <2>3
  <2> QED  BY <2>1, <2>2, <2>4
<1> HIDE DEF left, dots
<1>5. Folded(dots) = dots
  <2>1. Fold["."] = <<".">>
    BY FoldIs DEF Ascii
  <2> QED  BY <1>3, <1>4, <2>1, FoldedSame
<1> DEFINE short == Folded(left)
<1>6. short \in Text /\ Folded(text) = short \o dots /\ Folded(text) \in Text
  <2>1. \A part \in Text : Folded(part) \in Text
    BY FoldedTexts
  <2>2. Folded(left \o dots) = Folded(left) \o Folded(dots)
    BY <1>3, FoldedParts
  <2>3. Folded(text) = Folded(left) \o dots
    BY <1>3, <1>5, <2>2
  <2> QED  BY <1>3, <2>1, <2>3
<1>7. short = << >> \/ short[Len(short)] # "."
  BY DEF KeepsDot, left, short
<1> HIDE DEF short
<1>8. PICK k \in Nat, d \in Nat : k = Len(short) /\ d = Len(dots)
  BY <1>3, <1>6 DEF Text
<1> DEFINE whole == short \o dots
<1>9. /\ whole \in Text /\ Len(whole) = k + d
      /\ \A i \in 1..(k + d) : whole[i] = IF i <= k THEN short[i] ELSE dots[i - k]
  BY <1>3, <1>6, <1>8, ConcatProperties DEF Text
<1> HIDE DEF whole
<1>10. ASSUME NEW i \in (k + 1)..(k + d)
       PROVE  whole[i] = "."
  <2>1. i \in 1..(k + d) /\ ~(i <= k) /\ i - k \in 1..d
    BY <1>8
  <2> QED  BY <1>4, <1>8, <1>9, <2>1
<1>11. k > 0 => whole[k] # "."
  <2>1. k > 0 => k \in 1..(k + d) /\ k <= k /\ short # << >>
    BY <1>6, <1>8
  <2> QED  BY <1>7, <1>8, <1>9, <2>1
<1>12. k \in 0..(k + d)
  BY <1>8
<1>13. Rstrip(whole) = SubSeq(whole, 1, k)
  BY <1>9, <1>10, <1>11, <1>12, RstripUnique
<1>14. SubSeq(whole, 1, k) = short
  <2>1. /\ SubSeq(whole, 1, k) \in Text /\ Len(SubSeq(whole, 1, k)) = k
        /\ \A i \in 1..k : SubSeq(whole, 1, k)[i] = whole[i]
    BY <1>9, <1>12 DEF Text
  <2>2. \A i \in 1..k : i \in 1..(k + d) /\ i <= k
    BY <1>8
  <2>3. \A i \in 1..k : SubSeq(whole, 1, k)[i] = short[i]
    BY <1>9, <2>1, <2>2
  <2> QED  BY <1>6, <1>8, <2>1, <2>3, SeqEqual DEF Text
<1> QED  BY <1>6, <1>13, <1>14 DEF left, short, whole

\* A wildcard's pattern begins with the star and a dot, and something follows.
WildPattern(pattern) == Len(pattern) >= 3 /\ pattern[1] = "*" /\ pattern[2] = "."

\* The pattern of an entry is the entry, folded.
LEMMA PatternIs ==
    ASSUME NEW entry \in Text, Usable(entry)
    PROVE  /\ AsHostPattern(entry) = Folded(entry)
           /\ Folded(entry) \in Text /\ Folded(entry) # << >>
<1> DEFINE first == Leftmost(entry)
           rest == Rest(entry)
<1>1. PICK n \in Nat : n = Len(entry)
  BY DEF Text
<1>2. PICK b \in 0..n : b = Before(entry, ".") /\ (b = n \/ entry[b + 1] = ".")
  BY <1>1, BeforeFirst
<1>3. first = SubSeq(entry, 1, b) /\ rest = SubSeq(entry, b + 2, n)
  BY <1>1, <1>2 DEF Leftmost, Rest
<1>4. entry # << >> /\ (first = <<"*">> => rest # << >>)
  <2>1. Has(<<"*">>, "*")
    BY DEF Has, ToSet
  <2> HIDE DEF first, rest
  <2> QED  BY <2>1 DEF Usable, first, rest
<1>5. Encodes(IF first = <<"*">> THEN rest ELSE entry)
  BY DEF Usable
<1>6. Folded(entry) \in Text
  BY FoldedTexts
<1> HIDE DEF first, rest
<1>7. CASE first = <<"*">>
  <2> DEFINE wild == <<"*", ".">>
  <2>1. b = 1 /\ entry[2] = "." /\ n >= 3 /\ entry[1] = "*"
    <3>1. Len(first) = b /\ (b > 0 => first[1] = entry[1])
      BY <1>1, <1>2, <1>3 DEF Text
    <3>2. b = 1 /\ entry[1] = "*"
      BY <1>7, <3>1
    <3>3. SubSeq(entry, 3, n) # << >>
      <4>1. b + 2 = 3
        BY <3>2
      <4>2. rest = SubSeq(entry, 3, n)
        BY <1>3, <4>1
      <4> QED  BY <1>4, <1>7, <4>2
    <3>4. n >= 3
      <4>1. n < 3 => SubSeq(entry, 3, n) = << >>
        BY <1>1 DEF Text
      <4> QED  BY <1>1, <3>3, <4>1
    <3> QED  BY <1>1, <1>2, <3>2, <3>4
  <2>2. rest \in Text /\ rest = SubSeq(entry, 2 + 1, n) /\ 2 \in 0..n
    <3>1. rest = SubSeq(entry, 3, n) /\ 3 \in 1..(n + 1) /\ n \in 0..n
      BY <1>1, <1>3, <2>1
    <3>2. SubSeq(entry, 3, n) \in Text
      BY <1>1, <2>1 DEF Text
    <3> QED  BY <1>1, <2>1, <3>1, <3>2
  <2>3. SubSeq(entry, 1, 2) = wild
    <3>1. /\ SubSeq(entry, 1, 2) \in Text /\ Len(SubSeq(entry, 1, 2)) = 2
          /\ SubSeq(entry, 1, 2)[1] = "*" /\ SubSeq(entry, 1, 2)[2] = "."
      BY <1>1, <2>1 DEF Text
    <3>2. wild \in Text /\ Len(wild) = 2 /\ wild[1] = "*" /\ wild[2] = "."
      BY DEF Text, Ascii
    <3>3. \A i \in 1..2 : i = 1 \/ i = 2
      OBVIOUS
    <3> HIDE DEF wild
    <3> QED  BY <3>1, <3>2, <3>3, SeqEqual DEF Text
  <2>4. entry = wild \o rest
    <3>1. entry = SubSeq(entry, 1, 2) \o SubSeq(entry, 2 + 1, Len(entry))
      BY <1>1, <2>2, TwoParts
    <3> HIDE DEF wild
    <3> QED  BY <1>1, <2>2, <2>3, <3>1
  <2>5. wild \in Plain /\ wild \in Text
    BY DEF Plain, Text, Ascii
  <2> HIDE DEF wild
  <2>6. Folded(entry) = wild \o Folded(rest)
    <3>1. Folded(wild \o rest) = Folded(wild) \o Folded(rest)
      BY <2>2, <2>5, FoldedParts
    <3>2. Folded(wild) = wild
      BY <2>5, Idempotent
    <3> QED  BY <2>4, <3>1, <3>2
  <2>7. Folded(rest) \in Text /\ Folded(rest) # << >>
    BY <1>4, <1>5, <1>7, <2>2, FoldedTexts, FoldedNonempty
  <2>8. wild \o Folded(rest) # << >>
    <3>1. \A s, t \in Text : t # << >> => s \o t # << >>
      BY DEF Text
    <3> QED  BY <2>5, <2>7, <3>1
  <2> QED  BY <1>6, <1>7, <2>6, <2>8 DEF AsHostPattern, Normalise, first, rest, wild
<1>8. CASE first # <<"*">>
  <2>1. Folded(entry) # << >>
    BY <1>4, <1>5, <1>8, FoldedNonempty
  <2> QED  BY <1>6, <1>8, <2>1 DEF AsHostPattern, Normalise, first
<1> QED  BY <1>7, <1>8

\* What IsSuffix says, a character at a time.
LEMMA SuffixIs ==
    ASSUME NEW S, NEW s \in Seq(S), NEW t \in Seq(S)
    PROVE  IsSuffix(s, t) <=>
              /\ Len(s) <= Len(t)
              /\ \A i \in 1..Len(s) : s[i] = t[Len(t) - Len(s) + i]
<1>1. PICK m \in Nat, n \in Nat : m = Len(s) /\ n = Len(t)
  OBVIOUS
<1> DEFINE back == [i \in 1..m |-> s[(m - i) + 1]]
           whole == [i \in 1..n |-> t[(n - i) + 1]]
<1>2. Reverse(s) = back /\ Reverse(t) = whole
  BY <1>1 DEF Reverse
<1>3. back \in Seq(S) /\ Len(back) = m /\ whole \in Seq(S) /\ Len(whole) = n
  <2>1. \A i \in 1..m : s[(m - i) + 1] \in S
    BY <1>1
  <2>2. \A i \in 1..n : t[(n - i) + 1] \in S
    BY <1>1
  <2> QED  BY <2>1, <2>2
<1>4. /\ \A i \in 1..m : back[i] = s[(m - i) + 1]
      /\ \A i \in 1..n : whole[i] = t[(n - i) + 1]
  OBVIOUS
<1> HIDE DEF back, whole
<1>5. IsSuffix(s, t) <=> m <= n /\ SubSeq(back, 1, m) = SubSeq(whole, 1, m)
  BY <1>2, <1>3 DEF IsSuffix, IsPrefix
<1>6. SubSeq(back, 1, m) = back
  BY <1>3, SubSeqFull
<1>7. ASSUME m <= n
      PROVE  SubSeq(whole, 1, m) = back <=> \A i \in 1..m : s[i] = t[n - m + i]
  <2>1. /\ SubSeq(whole, 1, m) \in Seq(S) /\ Len(SubSeq(whole, 1, m)) = m
        /\ \A i \in 1..m : SubSeq(whole, 1, m)[i] = whole[i]
    BY <1>3, <1>7
  <2>2. SubSeq(whole, 1, m) = back <=> \A i \in 1..m : whole[i] = back[i]
    BY <1>3, <2>1, SeqEqual
  <2>3. ASSUME \A i \in 1..m : whole[i] = back[i], NEW i \in 1..m
        PROVE  s[i] = t[n - m + i]
    <3>1. /\ (m - i) + 1 \in 1..m /\ (m - i) + 1 \in 1..n
          /\ (m - ((m - i) + 1)) + 1 = i /\ (n - ((m - i) + 1)) + 1 = n - m + i
      BY <1>7
    <3> QED  BY <1>4, <2>3, <3>1
  <2>4. ASSUME \A i \in 1..m : s[i] = t[n - m + i], NEW i \in 1..m
        PROVE  whole[i] = back[i]
    <3>1. /\ (m - i) + 1 \in 1..m /\ i \in 1..n
          /\ n - m + ((m - i) + 1) = (n - i) + 1
      BY <1>7
    <3> QED  BY <1>4, <2>4, <3>1
  <2> QED  BY <2>2, <2>3, <2>4
<1> QED  BY <1>1, <1>5, <1>6, <1>7

\* The labels of a wildcard: the star, and those of what follows.
LEMMA WildLabels ==
    ASSUME NEW S, NEW pattern \in Seq(S), Len(pattern) >= 2,
           pattern[1] = "*", pattern[2] = "."
    PROVE  LET rest == Labels(SubSeq(pattern, 3, Len(pattern)))
           IN  /\ rest \in ListsOver(S)
               /\ Labels(pattern) \in ListsOver(S)
               /\ Labels(pattern)[1] = <<"*">> /\ Tail(Labels(pattern)) = rest
               /\ Len(Labels(pattern)) = Len(rest) + 1
<1> DEFINE r == SubSeq(pattern, 3, Len(pattern))
<1>1. Len(pattern) \in Nat /\ 1 \in 1..Len(pattern) /\ 2 \in 1..Len(pattern)
  OBVIOUS
<1>2. "*" \in S
  BY <1>1, ElementOfSeq
<1>3. r \in Seq(S) /\ Len(r) \in Nat
  BY <1>1
<1>4. \A text \in Seq(S) : Labels(text) \in ListsOver(S)
  BY LabelsAreLists
<1> HIDE DEF r
<1>5. LabelsTo(pattern)[1] = << <<"*">> >>
  <2>1. /\ LabelsTo(pattern)[0] = << << >> >>
        /\ LabelsTo(pattern)[1] = NextLabels(LabelsTo(pattern)[0], "*")
    BY <1>1, LabelsToIs
  <2>2. NextLabels(<< << >> >>, "*") = << <<"*">> >>
    BY DEF NextLabels
  <2> QED  BY <2>1, <2>2
<1>6. Labels(pattern) = << <<"*">> >> \o Labels(r)
  <2>1. Labels(pattern) = LabelsTo(pattern)[2 - 1] \o Labels(SubSeq(pattern, 2 + 1, Len(pattern)))
    BY <1>1, LabelsBehindDot
  <2>2. 2 - 1 = 1 /\ 2 + 1 = 3
    OBVIOUS
  <2>3. Labels(pattern) = LabelsTo(pattern)[1] \o Labels(SubSeq(pattern, 3, Len(pattern)))
    BY <2>1, <2>2
  <2> QED  BY <1>5, <2>3 DEF r
<1>7. Labels(r) \in Seq(Seq(S)) /\ << <<"*">> >> \in Seq(Seq(S))
  <2>1. <<"*">> \in Seq(S)
    BY <1>2
  <2> QED  BY <1>3, <1>4, <2>1 DEF ListsOver
<1>8. /\ (<< <<"*">> >> \o Labels(r))[1] = <<"*">>
      /\ Tail(<< <<"*">> >> \o Labels(r)) = Labels(r)
      /\ Len(<< <<"*">> >> \o Labels(r)) = Len(Labels(r)) + 1
  BY <1>7
<1> QED  BY <1>3, <1>4, <1>6, <1>8 DEF r

\* There are characters, a dot, and then the rest.
CutAt(name, rest) ==
    \E i \in 2..Len(name) : name[i] = "." /\ SubSeq(name, i + 1, Len(name)) = rest

\* What the code tests of a wildcard, ...
LEMMA SuffixCut ==
    ASSUME NEW pattern \in Text, WildPattern(pattern), NEW name \in Text
    PROVE  LET suffix == SubSeq(pattern, 2, Len(pattern))
           IN  /\ IsSuffix(suffix, name) /\ Len(name) > Len(suffix)
               <=> CutAt(name, SubSeq(pattern, 3, Len(pattern)))
<1> DEFINE suffix == SubSeq(pattern, 2, Len(pattern))
           rest == SubSeq(pattern, 3, Len(pattern))
<1>1. PICK k \in Nat, m \in Nat : k + 2 = Len(pattern) /\ m = Len(name) /\ k >= 1
  <2>1. Len(pattern) - 2 \in Nat /\ Len(name) \in Nat /\ Len(pattern) - 2 >= 1
        /\ (Len(pattern) - 2) + 2 = Len(pattern)
    BY DEF WildPattern, Text
  <2> QED  BY <2>1
<1>2. /\ suffix \in Text /\ Len(suffix) = k + 1
      /\ \A i \in 1..(k + 1) : suffix[i] = pattern[i + 1]
      /\ rest \in Text /\ Len(rest) = k
      /\ \A i \in 1..k : rest[i] = pattern[i + 2]
  <2>1. /\ suffix \in Text /\ Len(suffix) = (k + 2) - 2 + 1
        /\ \A i \in 1..((k + 2) - 2 + 1) : suffix[i] = pattern[2 + i - 1]
        /\ rest \in Text /\ Len(rest) = (k + 2) - 3 + 1
        /\ \A i \in 1..((k + 2) - 3 + 1) : rest[i] = pattern[3 + i - 1]
    BY <1>1, SubSeqProperties DEF Text
  <2> HIDE DEF suffix, rest
  <2>2. /\ (k + 2) - 2 + 1 = k + 1 /\ (k + 2) - 3 + 1 = k
        /\ \A i \in Nat : 2 + i - 1 = i + 1 /\ 3 + i - 1 = i + 2
    BY <1>1
  <2> QED  BY <1>1, <2>1, <2>2
<1>3. pattern[2] = "."
  BY DEF WildPattern
<1>4. IsSuffix(suffix, name) <=>
         k + 1 <= m /\ \A i \in 1..(k + 1) : suffix[i] = name[m - (k + 1) + i]
  <2>1. suffix \in Seq(Ascii \cup Wide) /\ name \in Seq(Ascii \cup Wide)
    BY <1>2 DEF Text
  <2> HIDE DEF suffix
  <2>2. IsSuffix(suffix, name) <=>
           /\ Len(suffix) <= Len(name)
           /\ \A i \in 1..Len(suffix) : suffix[i] = name[Len(name) - Len(suffix) + i]
    BY <2>1, SuffixIs
  <2> QED  BY <1>1, <1>2, <2>2
<1>5. \A i \in 1..m : /\ SubSeq(name, i + 1, m) \in Text /\ Len(SubSeq(name, i + 1, m)) = m - i
                      /\ \A j \in 1..(m - i) : SubSeq(name, i + 1, m)[j] = name[i + j]
  <2> SUFFICES ASSUME NEW i \in 1..m
               PROVE  /\ SubSeq(name, i + 1, m) \in Text /\ Len(SubSeq(name, i + 1, m)) = m - i
                      /\ \A j \in 1..(m - i) : SubSeq(name, i + 1, m)[j] = name[i + j]
    OBVIOUS
  <2> DEFINE part == SubSeq(name, i + 1, m)
  <2>1. /\ part \in Text /\ Len(part) = IF i + 1 <= m THEN m - (i + 1) + 1 ELSE 0
        /\ \A j \in 1..(m - (i + 1) + 1) : part[j] = name[(i + 1) + j - 1]
    BY <1>1, SubSeqProperties DEF Text
  <2> HIDE DEF part
  <2>2. m - (i + 1) + 1 = m - i /\ \A j \in Nat : (i + 1) + j - 1 = i + j
    BY <1>1
  <2>3. Len(part) = m - i
    BY <1>1, <2>1
  <2> QED  BY <1>1, <2>1, <2>2, <2>3 DEF part
<1> HIDE DEF suffix, rest
<1>6. ASSUME IsSuffix(suffix, name), m > k + 1
      PROVE  CutAt(name, rest)
  <2>1. PICK i \in 2..m : i = m - k
    BY <1>1, <1>6
  <2>7. i \in 1..m /\ m - i = k /\ m - (k + 1) + 1 = i /\ 1 \in 1..(k + 1)
    BY <1>1, <2>1
  <2>2. name[i] = "."
    BY <1>2, <1>3, <1>4, <1>6, <2>7
  <2>3. ASSUME NEW j \in 1..k
        PROVE  name[i + j] = rest[j]
    <3>1. j + 1 \in 1..(k + 1) /\ m - (k + 1) + (j + 1) = i + j /\ (j + 1) + 1 = j + 2
      BY <1>1, <2>1
    <3>2. suffix[j + 1] = name[m - (k + 1) + (j + 1)]
      BY <1>4, <1>6, <3>1
    <3>3. suffix[j + 1] = pattern[(j + 1) + 1]
      BY <1>2, <3>1
    <3> QED  BY <1>2, <3>1, <3>2, <3>3
  <2>4. SubSeq(name, i + 1, m) = rest
    <3>1. \A j \in 1..k : SubSeq(name, i + 1, m)[j] = rest[j]
      BY <1>5, <2>7, <2>3
    <3>2. SubSeq(name, i + 1, m) \in Text /\ Len(SubSeq(name, i + 1, m)) = k
      BY <1>5, <2>7
    <3> QED  BY <1>2, <3>1, <3>2, SeqEqual DEF Text
  <2> QED  BY <1>1, <2>1, <2>2, <2>4 DEF CutAt
<1>7. ASSUME CutAt(name, rest)
      PROVE  IsSuffix(suffix, name) /\ m > k + 1
  <2>1. PICK i \in 2..m : name[i] = "." /\ SubSeq(name, i + 1, m) = rest
    BY <1>1, <1>7 DEF CutAt
  <2>2. i \in 1..m
    BY <1>1
  <2>3. m - i = k
    BY <1>2, <1>5, <2>1, <2>2
  <2>4. m > k + 1 /\ k + 1 <= m
    BY <1>1, <2>3
  <2>5. ASSUME NEW j \in 1..(k + 1)
        PROVE  suffix[j] = name[m - (k + 1) + j]
    <3>1. CASE j = 1
      <4>1. m - (k + 1) + 1 = i /\ 1 + 1 = 2
        BY <1>1, <2>3
      <4> QED  BY <1>2, <1>3, <2>1, <3>1, <4>1
    <3>2. CASE j # 1
      <4>1. /\ j - 1 \in 1..k /\ j - 1 \in 1..(m - i) /\ (j - 1) + 2 = j + 1
            /\ i + (j - 1) = m - (k + 1) + j
        BY <1>1, <2>3, <3>2
      <4>2. rest[j - 1] = name[i + (j - 1)]
        BY <1>5, <2>1, <2>2, <4>1
      <4> QED  BY <1>2, <4>1, <4>2
    <3> QED  BY <3>1, <3>2
  <2> QED  BY <1>4, <2>4, <2>5
<1> QED  BY <1>1, <1>2, <1>6, <1>7 DEF suffix, rest

\* The list of labels that a wildcard's labels name.
Covers(e, n) ==
    LET more == Len(n) - Len(e) + 1
    IN  /\ more > 0 /\ SubSeq(n, more + 1, Len(n)) = Tail(e)
        /\ SubSeq(n, 1, more) # << << >> >>

\* ... and what the wildcard means, label by label.
LEMMA NamesCut ==
    ASSUME NEW pattern \in Text, WildPattern(pattern), NEW name \in Text
    PROVE  Covers(Labels(pattern), Labels(name))
           <=> CutAt(name, SubSeq(pattern, 3, Len(pattern)))
<1> DEFINE S == Ascii \cup Wide
           rest == SubSeq(pattern, 3, Len(pattern))
           e == Labels(pattern)
           n == Labels(name)
           f == LabelsTo(name)
<1>1. name \in Seq(S) /\ pattern \in Seq(S) /\ Len(pattern) >= 2 /\ Len(name) \in Nat
  BY DEF Text, WildPattern
<1>2. rest \in Seq(S)
  <2>1. Len(pattern) \in Nat /\ Len(pattern) >= 3
    BY DEF Text, WildPattern
  <2> QED  BY <1>1, <2>1
<1> HIDE DEF S
<1>3. /\ Labels(rest) \in ListsOver(S) /\ Tail(e) = Labels(rest)
      /\ Len(e) = Len(Labels(rest)) + 1
  <2>1. pattern[1] = "*" /\ pattern[2] = "."
    BY DEF WildPattern
  <2> QED  BY <1>1, <2>1, WildLabels
<1> HIDE DEF rest, e
<1>4. PICK p \in Nat : p = Len(Labels(rest)) /\ p >= 1 /\ Len(e) = p + 1
  <2>1. Len(Labels(rest)) \in Nat /\ Len(Labels(rest)) >= 1
    BY <1>3 DEF ListsOver
  <2> QED  BY <1>3, <2>1
<1>5. /\ f[0] = << << >> >> /\ n = f[Len(name)]
      /\ \A i \in 0..Len(name) : f[i] \in ListsOver(S) /\ (i > 0 => f[i] # << << >> >>)
  BY <1>1, LabelsToIs, LabelsTyped
<1>6. \A i \in 1..Len(name) : name[i] = "." =>
         n = f[i - 1] \o Labels(SubSeq(name, i + 1, Len(name)))
  BY <1>1, LabelsBehindDot
<1>7. Len(n) \in Nat /\ n \in Seq(Seq(S))
  <2>1. Len(name) \in 0..Len(name)
    BY <1>1
  <2> HIDE DEF f, n
  <2>2. n \in ListsOver(S)
    BY <1>5, <2>1
  <2> QED  BY <2>2 DEF ListsOver
<1>8. \A i \in 1..Len(name) : SubSeq(name, i + 1, Len(name)) \in Seq(S)
  BY <1>1
<1>9. \A text \in Seq(S) : Labels(text) \in ListsOver(S)
  BY LabelsAreLists
<1> HIDE DEF f, n
<1>10. \A front, back \in ListsOver(S) :
          /\ SubSeq(front \o back, 1, Len(front)) = front
          /\ SubSeq(front \o back, Len(front) + 1, Len(front \o back)) = back
          /\ Len(front \o back) = Len(front) + Len(back)
          /\ Len(front) \in Nat /\ Len(front) > 0
  BY Halves DEF ListsOver
<1>11. ASSUME Covers(e, n)
       PROVE  CutAt(name, rest)
  <2>1. PICK m \in Nat : m = Len(n) - p /\ 0 < m /\ m < Len(n) /\ m = Len(n) - Len(e) + 1
    <3>1. /\ Len(n) - p = Len(n) - Len(e) + 1 /\ Len(n) - p > 0 /\ Len(n) - p \in Nat
          /\ Len(n) - p < Len(n)
      BY <1>4, <1>7, <1>11 DEF Covers
    <3> QED  BY <3>1
  <2>2. SubSeq(n, m + 1, Len(n)) = Labels(rest) /\ SubSeq(n, 1, m) # << << >> >>
    BY <1>3, <1>11, <2>1 DEF Covers
  <2>3. PICK i \in 1..Len(name) : name[i] = "." /\ Len(f[i - 1]) = m
    <3>1. \A k \in Nat : 0 < k /\ k < Len(Labels(name)) =>
             \E i \in 1..Len(name) : name[i] = "." /\ Len(LabelsTo(name)[i - 1]) = k
      BY <1>1, LabelsCut
    <3> QED  BY <2>1, <3>1 DEF f, n
  <2> DEFINE behind == SubSeq(name, i + 1, Len(name))
  <2>4. n = f[i - 1] \o Labels(behind) /\ behind \in Seq(S) /\ Labels(behind) \in ListsOver(S)
    BY <1>6, <1>8, <1>9, <2>3
  <2>5. i \in Nat /\ i >= 1 /\ i <= Len(name) /\ i - 1 \in 0..Len(name)
    BY <1>1
  <2> HIDE DEF behind
  <2>6. SubSeq(n, 1, m) = f[i - 1] /\ SubSeq(n, m + 1, Len(n)) = Labels(behind)
    BY <1>5, <1>10, <2>3, <2>4, <2>5
  <2>7. behind = rest
    BY <1>2, <2>2, <2>4, <2>6, LabelsInjective
  <2>8. i # 1
    <3>1. i = 1 => i - 1 = 0
      OBVIOUS
    <3> QED  BY <1>5, <2>2, <2>6, <3>1
  <2>9. i \in 2..Len(name)
    BY <1>1, <2>5, <2>8
  <2> QED  BY <2>3, <2>7, <2>9 DEF CutAt, behind
<1>12. ASSUME CutAt(name, rest)
       PROVE  Covers(e, n)
  <2>1. PICK i \in 2..Len(name) : name[i] = "." /\ SubSeq(name, i + 1, Len(name)) = rest
    BY <1>12 DEF CutAt
  <2>2. i \in 1..Len(name) /\ i - 1 \in 0..Len(name) /\ i - 1 > 0
    BY <1>1
  <2>3. n = f[i - 1] \o Labels(rest) /\ f[i - 1] \in ListsOver(S) /\ f[i - 1] # << << >> >>
    BY <1>5, <1>6, <2>1, <2>2
  <2>4. PICK m \in Nat : m = Len(f[i - 1]) /\ m > 0
    BY <1>10, <2>3, <1>3
  <2>5. Len(n) = m + p /\ SubSeq(n, 1, m) = f[i - 1] /\ SubSeq(n, m + 1, Len(n)) = Labels(rest)
    BY <1>3, <1>4, <1>10, <2>3, <2>4
  <2>6. Len(n) - Len(e) + 1 = m
    BY <1>4, <2>5
  <2> QED  BY <1>3, <2>3, <2>4, <2>5, <2>6 DEF Covers
<1> QED  BY <1>11, <1>12 DEF rest, e, n

\* How the code tells a wildcard from other patterns.
LEMMA WildPrefix ==
    ASSUME NEW pattern \in Text
    PROVE  IsPrefix(<<"*", ".">>, pattern) <=>
              Len(pattern) >= 2 /\ pattern[1] = "*" /\ pattern[2] = "."
<1> DEFINE wild == <<"*", ".">>
<1>1. Len(wild) = 2 /\ wild \in Text /\ wild[1] = "*" /\ wild[2] = "."
  BY DEF Text, Ascii
<1> HIDE DEF wild
<1>2. SubSeq(wild, 1, Len(wild)) = wild
  BY <1>1, SubSeqFull DEF Text
<1>3. Len(pattern) \in Nat
  BY DEF Text
<1>4. ASSUME Len(pattern) >= 2
      PROVE  SubSeq(pattern, 1, 2) = wild <=> pattern[1] = "*" /\ pattern[2] = "."
  <2>1. /\ SubSeq(pattern, 1, 2) \in Text /\ Len(SubSeq(pattern, 1, 2)) = 2
        /\ SubSeq(pattern, 1, 2)[1] = pattern[1] /\ SubSeq(pattern, 1, 2)[2] = pattern[2]
    BY <1>3, <1>4 DEF Text
  <2>2. \A j \in 1..2 : j = 1 \/ j = 2
    OBVIOUS
  <2>3. SubSeq(pattern, 1, 2) = wild <=> \A j \in 1..2 : SubSeq(pattern, 1, 2)[j] = wild[j]
    BY <1>1, <2>1, SeqEqual DEF Text
  <2> QED  BY <1>1, <2>1, <2>2, <2>3
<1>5. IsPrefix(wild, pattern) <=> Len(pattern) >= 2 /\ wild = SubSeq(pattern, 1, 2)
  BY <1>1, <1>2, <1>3 DEF IsPrefix
<1> QED  BY <1>4, <1>5 DEF wild

\* A first label that is a star, with more behind it, is a star in front of a dot.
LEMMA StarLabel ==
    ASSUME NEW pattern \in Text, Labels(pattern)[1] = <<"*">>, Len(Labels(pattern)) > 1
    PROVE  Len(pattern) >= 2 /\ pattern[1] = "*" /\ pattern[2] = "."
<1> DEFINE S == Ascii \cup Wide
           f == LabelsTo(pattern)
<1>1. pattern \in Seq(S) /\ Len(pattern) \in Nat
  BY DEF Text
<1>2. "*" \in S
  BY DEF Ascii
<1> HIDE DEF S
<1>3. PICK i \in 1..Len(pattern) : pattern[i] = "." /\ Len(f[i - 1]) = 1
  <2>1. 1 \in Nat /\ 0 < 1
    OBVIOUS
  <2> QED  BY <1>1, <2>1, LabelsCut
<1>4. /\ i \in Nat /\ i > 0 /\ i - 1 \in 0..Len(pattern) /\ i - 1 \in Nat
      /\ i + 1 \in 1..(Len(pattern) + 1)
  BY <1>1, <1>3
<1> DEFINE rest == SubSeq(pattern, i + 1, Len(pattern))
<1>5. rest \in Seq(S)
  BY <1>1, <1>4
<1>6. Labels(pattern) = f[i - 1] \o Labels(rest)
  BY <1>1, <1>3, LabelsBehindDot
<1> HIDE DEF rest
<1>7. f[i - 1] \in ListsOver(S) /\ Labels(rest) \in ListsOver(S)
  <2>1. \A n \in 0..Len(pattern) : LabelsTo(pattern)[n] \in ListsOver(S)
    BY <1>1, LabelsTyped
  <2> QED  BY <1>4, <1>5, <2>1, LabelsAreLists
<1>8. f[i - 1] = << <<"*">> >>
  <2>1. ASSUME NEW a \in Seq(Seq(S)), NEW b \in Seq(Seq(S)), Len(a) = 1
        PROVE  (a \o b)[1] = a[1]
    <3>1. \A k \in 1..(Len(a) + Len(b)) :
             (a \o b)[k] = IF k <= Len(a) THEN a[k] ELSE b[k - Len(a)]
      BY ConcatProperties
    <3>2. Len(b) \in Nat
      OBVIOUS
    <3>3. 1 \in 1..(1 + Len(b)) /\ 1 <= 1
      BY <3>2
    <3> QED  BY <2>1, <3>1, <3>3
  <2>2. f[i - 1][1] = <<"*">>
    BY <1>3, <1>6, <1>7, <2>1 DEF ListsOver
  <2>3. \A a \in Seq(Seq(S)) : Len(a) = 1 /\ a[1] = <<"*">> => a = << <<"*">> >>
    OBVIOUS
  <2> QED  BY <1>3, <1>7, <2>2, <2>3 DEF ListsOver
<1>9. /\ f[0] = << << >> >>
      /\ \A n \in 1..Len(pattern) : f[n] = NextLabels(f[n - 1], pattern[n])
  BY <1>1, LabelsToIs
<1>10. /\ \A n \in 0..Len(pattern) : f[n] \in ListsOver(S)
       /\ \A n \in 1..Len(pattern) : f[n] # << << >> >>
  <2>1. \A n \in 0..Len(pattern) : /\ LabelsTo(pattern)[n] \in ListsOver(S)
                                   /\ n > 0 => LabelsTo(pattern)[n] # << << >> >>
    BY <1>1, LabelsTyped
  <2> QED  BY <1>1, <2>1
<1> HIDE DEF f
<1>11. i - 1 # 0
  <2>1. << << >> >> # << <<"*">> >>
    OBVIOUS
  <2> QED  BY <1>8, <1>9, <2>1
<1>12. /\ i - 1 \in 1..Len(pattern) /\ (i - 1) - 1 \in 0..Len(pattern)
       /\ pattern[i - 1] \in S
  <2>1. i - 1 \in 1..Len(pattern) /\ (i - 1) - 1 \in 0..Len(pattern)
    BY <1>4, <1>11
  <2> QED  BY <1>1, <2>1, ElementOfSeq
<1>13. f[(i - 1) - 1] = << << >> >> /\ pattern[i - 1] = "*"
  <2>1. << << >> >> \in ListsOver(S)
    BY DEF ListsOver
  <2>2. NextLabels(<< << >> >>, "*") = << <<"*">> >>
    BY DEF NextLabels
  <2>3. NextLabels(f[(i - 1) - 1], pattern[i - 1]) = NextLabels(<< << >> >>, "*")
    BY <1>8, <1>9, <1>12, <2>2
  <2>4. f[(i - 1) - 1] \in ListsOver(S)
    BY <1>10, <1>12
  <2> QED  BY <1>2, <1>12, <2>1, <2>3, <2>4, NextLabelsInjective
<1>14. (i - 1) - 1 = 0
  <2>1. (i - 1) - 1 \notin 1..Len(pattern)
    BY <1>10, <1>13
  <2> QED  BY <1>12, <2>1, <1>1
<1> QED  BY <1>3, <1>13, <1>14

\* The code's test of a pattern and the reading of its labels agree.
LEMMA MatchesNames ==
    ASSUME NEW pattern \in Text, pattern # << >>, pattern[Len(pattern)] # ".",
           NEW name \in Text, NEW literal \in BOOLEAN
    PROVE  Matches(name, pattern, literal) <=>
              \/ Labels(pattern) = Labels(name)
              \/ /\ Labels(pattern)[1] = <<"*">> /\ Len(Labels(pattern)) > 1 /\ ~literal
                 /\ Covers(Labels(pattern), Labels(name))
<1>1. Labels(pattern) = Labels(name) <=> name = pattern
  BY LabelsInjective DEF Text
<1>2. IsPrefix(<<"*", ".">>, pattern) <=>
         Len(pattern) >= 2 /\ pattern[1] = "*" /\ pattern[2] = "."
  BY WildPrefix
<1>3. CASE WildPattern(pattern)
  <2>1. /\ IsPrefix(<<"*", ".">>, pattern) /\ Labels(pattern)[1] = <<"*">>
        /\ Len(Labels(pattern)) > 1
    <3>1. Len(pattern) \in Nat /\ Len(pattern) >= 2 /\ pattern[1] = "*" /\ pattern[2] = "."
      BY <1>3 DEF WildPattern, Text
    <3> DEFINE rest == Labels(SubSeq(pattern, 3, Len(pattern)))
    <3>2. /\ rest \in ListsOver(Ascii \cup Wide) /\ Labels(pattern)[1] = <<"*">>
          /\ Len(Labels(pattern)) = Len(rest) + 1
      BY <3>1, WildLabels DEF Text
    <3> HIDE DEF rest
    <3>3. Len(rest) \in Nat /\ Len(rest) > 0
      BY <3>2 DEF ListsOver
    <3> QED  BY <1>2, <3>1, <3>2, <3>3
  <2>2. CASE literal
    BY <1>1, <2>1, <2>2 DEF Matches
  <2>3. CASE ~literal
    <3>1. Matches(name, pattern, literal)
          <=> CutAt(name, SubSeq(pattern, 3, Len(pattern)))
      BY <1>3, <2>1, <2>3, SuffixCut DEF Matches
    <3>2. name = pattern => CutAt(name, SubSeq(pattern, 3, Len(pattern)))
      <4>1. 2 \in 2..Len(pattern) /\ 2 + 1 = 3 /\ pattern[2] = "."
        BY <1>3 DEF WildPattern, Text
      <4> QED  BY <4>1 DEF CutAt
    <3> QED  BY <1>1, <1>3, <2>1, <2>3, <3>1, <3>2, NamesCut
  <2> QED  BY <2>2, <2>3
<1>4. CASE ~WildPattern(pattern)
  <2>1. ~(Len(pattern) >= 2 /\ pattern[1] = "*" /\ pattern[2] = ".")
    <3>1. Len(pattern) >= 2 /\ pattern[1] = "*" /\ pattern[2] = "." => Len(pattern) = 2
      BY <1>4 DEF WildPattern, Text
    <3> QED  BY <3>1
  <2>2. ~(Labels(pattern)[1] = <<"*">> /\ Len(Labels(pattern)) > 1)
    BY <2>1, StarLabel
  <2> QED  BY <1>1, <1>2, <2>1, <2>2 DEF Matches
<1> QED  BY <1>3, <1>4

\* What ends otherwise does not end in a text.
LEMMA OtherEnd ==
    ASSUME NEW suffix \in Text, NEW name \in Text, suffix # << >>,
           suffix[Len(suffix)] = ".", Len(name) > 0 => name[Len(name)] # "."
    PROVE  ~IsSuffix(suffix, name)
<1>1. PICK k \in Nat, m \in Nat : k = Len(suffix) /\ k > 0 /\ m = Len(name)
  <2>1. Len(suffix) \in Nat /\ Len(suffix) > 0 /\ Len(name) \in Nat
    BY DEF Text
  <2> QED  BY <2>1
<1> SUFFICES ASSUME IsSuffix(suffix, name)
             PROVE  FALSE
  OBVIOUS
<1>2. k <= m /\ \A i \in 1..k : suffix[i] = name[m - k + i]
  BY <1>1, SuffixIs DEF Text
<1>3. k \in 1..k /\ m - k + k = m /\ m > 0
  BY <1>1, <1>2
<1>4. suffix[k] = name[m - k + k]
  BY <1>2, <1>3
<1>5. suffix[k] = name[m]
  BY <1>3, <1>4
<1> QED  BY <1>1, <1>3, <1>5

\* What a policy compiles an entry to admits the hosts that the entry names, and nothing
\* else.
LEMMA EntryNames ==
    ASSUME NEW entry \in Text, Usable(Rstrip(entry)), NEW name \in Text
    PROVE  LET admitted == Matches(Rstrip(name), AsHostPattern(Rstrip(entry)), name \in Literal)
           IN  /\ admitted => Names(entry, name)
               /\ Names(entry, name) => admitted \/ KeepsDot(entry)
<1> DEFINE left == Rstrip(entry)
           pattern == AsHostPattern(left)
           bare == Rstrip(name)
           admitted == Matches(bare, pattern, name \in Literal)
<1>1. left \in Text /\ bare \in Text /\ (Len(bare) > 0 => bare[Len(bare)] # ".")
  BY RstripIs
<1>2. pattern = Folded(left) /\ pattern \in Text /\ pattern # << >>
  <2> HIDE DEF left
  <2> QED  BY <1>1, PatternIs DEF left
<1>3. CASE ~KeepsDot(entry)
  <2>1. Rstrip(Folded(entry)) = pattern /\ pattern[Len(pattern)] # "."
    BY <1>2, <1>3, RstripFolded DEF KeepsDot
  <2> HIDE DEF pattern, bare
  <2>2. admitted <=>
           \/ Labels(pattern) = Labels(bare)
           \/ /\ Labels(pattern)[1] = <<"*">> /\ Len(Labels(pattern)) > 1
              /\ name \notin Literal
              /\ Covers(Labels(pattern), Labels(bare))
    <3>1. \A literal \in BOOLEAN : Matches(bare, pattern, literal) <=>
             \/ Labels(pattern) = Labels(bare)
             \/ /\ Labels(pattern)[1] = <<"*">> /\ Len(Labels(pattern)) > 1 /\ ~literal
                /\ Covers(Labels(pattern), Labels(bare))
      BY <1>1, <1>2, <2>1, MatchesNames
    <3>2. (name \in Literal) \in BOOLEAN
      OBVIOUS
    <3> QED  BY <3>1, <3>2
  <2>3. admitted <=> Names(entry, name)
    BY <2>1, <2>2 DEF Names, Covers, bare
  <2> QED  BY <1>3, <2>3 DEF pattern, bare
<1>4. CASE KeepsDot(entry)
  <2>1. pattern[Len(pattern)] = "."
    BY <1>2, <1>4 DEF KeepsDot
  <2> HIDE DEF pattern, bare
  <2>2. bare # pattern
    <3>1. Len(pattern) > 0
      BY <1>2 DEF Text
    <3> QED  BY <1>1, <2>1, <3>1
  <2>3. ASSUME IsPrefix(<<"*", ".">>, pattern)
        PROVE  ~IsSuffix(SubSeq(pattern, 2, Len(pattern)), bare)
    <3>1. PICK k \in Nat : k = Len(pattern) /\ k >= 2
      <4>1. Len(pattern) \in Nat /\ Len(pattern) >= 2
        BY <1>2, <2>3, WildPrefix DEF Text
      <4> QED  BY <4>1
    <3> DEFINE suffix == SubSeq(pattern, 2, k)
    <3>2. /\ suffix \in Text /\ Len(suffix) = k - 1
          /\ \A i \in 1..(k - 1) : suffix[i] = pattern[2 + i - 1]
      <4>1. /\ suffix \in Seq(Ascii \cup Wide)
            /\ Len(suffix) = IF 2 <= k THEN k - 2 + 1 ELSE 0
            /\ \A i \in 1..(k - 2 + 1) : suffix[i] = pattern[2 + i - 1]
        BY <1>2, <3>1, SubSeqProperties DEF Text
      <4>2. k - 2 + 1 = k - 1 /\ 2 <= k
        BY <3>1
      <4> HIDE DEF suffix
      <4> QED  BY <4>1, <4>2 DEF Text
    <3> HIDE DEF suffix
    <3>3. k - 1 \in 1..(k - 1) /\ 2 + (k - 1) - 1 = k
      BY <3>1
    <3>4. suffix[Len(suffix)] = "."
      BY <2>1, <3>1, <3>2, <3>3
    <3>5. suffix # << >>
      <4>1. Len(<< >>) = 0 /\ k - 1 # 0
        BY <3>1
      <4> QED  BY <3>2, <4>1
    <3> QED  BY <1>1, <3>1, <3>2, <3>4, <3>5, OtherEnd DEF suffix
  <2>4. ~admitted
    BY <2>2, <2>3 DEF Matches
  <2> QED  BY <1>4, <2>4 DEF pattern, bare
<1> QED  BY <1>3, <1>4

-----------------------------------------------------------------------------
(* Who is let through.                                                     *)

Configured == stage \notin {"unconfigured", "ValueError"}

\* The patterns are those of the list, and what was refused for not being listed is not
\* admitted by them.
ListInv ==
    /\ Configured =>
          /\ hosts = {AsHostPattern(Rstrip(entry)) : entry \in listed}
          /\ \A entry \in listed : Usable(Rstrip(entry))
    /\ stage = "lookup" => port \in policy.ports /\ CheckHost(host)
    /\ stage \in {"idle", "unconfigured", "ValueError"} => read = {}
    /\ stage \in DOMAIN After /\ "listed" \in read => stage = "address"
    /\ stage = "permitted" => "address" \in read
    /\ stage = "refused" /\ "listed" \in read /\ "address" \notin read => ~CheckHost(host)

\* A policy admits the hosts that an entry of its list names, as far as the entry does not
\* end in a dot of another spelling.
LEMMA AdmitsListed ==
    ASSUME NEW name \in Text, listed \subseteq Text, Configured, ListInv
    PROVE  /\ CheckHost(name) /\ listed # {} => \E entry \in listed : Names(entry, name)
           /\ ~CheckHost(name) =>
                 \A entry \in listed : KeepsDot(entry) \/ ~Names(entry, name)
<1>1. /\ hosts = {AsHostPattern(Rstrip(entry)) : entry \in listed}
      /\ \A entry \in listed : Usable(Rstrip(entry))
  BY DEF ListInv
<1>2. \A entry \in listed :
         /\ Matches(Rstrip(name), AsHostPattern(Rstrip(entry)), name \in Literal)
            => Names(entry, name)
         /\ Names(entry, name) /\ ~KeepsDot(entry)
            => Matches(Rstrip(name), AsHostPattern(Rstrip(entry)), name \in Literal)
  BY <1>1, EntryNames
<1>3. /\ listed # {} => hosts # {}
      /\ \A entry \in listed : AsHostPattern(Rstrip(entry)) \in hosts
  BY <1>1
<1>4. ASSUME CheckHost(name), listed # {}
      PROVE  \E entry \in listed : Names(entry, name)
  <2>1. PICK pattern \in hosts : Matches(Rstrip(name), pattern, name \in Literal)
    BY <1>3, <1>4 DEF CheckHost, Admits, HostIsAllowed
  <2>2. PICK entry \in listed : pattern = AsHostPattern(Rstrip(entry))
    BY <1>1
  <2> QED  BY <1>2, <2>1, <2>2
<1>5. ASSUME ~CheckHost(name), NEW entry \in listed
      PROVE  KeepsDot(entry) \/ ~Names(entry, name)
  <2>1. ~Matches(Rstrip(name), AsHostPattern(Rstrip(entry)), name \in Literal)
    BY <1>3, <1>5 DEF CheckHost, Admits, HostIsAllowed
  <2> QED  BY <1>2, <2>1
<1> QED  BY <1>4, <1>5

\* A reading that does not look at the list.
LEMMA ReadingLists ==
    ASSUME NEW name \in DOMAIN After \ {"listed"}, NEW passes,
           Reading(name, passes), ListInv
    PROVE  ListInv'
<1>1. /\ stage = name /\ read' = read \cup {name}
      /\ stage' = IF passes THEN After[name] ELSE "refused"
      /\ UNCHANGED <<policy, listed, hosts>>
  BY DEF Reading, configured
<1>2. name = "address" \/ "listed" \notin read'
  BY <1>1 DEF ListInv
<1>3. stage' # "lookup" /\ stage' \notin {"idle", "unconfigured", "ValueError"} /\ Configured
  BY <1>1, Order DEF Configured
<1>4. stage' \in DOMAIN After => "listed" \notin read'
  BY <1>1, <1>2, Order
<1>5. stage' = "permitted" => "address" \in read'
  BY <1>1, Order
<1>6. "address" \in read' \/ "listed" \notin read'
  BY <1>1, <1>2
<1> QED  BY <1>1, <1>3, <1>4, <1>5, <1>6 DEF ListInv, Configured

\* Every step keeps the lists and the outcomes together.
LEMMA ListStep ==
    ASSUME ListInv, IInv, [Next]_vars
    PROVE  ListInv'
<1>1. CASE Configure
  <2>1. /\ stage = "unconfigured" /\ UNCHANGED read
        /\ \/ stage' = "ValueError"
           \/ /\ stage' = "idle"
              /\ \A entry \in {Rstrip(text) : text \in listed'} : Usable(entry)
              /\ hosts' = {AsHostPattern(entry) : entry \in {Rstrip(text) : text \in listed'}}
    BY <1>1 DEF Configure
  <2>2. stage' = "idle" =>
           /\ hosts' = {AsHostPattern(Rstrip(entry)) : entry \in listed'}
           /\ \A entry \in listed' : Usable(Rstrip(entry))
    BY <2>1
  <2>3. read' = {}
    BY <2>1 DEF ListInv
  <2> QED  BY <2>1, <2>2, <2>3, Order DEF ListInv, Configured
<1>2. ASSUME NEW who, NEW asked, Judge(who, asked), Configured
      PROVE  ListInv'
  <2>1. stage' = "length" /\ read' = {} /\ UNCHANGED <<policy, listed, hosts>>
    BY <1>2 DEF Judge, configured
  <2> QED  BY <1>2, <2>1, Order DEF ListInv, Configured
<1>3. CASE CheckUrl
  <2>1. Configured
    BY <1>3 DEF CheckUrl, Configured
  <2> QED  BY <1>2, <1>3, <2>1 DEF CheckUrl
<1>4. CASE PinnedSocket
  <2>1. Configured
    BY <1>4 DEF PinnedSocket, Handed, Configured
  <2> QED  BY <1>2, <1>4, <2>1 DEF PinnedSocket
<1>5. CASE CheckUrlGoesOn
  <2>1. CASE CheckHostIsListed
    <3>1. /\ stage = "listed" /\ read' = read \cup {"listed"}
          /\ stage' = IF CheckHost(host) THEN "address" ELSE "refused"
          /\ UNCHANGED <<policy, listed, hosts, host, port>>
      BY <2>1, Order DEF CheckHostIsListed, Looks, Reading, configured
    <3> QED  BY <3>1, Order DEF ListInv, Configured, CheckHost
  <2>2. CASE ~CheckHostIsListed
    <3>1. RejectOverlong => ListInv'
      BY Order, ReadingLists DEF RejectOverlong, Looks
    <3>2. RejectControlCharacters => ListInv'
      BY Order, ReadingLists DEF RejectControlCharacters, Looks
    <3>3. Split => ListInv'
      BY Order, ReadingLists DEF Split
    <3>4. CheckScheme => ListInv'
      BY Order, ReadingLists DEF CheckScheme, Looks
    <3>5. CheckUserinfo => ListInv'
      BY Order, ReadingLists DEF CheckUserinfo, Looks
    <3>6. HostPresent => ListInv'
      BY Order, ReadingLists DEF HostPresent, Looks
    <3>7. RejectOverlongHost => ListInv'
      BY Order, ReadingLists DEF RejectOverlongHost, Looks
    <3>8. NormaliseHost => ListInv'
      BY Order, ReadingLists DEF NormaliseHost
    <3>9. Shape => ListInv'
      BY Order, ReadingLists DEF Shape, Looks
    <3>10. CheckPort => ListInv'
      BY Order, ReadingLists DEF CheckPort
    <3>11. CheckLiteral => ListInv'
      BY Order, ReadingLists DEF CheckLiteral
    <3> QED
      BY <1>5, <2>2, <3>1, <3>2, <3>3, <3>4, <3>5, <3>6, <3>7, <3>8, <3>9, <3>10, <3>11
         DEF CheckUrlGoesOn
  <2> QED  BY <2>1, <2>2
<1>6. CASE Tunnelled
  <2>1. /\ stage = "permitted" /\ stage' = "ProxyUnsupportedError"
        /\ UNCHANGED <<policy, listed, hosts>>
    BY <1>6 DEF Tunnelled, configured
  <2> QED  BY <2>1, Order DEF ListInv, Configured
<1>7. CASE CheckOrigin
  <2>1. PICK opened :
           /\ stage \in {"permitted", "idle"}
           /\ host' = opened.host /\ port' = opened.port
           /\ stage' = IF opened.port \in policy.ports /\ CheckHost(opened.host)
                       THEN "lookup" ELSE "refused"
    BY <1>7 DEF CheckOrigin, Handed
  <2>2. UNCHANGED <<policy, listed, hosts, read>>
    BY <1>7 DEF CheckOrigin, configured
  <2>3. read' = {} \/ "address" \in read'
    BY <2>1, <2>2 DEF ListInv
  <2> QED  BY <2>1, <2>2, <2>3, Order DEF ListInv, Configured, CheckHost
<1>8. CASE UNCHANGED vars
  BY <1>8 DEF ListInv, Configured, CheckHost, vars, configured
<1> QED
  BY <1>1, <1>3, <1>4, <1>5, <1>6, <1>7, <1>8 DEF Next, Unconstructed

\* Whatever the list and whatever the host: an origin that passes is one that an entry
\* names label by label, and what is refused as unlisted is named by none.
THEOREM ListedOnly == Spec => []OnlyListedOrigins
<1>1. Init => ListInv
  BY Order DEF Init, ListInv, Configured
<1>2. IInv /\ ListInv => OnlyListedOrigins
  <2> SUFFICES ASSUME IInv, ListInv
               PROVE  OnlyListedOrigins
    OBVIOUS
  <2>1. host \in Text /\ listed \subseteq Text
    BY DEF IInv, Typed, TypeOK
  <2>2. Passed \/ stage = "refused" => Configured
    BY DEF Passed, Configured
  <2>3. Passed => port \in policy.ports /\ CheckHost(host)
    BY DEF Passed, IInv, HostSoFar, PortSoFar, ListInv
  <2>4. stage = "refused" /\ "listed" \in read /\ "address" \notin read => ~CheckHost(host)
    BY DEF ListInv
  <2>5. Configured =>
           /\ CheckHost(host) /\ listed # {} => \E entry \in listed : Names(entry, host)
           /\ ~CheckHost(host) =>
                 \A entry \in listed : KeepsDot(entry) \/ ~Names(entry, host)
    BY <2>1, AdmitsListed
  <2> QED  BY <2>2, <2>3, <2>4, <2>5 DEF OnlyListedOrigins
<1>3. ListInv /\ IInv /\ [Next]_vars => ListInv'
  BY ListStep
<1> QED  BY <1>1, <1>2, <1>3, Invariant, PTL DEF Spec
=============================================================================
