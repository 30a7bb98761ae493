--------------------------- MODULE StoredPageProofs ---------------------------
(***************************************************************************)
(* Every pointer and every range of a page refers to something, whatever   *)
(* the text; a loaded page is the one that was stored; and the words of a  *)
(* page spell its text.                                                    *)
(***************************************************************************)
EXTENDS StoredPage, FiniteSetTheorems, SequenceTheorems, NaturalsInduction,
        WellFoundedInduction, TLAPS

-----------------------------------------------------------------------------
(* Induction over places.                                                  *)

\* Smallest numbers exist because < is well founded.
LEMMA Smallest ==
  ASSUME NEW S \in SUBSET Nat, S # {}
  PROVE  \E x \in S : \A y \in S : x <= y
<1>1. \E x \in S : \A y \in S : ~(<<y, x>> \in OpToRel(<, Nat))
  <2>1. S \subseteq Nat
    OBVIOUS
  <2> QED
    BY <2>1, NatLessThanWellFounded, WFMin, Zenon
<1>2. PICK x \in S : \A y \in S : ~(<<y, x>> \in OpToRel(<, Nat))
  BY <1>1
<1>3. ASSUME NEW y \in S
      PROVE  x <= y
  <2>1. x \in Nat /\ y \in Nat
    OBVIOUS
  <2>2. ~(y < x)
    BY <1>2, <2>1, Zenon DEF OpToRel
  <2> QED
    BY <2>1, <2>2
<1> QED
  BY <1>3

LEMMA MinIs ==
  ASSUME NEW S \in SUBSET Nat, S # {}
  PROVE  Min(S) \in S /\ \A y \in S : Min(S) <= y
BY Smallest DEF Min

\* From the first place upwards.
LEMMA Upwards ==
  ASSUME NEW n \in Nat, NEW P, 0 \in P, \A k \in 0 .. n - 1 : k \in P => k + 1 \in P
  PROVE  \A k \in 0 .. n : k \in P
<1> DEFINE Missing == {k \in 0 .. n : k \notin P}
<1>1. ASSUME NEW k \in Missing, \A j \in Missing : k <= j
      PROVE  FALSE
  <2>1. k \in 0 .. n /\ k # 0 /\ k - 1 \in 0 .. n - 1 /\ k - 1 \in 0 .. n /\ ~(k <= k - 1)
    OBVIOUS
  <2>2. k - 1 \in P
    BY <1>1, <2>1
  <2>3. (k - 1) + 1 = k
    BY <2>1
  <2> QED
    BY <2>1, <2>2, <2>3
<1>2. Missing \in SUBSET Nat
  OBVIOUS
<1>3. Missing = {}
  <2> HIDE DEF Missing
  <2> QED
    BY <1>1, <1>2, Smallest
<1> QED
  BY <1>3

\* From behind the last place m downwards: next is the place a scan goes on at.
Jumps(next, m) == next \in [1 .. m -> Nat] /\ \A i \in 1 .. m : i < next[i] /\ next[i] <= m + 1

LEMMA Downwards ==
  ASSUME NEW m \in Nat, NEW next, Jumps(next, m), NEW P, m + 1 \in P,
         \A i \in 1 .. m : next[i] \in P => i \in P
  PROVE  \A i \in 1 .. m + 1 : i \in P
<1> DEFINE Missing == {k \in 0 .. m : \E i \in (1 .. m + 1) \ P : i + k = m + 1}
<1>1. ASSUME NEW k \in Missing, \A j \in Missing : k <= j
      PROVE  FALSE
  <2>1. PICK i \in (1 .. m + 1) \ P : i + k = m + 1 /\ k \in 0 .. m
    OBVIOUS
  <2>2. i # m + 1 /\ i \in 1 .. m
    BY <2>1
  <2>3. PICK n \in Nat : n = next[i] /\ i < n /\ n <= m + 1
    BY <2>2 DEF Jumps
  <2>4. n \in 1 .. m + 1 /\ n \notin P
    BY <2>1, <2>2, <2>3
  <2>5. (m + 1) - n \in 0 .. m /\ n + ((m + 1) - n) = m + 1 /\ ~(k <= (m + 1) - n)
    BY <2>1, <2>3
  <2>6. (m + 1) - n \in Missing
    BY <2>4, <2>5
  <2> QED
    BY <1>1, <2>5, <2>6
<1>2. Missing \in SUBSET Nat
  OBVIOUS
<1>3. Missing = {}
  <2> HIDE DEF Missing
  <2> QED
    BY <1>1, <1>2, Smallest
<1>4. ASSUME NEW i \in 1 .. m + 1, i \notin P
      PROVE  FALSE
  <2>1. (m + 1) - i \in 0 .. m /\ i + ((m + 1) - i) = m + 1
    OBVIOUS
  <2>2. (m + 1) - i \in Missing
    BY <1>4, <2>1
  <2> QED
    BY <1>3, <2>2
<1> QED
  BY <1>4

\* A scan that goes on at next and does g[i] at place i has a result.
Scans(f, m, a, next, g) ==
  f = [i \in 1 .. m + 1 |-> IF i > m THEN a ELSE g[i][f[next[i]]]]

LEMMA ScanExists ==
  ASSUME NEW m \in Nat, NEW V, NEW a \in V, NEW next, Jumps(next, m),
         NEW g \in [1 .. m -> [V -> V]]
  PROVE  \E f \in [1 .. m + 1 -> V] : Scans(f, m, a, next, g)
<1> DEFINE From(k, f) == /\ f \in [1 .. m + 1 -> V]
                         /\ \A i \in 1 .. m + 1 : i >= (m + 1) - k =>
                              f[i] = IF i > m THEN a ELSE g[i][f[next[i]]]
           P == {k \in Nat : \E f : From(k, f)}
<1>1. 0 \in P
  <2>1. From(0, [i \in 1 .. m + 1 |-> a])
    OBVIOUS
  <2> QED
    BY <2>1
<1>2. ASSUME NEW k \in 0 .. m - 1, k \in P
      PROVE  k + 1 \in P
  <2>1. PICK f : From(k, f)
    BY <1>2
  <2>2. PICK p \in 1 .. m : p = m - k
    OBVIOUS
  <2>3. PICK q \in 1 .. m + 1 : q = next[p] /\ p < q
    BY DEF Jumps
  <2> DEFINE h == [f EXCEPT ![p] = g[p][f[q]]]
  <2>4. h \in [1 .. m + 1 -> V] /\ h[p] = g[p][f[q]] /\ \A i \in 1 .. m + 1 : i # p => h[i] = f[i]
    BY <2>1
  <2> HIDE DEF h
  <2>5. ASSUME NEW i \in 1 .. m + 1, i >= (m + 1) - (k + 1)
        PROVE  h[i] = IF i > m THEN a ELSE g[i][h[next[i]]]
    <3>1. CASE i = p
      <4>1. h[q] = f[q]
        BY <2>3, <2>4
      <4> QED
        BY <2>2, <2>3, <2>4, <3>1, <4>1
    <3>2. CASE i # p
      <4>1. i >= (m + 1) - k
        BY <2>2, <2>5, <3>2
      <4>2. f[i] = IF i > m THEN a ELSE g[i][f[next[i]]]
        BY <2>1, <4>1
      <4>3. i <= m => next[i] \in 1 .. m + 1 /\ next[i] # p
        <5> HAVE i <= m
        <5>1. PICK n \in Nat : n = next[i] /\ i < n /\ n <= m + 1
          BY DEF Jumps
        <5> QED
          BY <2>2, <4>1, <5>1
      <4> QED
        BY <2>4, <3>2, <4>2, <4>3
    <3> QED
      BY <3>1, <3>2
  <2>6. From(k + 1, h)
    BY <2>4, <2>5
  <2> QED
    BY <2>6
<1>3. m \in P
  <2> HIDE DEF P
  <2>1. \A k \in 0 .. m : k \in P
    BY <1>1, <1>2, Upwards
  <2> QED
    BY <2>1
<1>4. PICK f : From(m, f)
  BY <1>3
<1>5. \A i \in 1 .. m + 1 : f[i] = IF i > m THEN a ELSE g[i][f[next[i]]]
  BY <1>4
<1>6. f = [i \in 1 .. m + 1 |-> f[i]]
  BY <1>4
<1>7. Scans(f, m, a, next, g)
  BY <1>5, <1>6 DEF Scans
<1> QED
  BY <1>4, <1>7

-----------------------------------------------------------------------------
(* Rewriting keeps texts texts.                                            *)

Text == Seq(Symbol)

IsRule(rule) ==
  \/ rule.kind = "literal" /\ rule.from \in Text /\ rule.to \in Text
  \/ rule.kind = "dot"
  \/ rule.kind = "url"

LEMMA Marks ==
  /\ "@" \in Symbol /\ "." \in Symbol /\ "sp" \in Symbol /\ "nl" \in Symbol
  /\ Mark \in Text /\ Blank \in Text /\ <<".">> \in Text
<1>1. "@" \in Symbol /\ "." \in Symbol /\ "sp" \in Symbol /\ "nl" \in Symbol
  BY DEF Symbol, White, Punctuation
<1> QED
  BY <1>1 DEF Mark, Blank, Text

LEMMA PartOfText ==
  ASSUME NEW t \in Text, NEW i \in 1 .. Len(t), NEW n \in Nat, i + n <= Len(t) + 1
  PROVE  SubSeq(t, i, i + n - 1) \in Text
<1>1. i \in Int /\ i + n - 1 \in Int /\ \A j \in i .. i + n - 1 : t[j] \in Symbol
  BY DEF Text
<1> QED
  BY <1>1, SubSeqProperties DEF Text

\* A rule matches within the text.
LEMMA MatchInText ==
  ASSUME NEW t \in Text, NEW i \in 1 .. Len(t), NEW rule, IsRule(rule)
  PROVE  MatchAt(rule, i, t) \in Nat /\ i + MatchAt(rule, i, t) <= Len(t) + 1
<1>1. CASE rule.kind = "literal" /\ rule.from \in Text
  <2>1. MatchAt(rule, i, t) = IF StandsAt(rule.from, i, t) THEN Len(rule.from) ELSE 0
    BY <1>1 DEF MatchAt
  <2>2. Len(rule.from) \in Nat /\ Len(t) \in Nat
    BY <1>1 DEF Text
  <2>3. StandsAt(rule.from, i, t) => i + Len(rule.from) <= Len(t) + 1
    BY <2>2 DEF StandsAt
  <2> QED
    BY <2>1, <2>2, <2>3
<1>2. CASE rule.kind = "dot"
  <2>1. MatchAt(rule, i, t) = IF StandsAt(<<".", "sp">>, i, t) /\ WordBefore(i, t) THEN 2 ELSE 0
    BY <1>2 DEF MatchAt
  <2>2. Len(t) \in Nat
    BY DEF Text
  <2>3. StandsAt(<<".", "sp">>, i, t) => i + 2 <= Len(t) + 1
    BY <2>2 DEF StandsAt
  <2> QED
    BY <2>1, <2>2, <2>3
<1>3. CASE rule.kind = "url"
  <2>1. MatchAt(rule, i, t) = IF UrlEnds(i, t) = {} THEN 0 ELSE Min(UrlEnds(i, t)) + 1 - i
    BY <1>3 DEF MatchAt
  <2>2. Len(t) \in Nat
    BY DEF Text
  <2>3. UrlEnds(i, t) \in SUBSET Nat /\ \A e \in UrlEnds(i, t) : e \in i + 4 .. Len(t)
    BY <2>2 DEF UrlEnds
  <2>4. ASSUME UrlEnds(i, t) # {}
        PROVE  Min(UrlEnds(i, t)) \in i + 4 .. Len(t)
    BY <2>3, <2>4, MinIs
  <2> QED
    BY <2>1, <2>2, <2>4
<1> QED
  BY <1>1, <1>2, <1>3 DEF IsRule

LEMMA ReplacementIsText ==
  ASSUME NEW match \in Text, NEW rule, IsRule(rule)
  PROVE  Replacement(rule, match) \in Text
<1>1. CASE rule.kind = "literal" /\ rule.to \in Text
  BY <1>1 DEF Replacement
<1>2. CASE rule.kind = "dot"
  BY <1>2, Marks DEF Replacement, Text
<1>3. CASE rule.kind = "url"
  BY <1>3, Marks DEF Replacement, Text
<1> QED
  BY <1>1, <1>2, <1>3 DEF IsRule

\* f[i] is what is made of the text from place i on.
ReplacesFrom(f, rule, t) ==
  \A i \in 1 .. Len(t) + 1 :
    f[i] = IF i > Len(t) THEN <<>>
           ELSE IF MatchAt(rule, i, t) = 0 THEN <<t[i]>> \o f[i + 1]
           ELSE Replacement(rule, SubSeq(t, i, i + MatchAt(rule, i, t) - 1))
                  \o f[i + MatchAt(rule, i, t)]

LEMMA ReplacedScans ==
  ASSUME NEW t \in Text, NEW rule, IsRule(rule)
  PROVE  \E f : ReplacesFrom(f, rule, t) /\ Replaced(rule, t) = f[1]
                /\ \A i \in 1 .. Len(t) + 1 : f[i] \in Text
<1>1. PICK L \in Nat : L = Len(t)
  BY DEF Text
<1> DEFINE n(i) == MatchAt(rule, i, t)
           piece(i) == IF n(i) = 0 THEN <<t[i]>> ELSE Replacement(rule, SubSeq(t, i, i + n(i) - 1))
           next == [i \in 1 .. L |-> IF n(i) = 0 THEN i + 1 ELSE i + n(i)]
           g == [i \in 1 .. L |-> [rest \in Text |-> piece(i) \o rest]]
           body(f) == [i \in 1 .. L + 1 |->
                         IF i > L THEN <<>>
                         ELSE IF n(i) = 0 THEN <<t[i]>> \o f[i + 1]
                         ELSE Replacement(rule, SubSeq(t, i, i + n(i) - 1)) \o f[i + n(i)]]
<1>empty. <<>> \in Text
  BY DEF Text
<1>2. \A i \in 1 .. L : n(i) \in Nat /\ i + n(i) <= L + 1
  BY <1>1, MatchInText
<1>3. \A i \in 1 .. L : piece(i) \in Text
  <2> TAKE i \in 1 .. L
  <2>1. CASE n(i) = 0
    <3>1. t[i] \in Symbol
      BY <1>1 DEF Text
    <3> QED
      BY <2>1, <3>1 DEF Text
  <2>2. CASE n(i) # 0
    <3>1. SubSeq(t, i, i + n(i) - 1) \in Text
      BY <1>1, <1>2, PartOfText
    <3> HIDE DEF n
    <3>2. Replacement(rule, SubSeq(t, i, i + n(i) - 1)) \in Text
      BY <3>1, ReplacementIsText
    <3> QED
      BY <2>2, <3>2
  <2> QED
    BY <2>1, <2>2
<1>unfold. ASSUME NEW f, NEW i \in 1 .. L + 1
           PROVE  body(f)[i] = IF i > L THEN <<>> ELSE piece(i) \o f[next[i]]
  <2> HIDE DEF n
  <2>1. CASE i > L
    BY <2>1
  <2>2. CASE i \in 1 .. L /\ n(i) = 0
    <3>1. next[i] = i + 1 /\ piece(i) = <<t[i]>> /\ ~(i > L)
      BY <2>2
    <3> HIDE DEF piece, next
    <3> QED
      BY <2>2, <3>1
  <2>3. CASE i \in 1 .. L /\ n(i) # 0
    <3>1. next[i] = i + n(i) /\ piece(i) = Replacement(rule, SubSeq(t, i, i + n(i) - 1)) /\ ~(i > L)
      BY <2>3
    <3> HIDE DEF piece, next
    <3> QED
      BY <2>3, <3>1
  <2> QED
    BY <2>1, <2>2, <2>3
<1> HIDE DEF n
<1>4. Jumps(next, L)
  BY <1>2 DEF Jumps
<1>5. g \in [1 .. L -> [Text -> Text]] /\ \A i \in 1 .. L : \A rest \in Text : g[i][rest] = piece(i) \o rest
  <2> HIDE DEF piece
  <2>1. \A i \in 1 .. L : \A rest \in Text : piece(i) \o rest \in Text
    BY <1>3 DEF Text
  <2> QED
    BY <2>1
<1> HIDE DEF piece, next, g
<1>6. ASSUME NEW i \in 1 .. L
      PROVE  next[i] \in 1 .. L + 1
  BY <1>4 DEF Jumps
<1>7. \E f : f = body(f)
  <2>1. PICK f \in [1 .. L + 1 -> Text] : Scans(f, L, <<>>, next, g)
    BY <1>empty, <1>4, <1>5, ScanExists
  <2>2. ASSUME NEW i \in 1 .. L + 1
        PROVE  f[i] = body(f)[i]
    <3>1. f[i] = IF i > L THEN <<>> ELSE g[i][f[next[i]]]
      BY <2>1 DEF Scans
    <3>2. i <= L => g[i][f[next[i]]] = piece(i) \o f[next[i]]
      <4> HAVE i <= L
      <4>1. i \in 1 .. L
        OBVIOUS
      <4>2. f[next[i]] \in Text
        BY <1>6, <2>1, <4>1
      <4> QED
        BY <1>5, <4>1, <4>2
    <3> HIDE DEF body
    <3>3. body(f)[i] = IF i > L THEN <<>> ELSE piece(i) \o f[next[i]]
      BY <1>unfold
    <3>4. CASE i > L
      BY <3>1, <3>3, <3>4
    <3>5. CASE i <= L
      <4>1. ~(i > L)
        BY <3>5
      <4> QED
        BY <3>1, <3>2, <3>3, <3>5, <4>1
    <3> QED
      BY <3>4, <3>5
  <2>3. f = [i \in 1 .. L + 1 |-> f[i]] /\ body(f) = [i \in 1 .. L + 1 |-> body(f)[i]]
    BY <2>1
  <2> HIDE DEF body
  <2> QED
    BY <2>2, <2>3
<1> DEFINE from == CHOOSE f : f = body(f)
<1>8. from = body(from)
  <2> HIDE DEF body
  <2> QED
    BY <1>7
<1>9. Replaced(rule, t) = from[1]
  BY <1>1, Zenon DEF Replaced, n
<1> HIDE DEF from
<1>10. \A i \in 1 .. L + 1 : from[i] = IF i > L THEN <<>> ELSE piece(i) \o from[next[i]]
  <2> HIDE DEF body
  <2> QED
    BY <1>unfold, <1>8
<1>11. \A i \in 1 .. L + 1 : from[i] \in Text
  <2> DEFINE P == {i \in 1 .. L + 1 : from[i] \in Text}
  <2>1. L + 1 \in P
    BY <1>empty, <1>10
  <2>2. ASSUME NEW i \in 1 .. L, next[i] \in P
        PROVE  i \in P
    <3>1. from[next[i]] \in Text /\ piece(i) \in Text
      BY <1>3, <2>2
    <3>2. i \in 1 .. L + 1 /\ ~(i > L)
      OBVIOUS
    <3>3. from[i] = piece(i) \o from[next[i]]
      BY <1>10, <3>2
    <3>4. piece(i) \o from[next[i]] \in Text
      BY <3>1 DEF Text
    <3> QED
      BY <3>2, <3>3, <3>4
  <2> HIDE DEF P
  <2>3. \A i \in 1 .. L + 1 : i \in P
    BY <1>4, <2>1, <2>2, Downwards
  <2> QED
    BY <2>3 DEF P
<1>12. ReplacesFrom(from, rule, t)
  <2>1. \A i \in 1 .. L + 1 : from[i] = body(from)[i]
    <3> HIDE DEF body
    <3> QED
      BY <1>8
  <2> QED
    BY <1>1, <2>1 DEF ReplacesFrom, n
<1> QED
  BY <1>1, <1>9, <1>11, <1>12

LEMMA ReplacedIsText ==
  ASSUME NEW t \in Text, NEW rule, IsRule(rule)
  PROVE  Replaced(rule, t) \in Text
<1>1. 1 \in 1 .. Len(t) + 1
  BY DEF Text
<1> QED
  BY <1>1, ReplacedScans

\* A rule that matches nowhere leaves the text as it is.
LEMMA NothingReplaced ==
  ASSUME NEW t \in Text, NEW rule, IsRule(rule), \A i \in DOMAIN t : MatchAt(rule, i, t) = 0
  PROVE  Replaced(rule, t) = t
<1>1. PICK L \in Nat : L = Len(t) /\ DOMAIN t = 1 .. L
  BY DEF Text
<1> DEFINE next == [i \in 1 .. L |-> i + 1]
<1>2. PICK f : ReplacesFrom(f, rule, t) /\ Replaced(rule, t) = f[1]
  BY ReplacedScans
<1>3. \A i \in 1 .. L + 1 : f[i] = IF i > L THEN <<>> ELSE <<t[i]>> \o f[i + 1]
  BY <1>1, <1>2 DEF ReplacesFrom
<1> DEFINE P == {i \in 1 .. L + 1 : f[i] = SubSeq(t, i, L)}
<1>4. L + 1 \in P
  <2>1. SubSeq(t, L + 1, L) = <<>>
    BY <1>1, SubSeqEmpty
  <2>2. L + 1 \in 1 .. L + 1 /\ L + 1 > L
    OBVIOUS
  <2>3. f[L + 1] = <<>>
    BY <1>3, <2>2
  <2> QED
    BY <2>1, <2>2, <2>3
<1>5. ASSUME NEW i \in 1 .. L, next[i] \in P
      PROVE  i \in P
  <2>0. i \in 1 .. L + 1 /\ ~(i > L) /\ next[i] = i + 1
    OBVIOUS
  <2>1. f[i] = <<t[i]>> \o SubSeq(t, i + 1, L)
    BY <1>3, <1>5, <2>0
  <2>2. SubSeq(t, i, L) = <<t[i]>> \o SubSeq(t, i + 1, L)
    <3>1. t \in Seq(Symbol) /\ i \in 1 .. Len(t) /\ L \in i .. Len(t)
      BY <1>1 DEF Text
    <3> QED
      BY <3>1, SubSeqRecursiveFirst
  <2> QED
    BY <1>1, <2>0, <2>1, <2>2
<1>6. Jumps(next, L)
  BY <1>1 DEF Jumps
<1>7. \A i \in 1 .. L + 1 : i \in P
  <2> HIDE DEF P, next
  <2> QED
    BY <1>1, <1>4, <1>5, <1>6, Downwards
<1>8. f[1] = SubSeq(t, 1, L)
  BY <1>1, <1>7
<1>9. SubSeq(t, 1, L) = t
  BY <1>1, SubSeqFull DEF Text
<1> QED
  BY <1>2, <1>8, <1>9

-----------------------------------------------------------------------------
(* Cutting.                                                                *)

Parts == Seq(Text) \ {<<>>}

\* What one place of a text adds to the parts behind it.
Piece(rest, ends, symbol) ==
  IF ends THEN <<<<>>>> \o rest ELSE <<<<symbol>> \o rest[1]>> \o Tail(rest)

LEMMA PieceIsParts ==
  ASSUME NEW rest \in Parts, NEW ends \in BOOLEAN, NEW symbol \in Symbol
  PROVE  Piece(rest, ends, symbol) \in Parts
<1>1. rest \in Seq(Text) /\ rest # <<>> /\ <<>> \in Text
  BY DEF Parts, Text
<1>2. ASSUME ends
      PROVE  Piece(rest, ends, symbol) \in Parts
  <2>1. <<<<>>>> \in Seq(Text) /\ Len(<<<<>>>>) = 1
    BY <1>1
  <2>2. /\ <<<<>>>> \o rest \in Seq(Text)
        /\ Len(<<<<>>>> \o rest) = 1 + Len(rest)
    BY <1>1, <2>1, ConcatProperties
  <2>3. Len(rest) \in Nat /\ Len(<<>>) = 0
    BY <1>1
  <2>4. <<<<>>>> \o rest # <<>>
    BY <2>2, <2>3
  <2> QED
    BY <1>2, <2>2, <2>4 DEF Piece, Parts
<1>3. ASSUME ~ends
      PROVE  Piece(rest, ends, symbol) \in Parts
  <2>1. Len(rest) \in Nat \ {0} /\ 1 \in 1 .. Len(rest)
    BY <1>1, EmptySeq
  <2>2. rest[1] \in Text
    BY <1>1, <2>1, ElementOfSeq
  <2>3. <<symbol>> \o rest[1] \in Text
    BY <2>2 DEF Text
  <2>4. <<<<symbol>> \o rest[1]>> \in Seq(Text) /\ Len(<<<<symbol>> \o rest[1]>>) = 1
    BY <2>3
  <2>5. Tail(rest) \in Seq(Text)
    BY <1>1, HeadTailProperties
  <2>6. /\ <<<<symbol>> \o rest[1]>> \o Tail(rest) \in Seq(Text)
        /\ Len(<<<<symbol>> \o rest[1]>> \o Tail(rest)) = 1 + Len(Tail(rest))
    BY <2>4, <2>5, ConcatProperties
  <2>7. Len(Tail(rest)) \in Nat /\ Len(<<>>) = 0
    BY <2>5
  <2>8. <<<<symbol>> \o rest[1]>> \o Tail(rest) # <<>>
    BY <2>6, <2>7
  <2> QED
    BY <1>3, <2>6, <2>8 DEF Piece, Parts
<1> QED
  BY <1>2, <1>3

\* f[i] is what a text is cut into from place i on.
CutsFrom(f, t, separator) ==
  \A i \in 1 .. Len(t) + 1 :
    f[i] = IF i > Len(t) THEN <<<<>>>>
           ELSE Piece(f[IF StandsAt(separator, i, t) THEN i + Len(separator) ELSE i + 1],
                      StandsAt(separator, i, t), t[i])

LEMMA CutScans ==
  ASSUME NEW t \in Text, NEW separator \in Text, separator # <<>>
  PROVE  \E f : CutsFrom(f, t, separator) /\ Cut(t, separator) = f[1]
                /\ \A i \in 1 .. Len(t) + 1 : f[i] \in Parts
<1>1. PICK L \in Nat : L = Len(t)
  BY DEF Text
<1> DEFINE s(i) == StandsAt(separator, i, t)
           next == [i \in 1 .. L |-> IF s(i) THEN i + Len(separator) ELSE i + 1]
           g == [i \in 1 .. L |-> [rest \in Parts |-> Piece(rest, s(i), t[i])]]
           body(f) == [i \in 1 .. L + 1 |->
                         IF i > L THEN <<<<>>>>
                         ELSE IF s(i) THEN <<<<>>>> \o f[i + Len(separator)]
                         ELSE LET rest == f[i + 1] IN <<<<t[i]>> \o rest[1]>> \o Tail(rest)]
<1>empty. <<<<>>>> \in Parts
  <2>1. <<>> \in Text
    BY DEF Text
  <2>2. <<<<>>>> \in Seq(Text) /\ <<<<>>>> # <<>>
    BY <2>1
  <2> QED
    BY <2>2 DEF Parts
<1>2. \A i \in 1 .. L : t[i] \in Symbol /\ s(i) \in BOOLEAN
  BY <1>1 DEF Text, StandsAt
<1>3. PICK w \in Nat \ {0} : w = Len(separator)
  BY EmptySeq DEF Text
<1>4. \A i \in 1 .. L : s(i) => i + w <= L + 1
  BY <1>1, <1>3 DEF StandsAt
<1>unfold. ASSUME NEW f, NEW i \in 1 .. L + 1
           PROVE  body(f)[i] = IF i > L THEN <<<<>>>> ELSE Piece(f[next[i]], s(i), t[i])
  <2> HIDE DEF s
  <2>1. CASE i > L
    BY <2>1
  <2>2. CASE i \in 1 .. L /\ ~s(i)
    <3>1. next[i] = i + 1 /\ ~(i > L)
      BY <2>2
    <3>2. Piece(f[i + 1], s(i), t[i]) = <<<<t[i]>> \o f[i + 1][1]>> \o Tail(f[i + 1])
      BY <2>2 DEF Piece
    <3> HIDE DEF next
    <3> QED
      BY <2>2, <3>1, <3>2
  <2>3. CASE i \in 1 .. L /\ s(i)
    <3>1. next[i] = i + Len(separator) /\ ~(i > L)
      BY <2>3
    <3>2. Piece(f[i + Len(separator)], s(i), t[i]) = <<<<>>>> \o f[i + Len(separator)]
      BY <2>3 DEF Piece
    <3> HIDE DEF next
    <3> QED
      BY <2>3, <3>1, <3>2
  <2> QED
    BY <2>1, <2>2, <2>3
<1> HIDE DEF s
<1>5. Jumps(next, L)
  <2>1. \A i \in 1 .. L : next[i] \in Nat /\ i < next[i] /\ next[i] <= L + 1
    BY <1>3, <1>4
  <2> QED
    BY <2>1 DEF Jumps
<1>6. /\ g \in [1 .. L -> [Parts -> Parts]]
      /\ \A i \in 1 .. L : \A rest \in Parts : g[i][rest] = Piece(rest, s(i), t[i])
  <2>1. \A i \in 1 .. L : \A rest \in Parts : Piece(rest, s(i), t[i]) \in Parts
    BY <1>2, PieceIsParts
  <2> QED
    BY <2>1
<1> HIDE DEF next, g
<1>7. ASSUME NEW i \in 1 .. L
      PROVE  next[i] \in 1 .. L + 1
  BY <1>5 DEF Jumps
<1>8. \E f : f = body(f)
  <2>1. PICK f \in [1 .. L + 1 -> Parts] : Scans(f, L, <<<<>>>>, next, g)
    BY <1>empty, <1>5, <1>6, ScanExists
  <2>2. ASSUME NEW i \in 1 .. L + 1
        PROVE  f[i] = body(f)[i]
    <3>1. f[i] = IF i > L THEN <<<<>>>> ELSE g[i][f[next[i]]]
      BY <2>1 DEF Scans
    <3>2. i <= L => g[i][f[next[i]]] = Piece(f[next[i]], s(i), t[i])
      <4> HAVE i <= L
      <4>1. i \in 1 .. L
        OBVIOUS
      <4>2. f[next[i]] \in Parts
        BY <1>7, <2>1, <4>1
      <4> QED
        BY <1>6, <4>1, <4>2
    <3> HIDE DEF body
    <3>3. body(f)[i] = IF i > L THEN <<<<>>>> ELSE Piece(f[next[i]], s(i), t[i])
      BY <1>unfold
    <3>4. CASE i > L
      BY <3>1, <3>3, <3>4
    <3>5. CASE i <= L
      <4>1. ~(i > L)
        BY <3>5
      <4> QED
        BY <3>1, <3>2, <3>3, <3>5, <4>1
    <3> QED
      BY <3>4, <3>5
  <2>3. f = [i \in 1 .. L + 1 |-> f[i]] /\ body(f) = [i \in 1 .. L + 1 |-> body(f)[i]]
    BY <2>1
  <2> HIDE DEF body
  <2> QED
    BY <2>2, <2>3
<1> DEFINE from == CHOOSE f : f = body(f)
<1>9. from = body(from)
  <2> HIDE DEF body
  <2> QED
    BY <1>8
<1>10. Cut(t, separator) = from[1]
  BY <1>1, Zenon DEF Cut, s
<1> HIDE DEF from
<1>11. \A i \in 1 .. L + 1 : from[i] = IF i > L THEN <<<<>>>> ELSE Piece(from[next[i]], s(i), t[i])
  <2> HIDE DEF body
  <2> QED
    BY <1>unfold, <1>9
<1>12. \A i \in 1 .. L + 1 : from[i] \in Parts
  <2> DEFINE P == {i \in 1 .. L + 1 : from[i] \in Parts}
  <2>1. L + 1 \in P
    BY <1>empty, <1>11
  <2>2. ASSUME NEW i \in 1 .. L, next[i] \in P
        PROVE  i \in P
    <3>1. from[next[i]] \in Parts
      BY <2>2
    <3>2. i \in 1 .. L + 1 /\ ~(i > L)
      OBVIOUS
    <3>3. from[i] = Piece(from[next[i]], s(i), t[i])
      BY <1>11, <3>2
    <3>4. Piece(from[next[i]], s(i), t[i]) \in Parts
      BY <1>2, <3>1, PieceIsParts DEF s
    <3> QED
      BY <3>2, <3>3, <3>4
  <2> HIDE DEF P
  <2>3. \A i \in 1 .. L + 1 : i \in P
    BY <1>5, <2>1, <2>2, Downwards
  <2> QED
    BY <2>3 DEF P
<1>13. CutsFrom(from, t, separator)
  <2>1. ASSUME NEW i \in 1 .. L
        PROVE  next[i] = IF s(i) THEN i + Len(separator) ELSE i + 1
    BY DEF next
  <2>2. ASSUME NEW i \in 1 .. L + 1
        PROVE  from[i] = IF i > L THEN <<<<>>>>
                         ELSE Piece(from[IF s(i) THEN i + Len(separator) ELSE i + 1], s(i), t[i])
    <3>1. CASE i > L
      BY <1>11, <3>1
    <3>2. CASE i <= L
      <4>1. i \in 1 .. L /\ ~(i > L)
        BY <3>2
      <4> QED
        BY <1>11, <2>1, <4>1
    <3> QED
      BY <3>1, <3>2
  <2> QED
    BY <1>1, <2>2 DEF CutsFrom, s
<1> QED
  BY <1>1, <1>10, <1>12, <1>13

LEMMA CutIsParts ==
  ASSUME NEW t \in Text, NEW separator \in Text, separator # <<>>
  PROVE  Cut(t, separator) \in Parts
<1>1. 1 \in 1 .. Len(t) + 1
  BY DEF Text
<1> QED
  BY <1>1, CutScans

-----------------------------------------------------------------------------
(* The rules, one after the other.                                         *)

\* A value that n steps lead to: step k is g[k].
Chains(f, n, a, g) == f = [k \in 0 .. n |-> IF k = 0 THEN a ELSE g[k][f[k - 1]]]

LEMMA ChainExists ==
  ASSUME NEW n \in Nat, NEW V, NEW a \in V, NEW g \in [1 .. n -> [V -> V]]
  PROVE  \E f \in [0 .. n -> V] : Chains(f, n, a, g)
<1> DEFINE UpTo(m, f) == /\ f \in [0 .. n -> V]
                         /\ \A k \in 0 .. n : k <= m => f[k] = IF k = 0 THEN a ELSE g[k][f[k - 1]]
           P == {m \in Nat : \E f : UpTo(m, f)}
<1>1. 0 \in P
  <2>1. UpTo(0, [k \in 0 .. n |-> a])
    OBVIOUS
  <2> QED
    BY <2>1
<1>2. ASSUME NEW m \in 0 .. n - 1, m \in P
      PROVE  m + 1 \in P
  <2>1. PICK f : UpTo(m, f)
    BY <1>2
  <2>2. PICK p \in 1 .. n : p = m + 1 /\ p - 1 = m /\ m \in 0 .. n
    OBVIOUS
  <2> DEFINE h == [f EXCEPT ![p] = g[p][f[m]]]
  <2>3. h \in [0 .. n -> V] /\ h[p] = g[p][f[m]] /\ \A k \in 0 .. n : k # p => h[k] = f[k]
    BY <2>1, <2>2
  <2> HIDE DEF h
  <2>4. ASSUME NEW k \in 0 .. n, k <= m + 1
        PROVE  h[k] = IF k = 0 THEN a ELSE g[k][h[k - 1]]
    <3>1. CASE k = p
      <4>1. h[m] = f[m] /\ k # 0 /\ k - 1 = m
        BY <2>2, <2>3, <3>1
      <4> QED
        BY <2>3, <3>1, <4>1
    <3>2. CASE k # p
      <4>1. k <= m
        BY <2>2, <2>4, <3>2
      <4>2. f[k] = IF k = 0 THEN a ELSE g[k][f[k - 1]]
        BY <2>1, <4>1
      <4>3. k # 0 => k - 1 \in 0 .. n /\ k - 1 # p
        BY <2>2, <4>1
      <4> QED
        BY <2>3, <3>2, <4>2, <4>3
    <3> QED
      BY <3>1, <3>2
  <2>5. UpTo(m + 1, h)
    BY <2>3, <2>4
  <2> QED
    BY <2>5
<1>3. n \in P
  <2> HIDE DEF P
  <2>1. \A k \in 0 .. n : k \in P
    BY <1>1, <1>2, Upwards
  <2> QED
    BY <2>1
<1>4. PICK f : UpTo(n, f)
  BY <1>3
<1>5. \A k \in 0 .. n : f[k] = IF k = 0 THEN a ELSE g[k][f[k - 1]]
  BY <1>4
<1>6. f = [k \in 0 .. n |-> f[k]]
  BY <1>4
<1>7. Chains(f, n, a, g)
  BY <1>5, <1>6 DEF Chains
<1> QED
  BY <1>4, <1>7

AreRules(rules) == Len(rules) \in Nat /\ \A k \in 1 .. Len(rules) : IsRule(rules[k])

\* f[k] is the text after the first k rules.
Rewrites(f, rules, t) ==
  \A k \in 0 .. Len(rules) : f[k] = IF k = 0 THEN t ELSE Replaced(rules[k], f[k - 1])

LEMMA RewrittenChain ==
  ASSUME NEW t \in Text, NEW rules, AreRules(rules)
  PROVE  \E f : /\ Rewrites(f, rules, t) /\ RewrittenBy(rules, t) = f[Len(rules)]
                /\ \A k \in 0 .. Len(rules) : f[k] \in Text
<1>1. PICK n \in Nat : n = Len(rules)
  BY DEF AreRules
<1> DEFINE g == [k \in 1 .. n |-> [v \in Text |-> Replaced(rules[k], v)]]
           body(f) == [k \in 0 .. n |-> IF k = 0 THEN t ELSE Replaced(rules[k], f[k - 1])]
<1>2. /\ g \in [1 .. n -> [Text -> Text]]
      /\ \A k \in 1 .. n : \A v \in Text : g[k][v] = Replaced(rules[k], v)
  <2>1. \A k \in 1 .. n : \A v \in Text : Replaced(rules[k], v) \in Text
    BY <1>1, ReplacedIsText DEF AreRules
  <2> QED
    BY <2>1
<1> HIDE DEF g
<1>3. \E f : f = body(f)
  <2>1. PICK f \in [0 .. n -> Text] : Chains(f, n, t, g)
    BY <1>2, ChainExists
  <2>2. ASSUME NEW k \in 0 .. n
        PROVE  f[k] = body(f)[k]
    <3>1. f[k] = IF k = 0 THEN t ELSE g[k][f[k - 1]]
      BY <2>1 DEF Chains
    <3>2. CASE k = 0
      BY <3>1, <3>2
    <3>3. CASE k # 0
      <4>1. k \in 1 .. n /\ k - 1 \in 0 .. n
        BY <3>3
      <4>2. f[k - 1] \in Text
        BY <2>1, <4>1
      <4>3. g[k][f[k - 1]] = Replaced(rules[k], f[k - 1])
        BY <1>2, <4>1, <4>2
      <4> QED
        BY <3>1, <3>3, <4>3
    <3> QED
      BY <3>2, <3>3
  <2>3. f = [k \in 0 .. n |-> f[k]] /\ body(f) = [k \in 0 .. n |-> body(f)[k]]
    BY <2>1
  <2> HIDE DEF body
  <2> QED
    BY <2>2, <2>3
<1> DEFINE after == CHOOSE f : f = body(f)
<1>4. after = body(after)
  <2> HIDE DEF body
  <2> QED
    BY <1>3
<1>5. RewrittenBy(rules, t) = after[n]
  BY <1>1, Zenon DEF RewrittenBy
<1> HIDE DEF after
<1>6. \A k \in 0 .. n : after[k] = IF k = 0 THEN t ELSE Replaced(rules[k], after[k - 1])
  <2>1. \A k \in 0 .. n : after[k] = body(after)[k]
    <3> HIDE DEF body
    <3> QED
      BY <1>4
  <2> QED
    BY <2>1
<1>7. \A k \in 0 .. n : after[k] \in Text
  <2> DEFINE P == {k \in 0 .. n : after[k] \in Text}
  <2>1. 0 \in P
    BY <1>6
  <2>2. ASSUME NEW k \in 0 .. n - 1, k \in P
        PROVE  k + 1 \in P
    <3>1. k + 1 \in 1 .. n /\ k + 1 \in 0 .. n /\ k + 1 # 0 /\ (k + 1) - 1 = k
      OBVIOUS
    <3>2. after[k + 1] = Replaced(rules[k + 1], after[k])
      BY <1>6, <3>1
    <3>3. after[k] \in Text /\ IsRule(rules[k + 1])
      BY <1>1, <2>2, <3>1 DEF AreRules
    <3>4. Replaced(rules[k + 1], after[k]) \in Text
      BY <3>3, ReplacedIsText
    <3> QED
      BY <3>1, <3>2, <3>4
  <2> HIDE DEF P
  <2>3. \A k \in 0 .. n : k \in P
    BY <2>1, <2>2, Upwards
  <2> QED
    BY <2>3 DEF P
<1> QED
  BY <1>1, <1>5, <1>6, <1>7 DEF Rewrites

LEMMA RewrittenIsText ==
  ASSUME NEW t \in Text, NEW rules, AreRules(rules)
  PROVE  RewrittenBy(rules, t) \in Text
<1>1. Len(rules) \in 0 .. Len(rules)
  BY DEF AreRules
<1> QED
  BY <1>1, RewrittenChain

\* Buffers that hold one text.
Holding(t) == [text |-> t, scratch |-> <<>>]

LEMMA OneReplacement ==
  ASSUME NEW t \in Text, NEW rule, IsRule(rule)
  PROVE  StrReplaceOpt(Holding(t), rule) = Holding(Replaced(rule, t))
<1>1. Holding(t).text = t /\ Holding(t).scratch = <<>>
  BY DEF Holding
<1>2. <<>> \o Replaced(rule, t) = Replaced(rule, t)
  BY ReplacedIsText, ConcatEmptySeq DEF Text
<1>3. CASE \A i \in DOMAIN t : MatchAt(rule, i, t) = 0
  <2>1. Replaced(rule, t) = t
    BY <1>3, NothingReplaced
  <2> QED
    BY <1>1, <1>3, <2>1 DEF StrReplaceOpt
<1>4. CASE ~ \A i \in DOMAIN t : MatchAt(rule, i, t) = 0
  BY <1>1, <1>2, <1>4 DEF StrReplaceOpt, Holding
<1> QED
  BY <1>3, <1>4

\* With a clean second buffer the text moves between the buffers as it moves
\* through the strings of the plain implementation, and leaves one clean again.
LEMMA BuffersFollow ==
  ASSUME NEW t \in Text, NEW rules, AreRules(rules)
  PROVE  RewrittenOpt(rules, Holding(t)) = Holding(RewrittenBy(rules, t))
<1>1. PICK n \in Nat : n = Len(rules)
  BY DEF AreRules
<1>2. PICK f : /\ Rewrites(f, rules, t) /\ RewrittenBy(rules, t) = f[n]
               /\ \A k \in 0 .. n : f[k] \in Text
  BY <1>1, RewrittenChain
<1>3. \A k \in 0 .. n : f[k] = IF k = 0 THEN t ELSE Replaced(rules[k], f[k - 1])
  BY <1>1, <1>2 DEF Rewrites
<1> DEFINE body(h) == [k \in 0 .. n |-> IF k = 0 THEN Holding(t) ELSE StrReplaceOpt(h[k - 1], rules[k])]
           held == [k \in 0 .. n |-> Holding(f[k])]
<1>4. ASSUME NEW k \in 0 .. n, k # 0
      PROVE  Holding(f[k]) = StrReplaceOpt(Holding(f[k - 1]), rules[k])
  <2>1. k - 1 \in 0 .. n /\ k \in 1 .. n
    BY <1>4
  <2>2. f[k - 1] \in Text /\ IsRule(rules[k]) /\ f[k] = Replaced(rules[k], f[k - 1])
    BY <1>1, <1>2, <1>3, <1>4, <2>1 DEF AreRules
  <2> QED
    BY <2>2, OneReplacement
<1>5. held = body(held)
  <2>1. ASSUME NEW k \in 0 .. n
        PROVE  held[k] = body(held)[k]
    <3>1. CASE k = 0
      BY <1>3, <3>1
    <3>2. CASE k # 0
      <4>1. k - 1 \in 0 .. n
        BY <3>2
      <4>2. held[k - 1] = Holding(f[k - 1]) /\ held[k] = Holding(f[k])
        BY <4>1
      <4> HIDE DEF held
      <4>3. body(held)[k] = StrReplaceOpt(held[k - 1], rules[k])
        BY <3>2
      <4> QED
        BY <1>4, <3>2, <4>2, <4>3
    <3> QED
      BY <3>1, <3>2
  <2>2. held = [k \in 0 .. n |-> held[k]] /\ body(held) = [k \in 0 .. n |-> body(held)[k]]
    OBVIOUS
  <2> HIDE DEF body, held
  <2> QED
    BY <2>1, <2>2
<1> DEFINE after == CHOOSE h : h = body(h)
<1>6. after = body(after)
  <2> HIDE DEF body, held
  <2> QED
    BY <1>5
<1>7. RewrittenOpt(rules, Holding(t)) = after[n]
  BY <1>1, Zenon DEF RewrittenOpt
<1> HIDE DEF after
<1>8. \A k \in 0 .. n : after[k] = IF k = 0 THEN Holding(t) ELSE StrReplaceOpt(after[k - 1], rules[k])
  <2>1. \A k \in 0 .. n : after[k] = body(after)[k]
    <3> HIDE DEF body
    <3> QED
      BY <1>6
  <2> QED
    BY <2>1
<1> DEFINE P == {k \in 0 .. n : after[k] = Holding(f[k])}
<1>9. 0 \in P
  BY <1>3, <1>8
<1>10. ASSUME NEW k \in 0 .. n - 1, k \in P
       PROVE  k + 1 \in P
  <2>1. k + 1 \in 0 .. n /\ k + 1 # 0 /\ (k + 1) - 1 = k
    OBVIOUS
  <2>2. after[k + 1] = StrReplaceOpt(after[k], rules[k + 1])
    BY <1>8, <2>1
  <2>3. Holding(f[k + 1]) = StrReplaceOpt(Holding(f[k]), rules[k + 1])
    BY <1>4, <2>1
  <2> QED
    BY <1>10, <2>1, <2>2, <2>3
<1>11. n \in P
  <2> HIDE DEF P
  <2>1. \A k \in 0 .. n : k \in P
    BY <1>9, <1>10, Upwards
  <2> QED
    BY <2>1
<1> QED
  BY <1>2, <1>7, <1>11

-----------------------------------------------------------------------------
(* The splitters.                                                          *)

LEMMA LiteralIsRule ==
  \A from \in Text, to \in Text : IsRule(Literal(from, to))
BY DEF IsRule, Literal

LEMMA SymbolsAre ==
  /\ "sp" \in Symbol /\ "nl" \in Symbol /\ "cr" \in Symbol /\ "tab" \in Symbol
  /\ "." \in Symbol /\ ";" \in Symbol /\ ":" \in Symbol /\ "?" \in Symbol
  /\ "!" \in Symbol /\ "-" \in Symbol /\ "/" \in Symbol /\ "{" \in Symbol
  /\ "}" \in Symbol /\ "@" \in Symbol /\ "<" \in Symbol /\ ">" \in Symbol
  /\ "|" \in Symbol /\ "table" \in Symbol /\ "tr" \in Symbol /\ "ref" \in Symbol
BY Zenon DEF Symbol, White, Punctuation, Words

LEMMA FewSymbols ==
  \A p, q, r, s \in Symbol :
    <<p>> \in Text /\ <<p, q>> \in Text /\ <<p, q, r>> \in Text /\ <<p, q, r, s>> \in Text
BY DEF Text

LEMMA JoinedTexts ==
  \A s, t \in Text : s \o t \in Text
BY ConcatProperties DEF Text

LEMMA ParagraphRulesAre == AreRules(ParagraphRules)
<1> DEFINE
  r1 == Literal(<<"cr", "nl">>, <<"nl">>)
  r2 == Literal(<<"cr">>, <<"nl">>)
  r3 == Literal(<<"<", "table", ">">>, Blank \o <<"<", "table", ">">>)
  r4 == Literal(<<"<", "/", "table", ">">>, <<"<", "/", "table", ">">> \o Blank)
  r5 == Literal(<<"<", "tr", ">">>, Blank \o <<"<", "tr", ">">>)
  r6 == Literal(<<"<", "/", "tr", ">">>, <<"<", "/", "tr", ">">> \o Blank)
  r7 == Literal(<<"{", "|">>, Blank \o <<"{", "|">>)
  r8 == Literal(<<"|", "}">>, <<"|", "}">> \o Blank)
  r9 == Literal(<<"|", "-", "nl">>, Blank \o <<"|", "-", "nl">>)
<1>1. IsRule(r1)
  <2>1. <<"cr", "nl">> \in Text /\ <<"nl">> \in Text
    BY SymbolsAre, FewSymbols, Zenon
  <2> QED
    BY <2>1, LiteralIsRule, Zenon
<1>2. IsRule(r2)
  <2>1. <<"cr">> \in Text
    BY SymbolsAre, FewSymbols, Zenon
  <2>2. <<"nl">> \in Text
    BY SymbolsAre, FewSymbols, Zenon
  <2> QED
    BY <2>1, <2>2, LiteralIsRule, Zenon
<1>3. IsRule(r3)
  <2>1. <<"<", "table", ">">> \in Text
    BY SymbolsAre, FewSymbols, Zenon
  <2>2. Blank \o <<"<", "table", ">">> \in Text
    BY <2>1, Marks, JoinedTexts, Zenon
  <2> QED
    BY <2>1, <2>2, LiteralIsRule, Zenon
<1>4. IsRule(r4)
  <2>1. <<"<", "/", "table", ">">> \in Text
    BY SymbolsAre, FewSymbols, Zenon
  <2>2. <<"<", "/", "table", ">">> \o Blank \in Text
    BY <2>1, Marks, JoinedTexts, Zenon
  <2> QED
    BY <2>1, <2>2, LiteralIsRule, Zenon
<1>5. IsRule(r5)
  <2>1. <<"<", "tr", ">">> \in Text
    BY SymbolsAre, FewSymbols, Zenon
  <2>2. Blank \o <<"<", "tr", ">">> \in Text
    BY <2>1, Marks, JoinedTexts, Zenon
  <2> QED
    BY <2>1, <2>2, LiteralIsRule, Zenon
<1>6. IsRule(r6)
  <2>1. <<"<", "/", "tr", ">">> \in Text
    BY SymbolsAre, FewSymbols, Zenon
  <2>2. <<"<", "/", "tr", ">">> \o Blank \in Text
    BY <2>1, Marks, JoinedTexts, Zenon
  <2> QED
    BY <2>1, <2>2, LiteralIsRule, Zenon
<1>7. IsRule(r7)
  <2>1. <<"{", "|">> \in Text
    BY SymbolsAre, FewSymbols, Zenon
  <2>2. Blank \o <<"{", "|">> \in Text
    BY <2>1, Marks, JoinedTexts, Zenon
  <2> QED
    BY <2>1, <2>2, LiteralIsRule, Zenon
<1>8. IsRule(r8)
  <2>1. <<"|", "}">> \in Text
    BY SymbolsAre, FewSymbols, Zenon
  <2>2. <<"|", "}">> \o Blank \in Text
    BY <2>1, Marks, JoinedTexts, Zenon
  <2> QED
    BY <2>1, <2>2, LiteralIsRule, Zenon
<1>9. IsRule(r9)
  <2>1. <<"|", "-", "nl">> \in Text
    BY SymbolsAre, FewSymbols, Zenon
  <2>2. Blank \o <<"|", "-", "nl">> \in Text
    BY <2>1, Marks, JoinedTexts, Zenon
  <2> QED
    BY <2>1, <2>2, LiteralIsRule, Zenon
<1>10. ParagraphRules = <<r1, r2, r3, r4, r5, r6, r7, r8, r9>>
  BY DEF ParagraphRules
<1> HIDE DEF r1, r2, r3, r4, r5, r6, r7, r8, r9
<1>11. Len(<<r1, r2, r3, r4, r5, r6, r7, r8, r9>>) = 9
  OBVIOUS
<1>12. ASSUME NEW k \in 1 .. 9
     PROVE  IsRule(<<r1, r2, r3, r4, r5, r6, r7, r8, r9>>[k])
  <2>1. k = 1 \/ k = 2 \/ k = 3 \/ k = 4 \/ k = 5 \/ k = 6 \/ k = 7 \/ k = 8 \/ k = 9
    OBVIOUS
  <2> QED
    BY <1>1, <1>2, <1>3, <1>4, <1>5, <1>6, <1>7, <1>8, <1>9, <2>1
<1> QED
  BY <1>10, <1>11, <1>12 DEF AreRules

LEMMA SentenceRulesAre == AreRules(SentenceRules)
<1> DEFINE
  r1 == Literal(<<"nl">>, <<"nl">> \o Mark)
  r2 == RegexDot
  r3 == Literal(<<";", "sp">>, <<";">> \o Mark)
  r4 == Literal(<<"?", "sp">>, <<"?">> \o Mark)
  r5 == Literal(<<"!", "sp">>, <<"!">> \o Mark)
  r6 == Literal(<<":", "sp">>, <<":">> \o Mark)
  r7 == Literal(<<"tab">>, <<"tab">> \o Mark)
  r8 == Literal(<<"<", "!", "-", "-">>, Mark \o <<"<", "!", "-", "-">>)
  r9 == Literal(<<"-", "-", ">">>, <<"-", "-", ">">> \o Mark)
  r10 == Literal(<<"<", "ref">>, Mark \o <<"<", "ref">>)
  r11 == Literal(<<"/", "ref", ">">>, <<"/", "ref", ">">> \o Mark)
  r12 == RegexUrl
<1>1. IsRule(r1)
  <2>1. <<"nl">> \in Text
    BY SymbolsAre, FewSymbols, Zenon
  <2>2. <<"nl">> \o Mark \in Text
    BY <2>1, Marks, JoinedTexts, Zenon
  <2> QED
    BY <2>1, <2>2, LiteralIsRule, Zenon
<1>3. IsRule(r3)
  <2>1. <<";", "sp">> \in Text /\ <<";">> \in Text
    BY SymbolsAre, FewSymbols, Zenon
  <2>2. <<";">> \o Mark \in Text
    BY <2>1, Marks, JoinedTexts, Zenon
  <2> QED
    BY <2>1, <2>2, LiteralIsRule, Zenon
<1>4. IsRule(r4)
  <2>1. <<"?", "sp">> \in Text /\ <<"?">> \in Text
    BY SymbolsAre, FewSymbols, ZenonT(40)
  <2>2. <<"?">> \o Mark \in Text
    BY <2>1, Marks, JoinedTexts, Zenon
  <2> QED
    BY <2>1, <2>2, LiteralIsRule, Zenon
<1>5. IsRule(r5)
  <2>1. <<"!", "sp">> \in Text /\ <<"!">> \in Text
    BY SymbolsAre, FewSymbols, ZenonT(40)
  <2>2. <<"!">> \o Mark \in Text
    BY <2>1, Marks, JoinedTexts, Zenon
  <2> QED
    BY <2>1, <2>2, LiteralIsRule, Zenon
<1>6. IsRule(r6)
  <2>1. <<":", "sp">> \in Text /\ <<":">> \in Text
    BY SymbolsAre, FewSymbols, ZenonT(40)
  <2>2. <<":">> \o Mark \in Text
    BY <2>1, Marks, JoinedTexts, Zenon
  <2> QED
    BY <2>1, <2>2, LiteralIsRule, Zenon
<1>7. IsRule(r7)
  <2>1. <<"tab">> \in Text
    BY SymbolsAre, FewSymbols, Zenon
  <2>2. <<"tab">> \o Mark \in Text
    BY <2>1, Marks, JoinedTexts, Zenon
  <2> QED
    BY <2>1, <2>2, LiteralIsRule, Zenon
<1>8. IsRule(r8)
  <2>1. <<"<", "!", "-", "-">> \in Text
    BY SymbolsAre, FewSymbols, Zenon
  <2>2. Mark \o <<"<", "!", "-", "-">> \in Text
    BY <2>1, Marks, JoinedTexts, Zenon
  <2> QED
    BY <2>1, <2>2, LiteralIsRule, Zenon
<1>9. IsRule(r9)
  <2>1. <<"-", "-", ">">> \in Text
    BY SymbolsAre, FewSymbols, Zenon
  <2>2. <<"-", "-", ">">> \o Mark \in Text
    BY <2>1, Marks, JoinedTexts, Zenon
  <2> QED
    BY <2>1, <2>2, LiteralIsRule, Zenon
<1>10. IsRule(r10)
  <2>1. <<"<", "ref">> \in Text
    BY SymbolsAre, FewSymbols, Zenon
  <2>2. Mark \o <<"<", "ref">> \in Text
    BY <2>1, Marks, JoinedTexts, Zenon
  <2> QED
    BY <2>1, <2>2, LiteralIsRule, Zenon
<1>11. IsRule(r11)
  <2>1. <<"/", "ref", ">">> \in Text
    BY SymbolsAre, FewSymbols, Zenon
  <2>2. <<"/", "ref", ">">> \o Mark \in Text
    BY <2>1, Marks, JoinedTexts, Zenon
  <2> QED
    BY <2>1, <2>2, LiteralIsRule, Zenon
<1>2. IsRule(r2)
  BY DEF IsRule, RegexDot, RegexUrl
<1>12. IsRule(r12)
  BY DEF IsRule, RegexDot, RegexUrl
<1>13. SentenceRules = <<r1, r2, r3, r4, r5, r6, r7, r8, r9, r10, r11, r12>>
  BY DEF SentenceRules
<1> HIDE DEF r1, r2, r3, r4, r5, r6, r7, r8, r9, r10, r11, r12
<1>14. Len(<<r1, r2, r3, r4, r5, r6, r7, r8, r9, r10, r11, r12>>) = 12
  OBVIOUS
<1>15. ASSUME NEW k \in 1 .. 12
     PROVE  IsRule(<<r1, r2, r3, r4, r5, r6, r7, r8, r9, r10, r11, r12>>[k])
  <2>1. k = 1 \/ k = 2 \/ k = 3 \/ k = 4 \/ k = 5 \/ k = 6 \/ k = 7 \/ k = 8 \/ k = 9 \/ k = 10 \/ k = 11 \/ k = 12
    OBVIOUS
  <2> QED
    BY <1>1, <1>2, <1>3, <1>4, <1>5, <1>6, <1>7, <1>8, <1>9, <1>10, <1>11, <1>12, <2>1
<1> QED
  BY <1>13, <1>14, <1>15 DEF AreRules

LEMMA MergeRulesAre ==
  ASSUME NEW n \in Nat
  PROVE  AreRules([k \in 1 .. n |-> MergeMarks])
<1>1. Mark \o Mark \in Text
  BY Marks, ConcatProperties DEF Text
<1>2. IsRule(MergeMarks)
  BY <1>1, Marks, LiteralIsRule DEF MergeMarks
<1>3. Len([k \in 1 .. n |-> MergeMarks]) = n /\ \A k \in 1 .. n : [j \in 1 .. n |-> MergeMarks][k] = MergeMarks
  OBVIOUS
<1> QED
  BY <1>2, <1>3 DEF AreRules

LEMMA TextTaken ==
  ASSUME NEW t \in Text
  PROVE  Taken(Holding(<<>>), t) = Holding(t)
<1>1. <<>> \o t = t
  BY ConcatEmptySeq DEF Text
<1> QED
  BY <1>1 DEF Taken, Holding

\* Between two calls the buffers are clean, whatever was split.
LEMMA ParagraphsAgree ==
  ASSUME NEW t \in Text
  PROVE  /\ ParagraphsOptimized(t, Holding(<<>>)) = [parts |-> ParagraphsNaive(t), buffers |-> Holding(<<>>)]
         /\ ParagraphsNaive(t) \in Parts
<1> DEFINE rewritten == RewrittenBy(ParagraphRules, t)
<1>1. RewrittenOpt(ParagraphRules, Holding(t)) = Holding(rewritten)
  BY BuffersFollow, ParagraphRulesAre
<1>2. rewritten \in Text
  BY RewrittenIsText, ParagraphRulesAre
<1> HIDE DEF rewritten
<1>3. SplitWith(Holding(rewritten), Blank) = [parts |-> Cut(rewritten, Blank), buffers |-> Holding(<<>>)]
  BY DEF SplitWith, Holding
<1>4. ParagraphsOptimized(t, Holding(<<>>)) = SplitWith(RewrittenOpt(ParagraphRules, Holding(t)), Blank)
  BY TextTaken DEF ParagraphsOptimized
<1>5. Blank # <<>>
  BY DEF Blank
<1>6. Cut(rewritten, Blank) \in Parts
  BY <1>2, <1>5, Marks, CutIsParts
<1>7. ParagraphsNaive(t) = Cut(rewritten, Blank)
  BY DEF ParagraphsNaive, rewritten
<1> QED
  BY <1>1, <1>3, <1>4, <1>6, <1>7

LEMMA SentencesAgree ==
  ASSUME NEW t \in Text
  PROVE  /\ SentencesOptimized(t, Holding(<<>>)) = [parts |-> SentencesNaive(t), buffers |-> Holding(<<>>)]
         /\ SentencesNaive(t) \in Parts
<1> DEFINE marked == RewrittenBy(SentenceRules, t)
           merges == [k \in 1 .. Rounds(marked) |-> MergeMarks]
           merged == RewrittenBy(merges, marked)
<1>1. RewrittenOpt(SentenceRules, Holding(t)) = Holding(marked)
  BY BuffersFollow, SentenceRulesAre
<1>2. marked \in Text
  BY RewrittenIsText, SentenceRulesAre
<1>3. SentencesNaive(t) = Cut(merged, Mark)
  BY DEF SentencesNaive
<1> HIDE DEF marked
<1>4. AreRules(merges)
  <2>1. Rounds(marked) \in Nat
    BY <1>2 DEF Rounds, Text
  <2> QED
    BY <2>1, MergeRulesAre
<1>5. Holding(marked).text = marked
  BY DEF Holding
<1>6. SentencesOptimized(t, Holding(<<>>)) = SplitWith(RewrittenOpt(merges, Holding(marked)), Mark)
  BY <1>1, <1>5, TextTaken DEF SentencesOptimized
<1> HIDE DEF merges
<1>7. RewrittenOpt(merges, Holding(marked)) = Holding(merged)
  BY <1>2, <1>4, BuffersFollow
<1>8. merged \in Text
  BY <1>2, <1>4, RewrittenIsText
<1> HIDE DEF merged
<1>9. SplitWith(Holding(merged), Mark) = [parts |-> Cut(merged, Mark), buffers |-> Holding(<<>>)]
  BY DEF SplitWith, Holding
<1>10. Mark # <<>>
  BY DEF Mark
<1>11. Cut(merged, Mark) \in Parts
  BY <1>8, <1>10, Marks, CutIsParts
<1> QED
  BY <1>3, <1>6, <1>7, <1>9, <1>11

-----------------------------------------------------------------------------
(* Ascending lists a set of places, each once.                             *)

Rank(places, k) == Cardinality({j \in places : j < k})

LEMMA AscendingLists ==
  ASSUME NEW n \in Nat, NEW places \in SUBSET (1 .. n)
  PROVE  /\ IsFiniteSet(places) /\ Cardinality(places) \in Nat
         /\ DOMAIN Ascending(places) = 1 .. Cardinality(places)
         /\ \A i \in 1 .. Cardinality(places) :
              Ascending(places)[i] \in places /\ Rank(places, Ascending(places)[i]) = i - 1
         /\ \A k \in places : /\ Rank(places, k) + 1 \in 1 .. Cardinality(places)
                              /\ Ascending(places)[Rank(places, k) + 1] = k
<1> DEFINE Below(k) == {j \in places : j < k}
           rank(k) == Cardinality(Below(k))
<1>1. IsFiniteSet(places)
  <2>1. IsFiniteSet(1 .. n)
    BY FS_Interval
  <2> QED
    BY <2>1, FS_Subset
<1>2. PICK N \in Nat : N = Cardinality(places)
  BY <1>1, FS_CardinalityType
<1>3. \A k \in places : k \in Nat
  OBVIOUS
<1>4. ASSUME NEW k \in places
      PROVE  IsFiniteSet(Below(k)) /\ rank(k) \in Nat /\ rank(k) < N
  <2>1. Below(k) \in SUBSET (places \ {k})
    BY <1>3
  <2>2. IsFiniteSet(places \ {k}) /\ Cardinality(places \ {k}) = N - 1
    BY <1>1, <1>2, FS_RemoveElement
  <2> HIDE DEF Below
  <2>3. IsFiniteSet(Below(k)) /\ Cardinality(Below(k)) <= N - 1
    BY <2>1, <2>2, FS_Subset
  <2>4. Cardinality(Below(k)) \in Nat
    BY <2>3, FS_CardinalityType
  <2> QED
    BY <2>3, <2>4
<1>5. ASSUME NEW c \in places, NEW d \in places, c < d
      PROVE  rank(c) < rank(d)
  <2>1. Below(c) \cup {c} \in SUBSET Below(d) /\ c \notin Below(c)
    <3>1. \A j \in places : j < c => j < d
      BY <1>3, <1>5
    <3>2. ~(c < c)
      BY <1>3
    <3> QED
      BY <1>5, <3>1, <3>2
  <2> HIDE DEF Below
  <2>2. IsFiniteSet(Below(c)) /\ IsFiniteSet(Below(d)) /\ rank(c) \in Nat /\ rank(d) \in Nat
    BY <1>4
  <2>3. Cardinality(Below(c) \cup {c}) = rank(c) + 1
    BY <2>1, <2>2, FS_AddElement
  <2>4. Cardinality(Below(c) \cup {c}) <= rank(d)
    BY <2>1, <2>2, FS_Subset
  <2> QED
    BY <2>2, <2>3, <2>4
<1>6. \A c, d \in places : c # d => rank(c) # rank(d)
  <2> SUFFICES ASSUME NEW c \in places, NEW d \in places, c # d
               PROVE  rank(c) # rank(d)
    OBVIOUS
  <2>1. c < d \/ d < c
    BY <1>3
  <2>2. rank(c) \in Nat /\ rank(d) \in Nat
    BY <1>4
  <2>3. rank(c) < rank(d) \/ rank(d) < rank(c)
    BY <1>5, <2>1
  <2> HIDE DEF rank
  <2> QED
    BY <2>2, <2>3
<1> HIDE DEF rank
<1>7. \A c \in places : rank(c) \in Nat /\ rank(c) + 1 \in 1 .. N /\ (rank(c) + 1) - 1 = rank(c)
  <2> TAKE c \in places
  <2>1. PICK r \in Nat : r = rank(c) /\ r < N
    BY <1>4 DEF rank
  <2> QED
    BY <2>1
<1>8. \A i \in 1 .. N : \E c \in places : rank(c) = i - 1
  <2> DEFINE place == [c \in places |-> rank(c) + 1]
  <2>1. place \in [places -> 1 .. N] /\ \A c \in places : place[c] = rank(c) + 1 /\ rank(c) \in Nat
    BY <1>7
  <2> HIDE DEF place
  <2>2. \A c, d \in places : place[c] = place[d] => c = d
    BY <1>6, <2>1
  <2>3. place \in Injection(places, 1 .. N)
    BY <2>1, <2>2 DEF Injection, IsInjective
  <2>4. IsFiniteSet(1 .. N) /\ Cardinality(1 .. N) = N
    BY FS_Interval
  <2>5. place \in Surjection(places, 1 .. N)
    BY <1>1, <1>2, <2>3, <2>4, FS_Injection
  <2>6. \A i \in 1 .. N : \E c \in places : place[c] = i
    BY <2>5 DEF Surjection
  <2> TAKE i \in 1 .. N
  <2>7. PICK c \in places : place[c] = i
    BY <2>6
  <2>8. rank(c) = i - 1
    BY <2>1, <2>7
  <2> QED
    BY <2>8
<1> DEFINE listed == [i \in 1 .. N |-> CHOOSE k \in places : rank(k) = i - 1]
<1>9. Ascending(places) = listed
  BY <1>2 DEF Ascending, rank
<1>10. \A i \in 1 .. N : listed[i] \in places /\ rank(listed[i]) = i - 1
  BY <1>8
<1>11. DOMAIN listed = 1 .. N
  OBVIOUS
<1> HIDE DEF listed
<1>12. ASSUME NEW k \in places
       PROVE  rank(k) + 1 \in 1 .. N /\ listed[rank(k) + 1] = k
  <2>1. PICK i \in 1 .. N : i = rank(k) + 1 /\ i - 1 = rank(k)
    BY <1>7
  <2>2. listed[i] \in places /\ rank(listed[i]) = rank(k)
    BY <1>10, <2>1
  <2>3. listed[i] = k
    BY <1>6, <2>2
  <2> QED
    BY <2>1, <2>3
<1>13. \A k : Rank(places, k) = rank(k)
  BY DEF Rank, rank
<1> QED
  BY <1>1, <1>2, <1>9, <1>10, <1>11, <1>12, <1>13

LEMMA MaxIs ==
  ASSUME NEW n \in Nat, NEW S \in SUBSET (1 .. n), S # {}
  PROVE  Max(S) \in S /\ \A y \in S : Max(S) >= y
<1> DEFINE T == {n - x : x \in S}
<1>1. T \in SUBSET Nat /\ T # {}
  <2>1. \A x \in S : n - x \in Nat
    OBVIOUS
  <2> QED
    BY <2>1
<1>2. PICK t \in T : \A y \in T : t <= y
  <2> HIDE DEF T
  <2> QED
    BY <1>1, Smallest
<1>3. PICK x \in S : t = n - x
  BY <1>2
<1>4. \A y \in S : x >= y
  <2>1. \A y \in S : n - x <= n - y
    BY <1>2, <1>3
  <2> QED
    BY <2>1
<1> QED
  BY <1>3, <1>4 DEF Max

-----------------------------------------------------------------------------
(* Parts that are ranges of their source, or strings of their own.         *)

Cows(length) ==
  {cow \in [owned : BOOLEAN, from : Nat, text : Text] :
     ~cow.owned => cow.from + Len(cow.text) <= length}

LEMMA OwnedIsCow ==
  ASSUME NEW text \in Text, NEW length \in Nat
  PROVE  Owned(text) \in Cows(length)
BY DEF Owned, Cows

LEMMA FoundInside ==
  ASSUME NEW part \in Text, NEW source \in Text, NEW place \in Nat,
         Finds(part, source, place) # {}
  PROVE  /\ Min(Finds(part, source, place)) \in Nat
         /\ Min(Finds(part, source, place)) + Len(part) <= Len(source)
         /\ StandsAt(part, Min(Finds(part, source, place)) + 1, source)
<1>1. PICK l \in Nat : l = Len(part)
  BY DEF Text
<1>2. PICK L \in Nat : L = Len(source)
  BY DEF Text
<1>3. \A at \in Finds(part, source, place) :
        at \in Nat /\ at + l <= L /\ StandsAt(part, at + 1, source)
  <2> TAKE at \in Finds(part, source, place)
  <2>1. at \in place .. L /\ StandsAt(part, at + 1, source)
    BY <1>2 DEF Finds
  <2>2. at \in Nat /\ (at + 1) + l - 1 <= L
    BY <1>1, <1>2, <2>1 DEF StandsAt
  <2> QED
    BY <2>1, <2>2
<1>4. Finds(part, source, place) \in SUBSET Nat
  BY <1>3
<1>5. Min(Finds(part, source, place)) \in Finds(part, source, place)
  BY <1>4, MinIs
<1> QED
  BY <1>1, <1>2, <1>3, <1>5

\* What is borrowed stands in the source where it is said to.
Shown(cow, source) == ~cow.owned => StandsAt(cow.text, cow.from + 1, source)

LEMMA ReborrowedShow ==
  ASSUME NEW parts \in Seq(Text), NEW source \in Text
  PROVE  /\ Reborrowed(parts, source) \in Seq(Cows(Len(source)))
         /\ Len(Reborrowed(parts, source)) = Len(parts)
         /\ \A k \in 1 .. Len(parts) : /\ Reborrowed(parts, source)[k].text = parts[k]
                                       /\ Shown(Reborrowed(parts, source)[k], source)
<1>1. PICK n \in Nat : n = Len(parts) /\ DOMAIN parts = 1 .. n
  OBVIOUS
<1>2. PICK L \in Nat : L = Len(source)
  BY DEF Text
<1> DEFINE Found(k, p) == Finds(parts[k], source, p)
           step(k, p) == IF Found(k, p) = {} THEN p ELSE Min(Found(k, p)) + Len(parts[k])
           g == [k \in 1 .. n |-> [p \in Nat |-> step(k, p)]]
           body(f) == [k \in 0 .. Len(parts) |->
                         IF k = 0 THEN 0
                         ELSE IF Found(k, f[k - 1]) = {} THEN f[k - 1]
                         ELSE Min(Found(k, f[k - 1])) + Len(parts[k])]
<1>3. \A k \in 1 .. n : parts[k] \in Text /\ Len(parts[k]) \in Nat
  BY <1>1 DEF Text
<1>4. \A k \in 1 .. n : \A p \in Nat : step(k, p) \in Nat
  <2> TAKE k \in 1 .. n
  <2> TAKE p \in Nat
  <2>1. CASE Found(k, p) = {}
    BY <2>1
  <2>2. CASE Found(k, p) # {}
    <3>1. Min(Found(k, p)) \in Nat
      BY <1>3, <2>2, FoundInside
    <3>2. Len(parts[k]) \in Nat
      BY <1>3
    <3> HIDE DEF Found
    <3> QED
      BY <2>2, <3>1, <3>2
  <2> QED
    BY <2>1, <2>2
<1>5. /\ g \in [1 .. n -> [Nat -> Nat]]
      /\ \A k \in 1 .. n : \A p \in Nat : g[k][p] = step(k, p)
  <2> HIDE DEF step
  <2> QED
    BY <1>4
<1>unfold. ASSUME NEW f, NEW k \in 0 .. n
           PROVE  body(f)[k] = IF k = 0 THEN 0 ELSE step(k, f[k - 1])
  <2> HIDE DEF Found
  <2> QED
    BY <1>1
<1> HIDE DEF g, step
<1>6. \E f : f = body(f)
  <2>1. PICK f \in [0 .. n -> Nat] : Chains(f, n, 0, g)
    BY <1>5, ChainExists
  <2>2. ASSUME NEW k \in 0 .. n
        PROVE  f[k] = body(f)[k]
    <3> HIDE DEF body
    <3>1. f[k] = IF k = 0 THEN 0 ELSE g[k][f[k - 1]]
      BY <2>1 DEF Chains
    <3>2. body(f)[k] = IF k = 0 THEN 0 ELSE step(k, f[k - 1])
      BY <1>unfold
    <3>3. CASE k = 0
      BY <3>1, <3>2, <3>3
    <3>4. CASE k # 0
      <4>1. k \in 1 .. n /\ k - 1 \in 0 .. n
        BY <3>4
      <4>2. g[k][f[k - 1]] = step(k, f[k - 1])
        BY <1>5, <2>1, <4>1
      <4> QED
        BY <3>1, <3>2, <3>4, <4>2
    <3> QED
      BY <3>3, <3>4
  <2>3. f = [k \in 0 .. n |-> f[k]] /\ body(f) = [k \in 0 .. n |-> body(f)[k]]
    BY <1>1, <2>1
  <2> HIDE DEF body
  <2> QED
    BY <2>2, <2>3
<1> DEFINE place == CHOOSE f : f = body(f)
           reborrowed == [k \in DOMAIN parts |->
                            IF Found(k, place[k - 1]) = {} THEN Owned(parts[k])
                            ELSE Borrowed(Min(Found(k, place[k - 1])), parts[k])]
<1>7. place = body(place)
  <2> HIDE DEF body
  <2> QED
    BY <1>6
<1>8. Reborrowed(parts, source) = reborrowed
  BY DEF Reborrowed
<1> HIDE DEF place
<1>9. \A k \in 0 .. n : place[k] = IF k = 0 THEN 0 ELSE step(k, place[k - 1])
  <2> HIDE DEF body
  <2> QED
    BY <1>unfold, <1>7
<1>10. \A k \in 0 .. n : place[k] \in Nat
  <2> DEFINE P == {k \in 0 .. n : place[k] \in Nat}
  <2>1. 0 \in P
    BY <1>9
  <2>2. ASSUME NEW k \in 0 .. n - 1, k \in P
        PROVE  k + 1 \in P
    <3>1. k + 1 \in 1 .. n /\ k + 1 \in 0 .. n /\ k + 1 # 0 /\ (k + 1) - 1 = k
      OBVIOUS
    <3>2. place[k + 1] = step(k + 1, place[k])
      BY <1>9, <3>1
    <3>3. step(k + 1, place[k]) \in Nat
      BY <1>4, <2>2, <3>1 DEF step
    <3> QED
      BY <3>1, <3>2, <3>3
  <2> HIDE DEF P
  <2>3. \A k \in 0 .. n : k \in P
    BY <2>1, <2>2, Upwards
  <2> QED
    BY <2>3 DEF P
<1>11. ASSUME NEW k \in 1 .. n
       PROVE  /\ reborrowed[k] \in Cows(L) /\ reborrowed[k].text = parts[k]
              /\ Shown(reborrowed[k], source)
  <2>1. k - 1 \in 0 .. n
    OBVIOUS
  <2>2. PICK p \in Nat : p = place[k - 1]
    BY <1>10, <2>1
  <2>3. CASE Found(k, p) = {}
    <3>1. reborrowed[k] = Owned(parts[k])
      BY <1>1, <2>2, <2>3
    <3>2. Owned(parts[k]).owned = TRUE /\ Owned(parts[k]).text = parts[k]
      BY DEF Owned
    <3> HIDE DEF Found, reborrowed
    <3> QED
      BY <1>3, <3>1, <3>2, OwnedIsCow DEF Shown
  <2>4. CASE Found(k, p) # {}
    <3>1. reborrowed[k] = Borrowed(Min(Found(k, p)), parts[k])
      BY <1>1, <2>2, <2>4
    <3>2. /\ Min(Found(k, p)) \in Nat /\ Min(Found(k, p)) + Len(parts[k]) <= L
          /\ StandsAt(parts[k], Min(Found(k, p)) + 1, source)
      BY <1>2, <1>3, <2>4, FoundInside
    <3> HIDE DEF Found, reborrowed
    <3>3. Borrowed(Min(Found(k, p)), parts[k]) \in Cows(L)
      BY <1>3, <3>2 DEF Borrowed, Cows
    <3>4. /\ Borrowed(Min(Found(k, p)), parts[k]).text = parts[k]
          /\ Borrowed(Min(Found(k, p)), parts[k]).from = Min(Found(k, p))
      BY DEF Borrowed
    <3> QED
      BY <3>1, <3>2, <3>3, <3>4 DEF Shown
  <2> QED
    BY <2>3, <2>4
<1>12. reborrowed = [k \in 1 .. n |-> reborrowed[k]]
  BY <1>1
<1> HIDE DEF reborrowed
<1>13. reborrowed \in Seq(Cows(L)) /\ Len(reborrowed) = n
  <2> HIDE DEF body, Found
  <2>1. \A k \in 1 .. n : reborrowed[k] \in Cows(L)
    BY <1>11
  <2> QED
    BY <1>12, <2>1
<1> QED
  BY <1>1, <1>2, <1>8, <1>11, <1>13

LEMMA ReborrowedAreCows ==
  ASSUME NEW parts \in Seq(Text), NEW source \in Text
  PROVE  Reborrowed(parts, source) \in Seq(Cows(Len(source)))
BY ReborrowedShow

LEMMA TrimmedInPlace ==
  ASSUME NEW length \in Nat, NEW cow \in Cows(length)
  PROVE  TrimInPlace(cow) \in Cows(length)
<1> DEFINE ink == {i \in DOMAIN cow.text : cow.text[i] \notin White}
<1>1. cow \in [owned : BOOLEAN, from : Nat, text : Text]
  BY DEF Cows
<1>2. PICK n \in Nat : n = Len(cow.text) /\ DOMAIN cow.text = 1 .. n /\ cow.text \in Text
  BY <1>1 DEF Text
<1>3. ~cow.owned => cow.from + n <= length
  BY <1>2 DEF Cows
<1>4. ink \in SUBSET (1 .. n)
  BY <1>2
<1>5. TrimInPlace(cow) =
        IF cow.owned \/ ink = {}
        THEN [cow EXCEPT !.text = IF ink = {} THEN <<>> ELSE SubSeq(cow.text, Min(ink), Max(ink))]
        ELSE Borrowed(cow.from + Min(ink) - 1,
                      IF ink = {} THEN <<>> ELSE SubSeq(cow.text, Min(ink), Max(ink)))
  BY DEF TrimInPlace
<1> HIDE DEF ink
<1>6. CASE ink = {}
  <2>1. <<>> \in Text /\ Len(<<>>) = 0
    BY DEF Text
  <2>2. TrimInPlace(cow) = [cow EXCEPT !.text = <<>>]
    BY <1>5, <1>6
  <2>3. [cow EXCEPT !.text = <<>>] \in [owned : BOOLEAN, from : Nat, text : Text]
    BY <1>1, <2>1
  <2>4. /\ [cow EXCEPT !.text = <<>>].owned = cow.owned
        /\ [cow EXCEPT !.text = <<>>].from = cow.from
        /\ [cow EXCEPT !.text = <<>>].text = <<>>
    BY <1>1
  <2>5. ~cow.owned => cow.from + 0 <= length
    BY <1>1, <1>3
  <2> QED
    BY <2>1, <2>2, <2>3, <2>4, <2>5 DEF Cows
<1>7. CASE ink # {}
  <2>1. PICK lo \in 1 .. n : lo = Min(ink)
    <3>1. ink \in SUBSET Nat
      BY <1>4
    <3> QED
      BY <1>4, <1>7, <3>1, MinIs
  <2>2. PICK hi \in 1 .. n : hi = Max(ink) /\ lo <= hi
    <3>1. Max(ink) \in ink /\ lo <= Max(ink)
      <4>1. ink \in SUBSET Nat
        BY <1>4
      <4> QED
        BY <1>4, <1>7, <2>1, <4>1, MinIs, MaxIs
    <3> QED
      BY <1>4, <3>1
  <2>3. PICK trimmed \in Text : /\ trimmed = SubSeq(cow.text, lo, hi)
                                /\ Len(trimmed) = hi - lo + 1
    <3>1. lo \in Int /\ hi \in Int /\ \A i \in lo .. hi : cow.text[i] \in Symbol
      BY <1>2 DEF Text
    <3> QED
      BY <2>2, <3>1, SubSeqProperties DEF Text
  <2>4. CASE cow.owned
    <3>1. TrimInPlace(cow) = [cow EXCEPT !.text = trimmed]
      BY <1>5, <1>7, <2>1, <2>2, <2>3, <2>4
    <3>2. [cow EXCEPT !.text = trimmed] \in [owned : BOOLEAN, from : Nat, text : Text]
      BY <1>1
    <3>3. [cow EXCEPT !.text = trimmed].owned = cow.owned
      BY <1>1
    <3> QED
      BY <2>4, <3>1, <3>2, <3>3 DEF Cows
  <2>5. CASE ~cow.owned
    <3>1. TrimInPlace(cow) = Borrowed(cow.from + lo - 1, trimmed)
      BY <1>5, <1>7, <2>1, <2>2, <2>3, <2>5
    <3>2. cow.from + lo - 1 \in Nat
      BY <1>1
    <3>3. (cow.from + lo - 1) + Len(trimmed) <= length
      BY <1>1, <1>3, <2>3, <2>5
    <3> QED
      BY <3>1, <3>2, <3>3 DEF Borrowed, Cows
  <2> QED
    BY <2>4, <2>5
<1> QED
  BY <1>6, <1>7

LEMMA TrimmedAreCows ==
  ASSUME NEW length \in Nat, NEW cows \in Seq(Cows(length))
  PROVE  Trimmed(cows) \in Seq(Cows(length))
<1>1. PICK n \in Nat : n = Len(cows) /\ DOMAIN cows = 1 .. n
  OBVIOUS
<1> DEFINE trimmed == [k \in DOMAIN cows |-> TrimInPlace(cows[k])]
           inked == {k \in DOMAIN cows : trimmed[k].text # <<>>}
           kept == Ascending(inked)
<1>2. \A k \in 1 .. n : trimmed[k] \in Cows(length)
  <2>1. \A k \in 1 .. n : cows[k] \in Cows(length)
    BY <1>1
  <2> QED
    BY <1>1, <2>1, TrimmedInPlace
<1>3. inked \in SUBSET (1 .. n)
  BY <1>1
<1>4. Trimmed(cows) = [i \in DOMAIN kept |-> trimmed[kept[i]]]
  BY DEF Trimmed
<1> HIDE DEF trimmed, inked
<1>5. PICK m \in Nat : DOMAIN kept = 1 .. m /\ \A i \in 1 .. m : kept[i] \in 1 .. n
  BY <1>3, AscendingLists
<1> HIDE DEF kept
<1>6. \A i \in 1 .. m : trimmed[kept[i]] \in Cows(length)
  BY <1>2, <1>5
<1> QED
  BY <1>4, <1>5, <1>6

-----------------------------------------------------------------------------
(* Sequences put together.                                                 *)

\* f[k] is what the first k sequences of s are put together.
Joins(f, s) == f[0] = <<>> /\ \A k \in 1 .. Len(s) : f[k] = f[k - 1] \o s[k]

LEMMA Flattened ==
  ASSUME NEW S, NEW s \in Seq(Seq(S))
  PROVE  \E f \in [0 .. Len(s) -> Seq(S)] : Joins(f, s) /\ FlattenSeq(s) = f[Len(s)]
<1>1. PICK n \in Nat : n = Len(s) /\ DOMAIN s = 1 .. n
  OBVIOUS
<1> DEFINE g == [k \in 1 .. n |-> [v \in Seq(S) |-> v \o s[k]]]
<1>2. <<>> \in Seq(S) /\ \A k \in 1 .. n : s[k] \in Seq(S)
  BY <1>1
<1>3. /\ g \in [1 .. n -> [Seq(S) -> Seq(S)]]
      /\ \A k \in 1 .. n : \A v \in Seq(S) : g[k][v] = v \o s[k]
  BY <1>2
<1> HIDE DEF g
<1>4. PICK f \in [0 .. n -> Seq(S)] : Chains(f, n, <<>>, g)
  BY <1>2, <1>3, ChainExists
<1>5. \A k \in 0 .. n : f[k] = IF k = 0 THEN <<>> ELSE g[k][f[k - 1]]
  BY <1>4 DEF Chains
<1>zero. f[0] = <<>>
  <2>1. 0 \in 0 .. n
    OBVIOUS
  <2> QED
    BY <1>5, <2>1
<1>6. ASSUME NEW k \in 1 .. n
      PROVE  f[k] = f[k - 1] \o s[k]
  <2>1. k \in 0 .. n /\ k # 0 /\ k - 1 \in 0 .. n
    OBVIOUS
  <2>2. f[k] = g[k][f[k - 1]] /\ f[k - 1] \in Seq(S)
    BY <1>4, <1>5, <2>1
  <2> QED
    BY <1>3, <2>2
<1>7. Joins(f, s)
  BY <1>1, <1>zero, <1>6 DEF Joins
<1>8. CASE n = 0
  <2>1. s = <<>>
    BY <1>1, <1>8
  <2>2. FlattenSeq(s) = s
    BY <1>1, <1>8, Zenon DEF FlattenSeq
  <2> QED
    BY <1>1, <1>zero, <1>4, <1>7, <1>8, <2>1, <2>2
<1>9. CASE n # 0
  <2> DEFINE body(h) == [k \in 1 .. Len(s) |-> IF k = 1 THEN s[k] ELSE h[k - 1] \o s[k]]
             flatten == CHOOSE h : h = body(h)
  <2>1. \E h : h = body(h)
    <3> DEFINE h == [k \in 1 .. n |-> f[k]]
    <3>1. ASSUME NEW k \in 1 .. n
          PROVE  h[k] = body(h)[k]
      <4>1. body(h)[k] = IF k = 1 THEN s[k] ELSE h[k - 1] \o s[k]
        BY <1>1
      <4>2. CASE k = 1
        <5>1. f[0] = <<>> /\ k - 1 = 0
          BY <1>zero, <4>2
        <5>2. f[k] = <<>> \o s[k]
          BY <1>6, <5>1
        <5>3. <<>> \o s[k] = s[k]
          BY <1>2, ConcatEmptySeq
        <5> HIDE DEF body
        <5> QED
          BY <4>1, <4>2, <5>2, <5>3
      <4>3. CASE k # 1
        <5>1. k - 1 \in 1 .. n
          BY <4>3
        <5>2. h[k - 1] = f[k - 1] /\ h[k] = f[k]
          BY <5>1
        <5> HIDE DEF body, h
        <5> QED
          BY <1>6, <4>1, <4>3, <5>2
      <4> QED
        BY <4>2, <4>3
    <3>2. h = [k \in 1 .. n |-> h[k]] /\ body(h) = [k \in 1 .. n |-> body(h)[k]]
      BY <1>1
    <3> HIDE DEF body, h
    <3> QED
      BY <3>1, <3>2
  <2>2. flatten = body(flatten)
    <3> HIDE DEF body
    <3> QED
      BY <2>1
  <2>3. FlattenSeq(s) = flatten[n]
    <3>1. Len(s) # 0
      BY <1>1, <1>9
    <3>2. FlattenSeq(s) = flatten[Len(s)]
      BY <3>1, Zenon DEF FlattenSeq
    <3> QED
      BY <1>1, <3>2
  <2> HIDE DEF flatten
  <2>4. \A k \in 1 .. n : flatten[k] = IF k = 1 THEN s[k] ELSE flatten[k - 1] \o s[k]
    <3>1. \A k \in 1 .. n : flatten[k] = body(flatten)[k]
      <4> HIDE DEF body
      <4> QED
        BY <2>2
    <3> QED
      BY <1>1, <3>1
  <2> HIDE DEF body
  <2> DEFINE P == {k \in 0 .. n : k = 0 \/ flatten[k] = f[k]}
  <2>5. 0 \in P
    OBVIOUS
  <2>6. ASSUME NEW k \in 0 .. n - 1, k \in P
        PROVE  k + 1 \in P
    <3>1. k + 1 \in 1 .. n /\ (k + 1) - 1 = k /\ k + 1 \in 0 .. n
      OBVIOUS
    <3>2. f[k + 1] = f[k] \o s[k + 1]
      BY <1>6, <3>1
    <3>3. flatten[k + 1] = IF k + 1 = 1 THEN s[k + 1] ELSE flatten[k] \o s[k + 1]
      BY <2>4, <3>1
    <3>4. CASE k = 0
      <4>1. f[0] = <<>> /\ s[k + 1] \in Seq(S)
        BY <1>2, <1>zero, <3>1
      <4>2. <<>> \o s[k + 1] = s[k + 1]
        BY <4>1, ConcatEmptySeq
      <4>3. flatten[k + 1] = f[k + 1]
        BY <3>2, <3>3, <3>4, <4>1, <4>2
      <4> QED
        BY <3>1, <4>3
    <3>5. CASE k # 0
      <4>1. flatten[k] = f[k] /\ k + 1 # 1
        BY <2>6, <3>5
      <4>2. flatten[k + 1] = f[k + 1]
        BY <3>2, <3>3, <4>1
      <4> QED
        BY <3>1, <4>2
    <3> QED
      BY <3>4, <3>5
  <2>7. n \in P
    <3> HIDE DEF P
    <3>1. \A k \in 0 .. n : k \in P
      BY <2>5, <2>6, Upwards
    <3> QED
      BY <3>1
  <2> QED
    BY <1>1, <1>4, <1>7, <1>9, <2>3, <2>7
<1> QED
  BY <1>8, <1>9

LEMMA FlattenedType ==
  ASSUME NEW S, NEW s \in Seq(Seq(S))
  PROVE  FlattenSeq(s) \in Seq(S)
<1>1. Len(s) \in 0 .. Len(s)
  OBVIOUS
<1> QED
  BY <1>1, Flattened

\* What the sequences before the k-th are put together, and with it.
LEMMA PrefixFlattened ==
  ASSUME NEW S, NEW s \in Seq(Seq(S)), NEW f \in [0 .. Len(s) -> Seq(S)], Joins(f, s),
         NEW k \in 0 .. Len(s)
  PROVE  FlattenSeq(SubSeq(s, 1, k)) = f[k]
<1>1. PICK n \in Nat : n = Len(s) /\ DOMAIN s = 1 .. n
  OBVIOUS
<1> DEFINE p == SubSeq(s, 1, k)
<1>2. /\ p \in Seq(Seq(S)) /\ Len(p) = k
      /\ \A i \in 1 .. k : p[i] = s[i]
  <2>1. 1 \in Int /\ k \in Int /\ \A i \in 1 .. k : s[i] \in Seq(S)
    BY <1>1
  <2>2. p \in Seq(Seq(S))
    BY <2>1, SubSeqProperties
  <2> QED
    BY <1>1, <2>2
<1> HIDE DEF p
<1>3. PICK h \in [0 .. k -> Seq(S)] : Joins(h, p) /\ FlattenSeq(p) = h[k]
  BY <1>2, Flattened
<1> DEFINE P == {i \in 0 .. k : h[i] = f[i]}
<1>4. 0 \in P
  BY <1>3 DEF Joins
<1>5. ASSUME NEW i \in 0 .. k - 1, i \in P
      PROVE  i + 1 \in P
  <2>1. i + 1 \in 1 .. k /\ i + 1 \in 1 .. n /\ (i + 1) - 1 = i /\ i + 1 \in 0 .. k
    BY <1>1
  <2>2. h[i + 1] = h[i] \o p[i + 1]
    BY <1>2, <1>3, <2>1 DEF Joins
  <2>3. f[i + 1] = f[i] \o s[i + 1]
    BY <1>1, <2>1 DEF Joins
  <2>4. h[i] = f[i] /\ p[i + 1] = s[i + 1]
    BY <1>2, <1>5, <2>1
  <2> QED
    BY <2>1, <2>2, <2>3, <2>4
<1>6. k \in P
  <2> HIDE DEF P
  <2>1. k \in Nat
    BY <1>1
  <2>2. \A i \in 0 .. k : i \in P
    BY <1>4, <1>5, <2>1, Upwards
  <2> QED
    BY <2>1, <2>2
<1> QED
  BY <1>3, <1>6 DEF p

\* The place of the k-th sequence in the whole.
LEMMA PlacesInFlattened ==
  ASSUME NEW S, NEW s \in Seq(Seq(S)), NEW k \in 1 .. Len(s)
  PROVE  /\ FlattenSeq(s) \in Seq(S) /\ Len(FlattenSeq(SubSeq(s, 1, k - 1))) \in Nat
         /\ Len(FlattenSeq(SubSeq(s, 1, k - 1))) + Len(s[k]) <= Len(FlattenSeq(s))
<1>1. PICK n \in Nat : n = Len(s) /\ DOMAIN s = 1 .. n
  OBVIOUS
<1>2. PICK f \in [0 .. n -> Seq(S)] : Joins(f, s) /\ FlattenSeq(s) = f[n]
  BY <1>1, Flattened
<1> DEFINE len == [i \in 0 .. n |-> Len(f[i])]
<1>3. len \in [0 .. n -> Nat] /\ \A i \in 0 .. n : len[i] = Len(f[i])
  BY <1>2
<1> HIDE DEF len
<1>4. ASSUME NEW i \in 1 .. n
      PROVE  len[i] = len[i - 1] + Len(s[i]) /\ Len(s[i]) \in Nat
  <2>1. i - 1 \in 0 .. n /\ i \in 0 .. n
    OBVIOUS
  <2>a. i \in 1 .. Len(s) /\ i \in DOMAIN s
    BY <1>1
  <2>b. f[i] = f[i - 1] \o s[i]
    BY <1>2, <2>a DEF Joins
  <2>2. f[i - 1] \in Seq(S) /\ s[i] \in Seq(S) /\ f[i] = f[i - 1] \o s[i]
    BY <1>2, <2>1, <2>a, <2>b
  <2>3. Len(f[i]) = Len(f[i - 1]) + Len(s[i])
    BY <2>2, ConcatProperties
  <2>4. len[i - 1] = Len(f[i - 1]) /\ len[i] = Len(f[i])
    BY <1>3, <2>1
  <2>5. Len(s[i]) \in Nat
    BY <2>2
  <2> QED
    BY <2>3, <2>4, <2>5
<1> DEFINE P == {j \in 0 .. n : j >= k => len[k] <= len[j]}
<1>k. k \in Nat /\ k \in 0 .. n /\ k # 0 /\ len[k] \in Nat
  BY <1>1, <1>3
<1>5. 0 \in P
  BY <1>k
<1>6. ASSUME NEW j \in 0 .. n - 1, j \in P
      PROVE  j + 1 \in P
  <2>1. PICK q \in 1 .. n : q = j + 1 /\ q - 1 = j /\ j \in 0 .. n /\ q \in 0 .. n
    OBVIOUS
  <2>2. len[q] = len[j] + Len(s[q]) /\ Len(s[q]) \in Nat
    BY <1>4, <2>1
  <2>3. len[j] \in Nat /\ len[q] \in Nat
    BY <1>3, <2>1
  <2>4. ASSUME q >= k
        PROVE  len[k] <= len[q]
    <3>1. CASE j >= k
      <4>1. len[k] <= len[j]
        BY <1>6, <3>1
      <4>2. \A x, y, z \in Nat : x <= y => x <= y + z
        OBVIOUS
      <4>3. len[k] <= len[j] + Len(s[q])
        BY <1>k, <2>2, <2>3, <4>1, <4>2
      <4> QED
        BY <2>2, <4>3
    <3>2. CASE q = k
      BY <1>k, <3>2
    <3> QED
      BY <1>k, <2>1, <2>4, <3>1, <3>2
  <2>5. q \in P
    BY <2>1, <2>4
  <2> QED
    BY <2>1, <2>5
<1>8. n \in P
  <2> HIDE DEF P
  <2>1. \A j \in 0 .. n : j \in P
    BY <1>5, <1>6, Upwards
  <2> QED
    BY <2>1
<1>9. len[k] <= len[n]
  BY <1>1, <1>8
<1>10. FlattenSeq(SubSeq(s, 1, k - 1)) = f[k - 1]
  <2>1. k - 1 \in 0 .. Len(s)
    BY <1>1
  <2> QED
    BY <1>1, <1>2, <2>1, PrefixFlattened
<1>11. k \in 1 .. n /\ k - 1 \in 0 .. n /\ n \in 0 .. n
  BY <1>1
<1>12. len[k] = len[k - 1] + Len(s[k]) /\ len[k - 1] = Len(f[k - 1]) /\ len[n] = Len(f[n])
  BY <1>3, <1>4, <1>11
<1>13. f[n] \in Seq(S) /\ len[k - 1] \in Nat
  BY <1>2, <1>3, <1>11
<1> QED
  BY <1>2, <1>9, <1>10, <1>12, <1>13

-----------------------------------------------------------------------------
(* Tokens.                                                                 *)

LEMMA CompositesAre ==
  \A c \in Composites : Len(c) \in Nat \ {0}
<1>1. \A p, q, r, s \in Symbol : <<p, q>> # <<>> /\ <<p, q, r>> # <<>> /\ <<p, q, r, s>> # <<>>
  OBVIOUS
<1>2. "[" \in Symbol /\ "]" \in Symbol
  BY Zenon DEF Symbol, Punctuation
<1> DEFINE Full == Text \ {<<>>}
<1>3. \A p, q, r, s \in Symbol : <<p, q>> \in Full /\ <<p, q, r>> \in Full /\ <<p, q, r, s>> \in Full
  BY <1>1, FewSymbols
<1>4. \A c \in Full : c \in Text /\ c # <<>>
  OBVIOUS
<1> HIDE DEF Full
<1>5. <<"<", "!", "-", "-">> \in Full /\ <<"-", "-", ">">> \in Full
  BY <1>3, SymbolsAre, Zenon
<1>6. <<"[", "[">> \in Full /\ <<"]", "]">> \in Full /\ <<"{", "{">> \in Full /\ <<"}", "}">> \in Full
  BY <1>2, <1>3, SymbolsAre, Zenon
<1>7. \A c \in Composites : c \in Full
  BY <1>5, <1>6, Zenon DEF Composites
<1> HIDE DEF Composites
<1> QED
  BY <1>4, <1>7, EmptySeq DEF Text

LEMMA PatternInText ==
  ASSUME NEW t \in Text, NEW i \in 1 .. Len(t)
  PROVE  PatternAt(i, t) \in Nat /\ i + PatternAt(i, t) <= Len(t) + 1
<1>1. PICK L \in Nat : L = Len(t)
  BY DEF Text
<1>2. CASE \E c \in Composites : StandsAt(c, i, t)
  <2>1. PICK c \in Composites : StandsAt(c, i, t) /\ PatternAt(i, t) = Len(c)
    BY <1>2, Zenon DEF PatternAt
  <2>2. PICK n \in Nat : n = Len(c)
    BY CompositesAre
  <2>3. i + n - 1 <= L
    BY <1>1, <2>1, <2>2 DEF StandsAt
  <2> QED
    BY <1>1, <2>1, <2>2, <2>3
<1>3. CASE ~ \E c \in Composites : StandsAt(c, i, t)
  <2>1. PatternAt(i, t) = 1 \/ PatternAt(i, t) = 0
    BY <1>3, Zenon DEF PatternAt
  <2> QED
    BY <1>1, <2>1
<1> QED
  BY <1>2, <1>3

\* A token, or a separator, ends before the next pattern.
TokenEnd(t, i) ==
  IF PatternAt(i, t) > 0 THEN i + PatternAt(i, t)
  ELSE Min({j \in i .. Len(t) : PatternAt(j, t) > 0} \cup {Len(t) + 1})

TokensHere(t, i) ==
  IF t[i] \in Separators THEN <<>> ELSE <<SubSeq(t, i, TokenEnd(t, i) - 1)>>

TokensFrom(f, t) ==
  \A i \in 1 .. Len(t) + 1 :
    f[i] = IF i > Len(t) THEN <<>> ELSE TokensHere(t, i) \o f[TokenEnd(t, i)]

LEMMA TokenEnds ==
  ASSUME NEW t \in Text, NEW i \in 1 .. Len(t)
  PROVE  TokenEnd(t, i) \in Nat /\ i < TokenEnd(t, i) /\ TokenEnd(t, i) <= Len(t) + 1
<1>1. PICK L \in Nat : L = Len(t)
  BY DEF Text
<1> DEFINE n == PatternAt(i, t)
           later == {j \in i .. L : PatternAt(j, t) > 0} \cup {L + 1}
<1>2. n \in Nat /\ i + n <= L + 1
  BY <1>1, PatternInText
<1>3. CASE n > 0
  <2>1. TokenEnd(t, i) = i + n
    BY <1>3 DEF TokenEnd
  <2> HIDE DEF n
  <2> QED
    BY <1>1, <1>2, <1>3, <2>1
<1>4. CASE ~(n > 0)
  <2>1. TokenEnd(t, i) = Min(later)
    BY <1>1, <1>4 DEF TokenEnd
  <2>2. later \in SUBSET Nat /\ later # {} /\ \A j \in later : j # i /\ i <= j /\ j <= L + 1
    <3>1. \A j \in i .. L : PatternAt(j, t) > 0 => j # i
      BY <1>4
    <3> QED
      BY <1>1, <3>1
  <2> HIDE DEF later
  <2>3. Min(later) \in later
    BY <2>2, MinIs
  <2>4. PICK q \in later : q = TokenEnd(t, i)
    BY <2>1, <2>3
  <2>5. q \in Nat /\ q # i /\ i <= q /\ q <= L + 1
    BY <2>2, <2>4
  <2>6. i < q
    BY <2>5
  <2> QED
    BY <1>1, <2>4, <2>5, <2>6
<1> QED
  BY <1>3, <1>4

LEMMA TokensScan ==
  ASSUME NEW t \in Text
  PROVE  \E f : /\ TokensFrom(f, t) /\ TokensCorasick(t) = f[1]
                /\ \A i \in 1 .. Len(t) + 1 : f[i] \in Seq(Text)
<1>1. PICK L \in Nat : L = Len(t)
  BY DEF Text
<1> DEFINE after(i) == TokenEnd(t, i)
           piece(i) == TokensHere(t, i)
           next == [i \in 1 .. L |-> after(i)]
           g == [i \in 1 .. L |-> [rest \in Seq(Text) |-> piece(i) \o rest]]
           body(f) == [i \in 1 .. Len(t) + 1 |->
                         IF i > Len(t) THEN <<>>
                         ELSE LET m == PatternAt(i, t)
                                  then == IF m > 0 THEN i + m
                                          ELSE Min({j \in i .. Len(t) : PatternAt(j, t) > 0} \cup {Len(t) + 1})
                              IN (IF t[i] \in Separators THEN <<>> ELSE <<SubSeq(t, i, then - 1)>>)
                                   \o f[then]]
<1>2. \A i \in 1 .. L : after(i) \in Nat /\ i < after(i) /\ after(i) <= L + 1
  BY <1>1, TokenEnds
<1>unfold. ASSUME NEW f, NEW i \in 1 .. L + 1
           PROVE  body(f)[i] = IF i > L THEN <<>> ELSE piece(i) \o f[after(i)]
  BY <1>1 DEF TokenEnd, TokensHere
<1> HIDE DEF after
<1>3. \A i \in 1 .. L : piece(i) \in Seq(Text)
  <2> TAKE i \in 1 .. L
  <2>1. PICK m \in Nat : m = after(i) - i /\ i + m <= L + 1 /\ i + m - 1 = after(i) - 1
    <3>1. PICK q \in Nat : q = after(i) /\ i < q /\ q <= L + 1
      BY <1>2
    <3>2. q - i \in Nat /\ i + (q - i) <= L + 1 /\ i + (q - i) - 1 = q - 1
      BY <3>1
    <3> QED
      BY <3>1, <3>2
  <2>2. SubSeq(t, i, i + m - 1) \in Text
    BY <1>1, <2>1, PartOfText
  <2>3. SubSeq(t, i, after(i) - 1) \in Text
    BY <2>1, <2>2
  <2> QED
    BY <2>3 DEF TokensHere, after
<1>4. Jumps(next, L)
  <2>1. \A i \in 1 .. L : next[i] = after(i)
    OBVIOUS
  <2>2. next \in [1 .. L -> Nat]
    BY <1>2
  <2> HIDE DEF next
  <2> QED
    BY <1>2, <2>1, <2>2 DEF Jumps
<1>5. /\ g \in [1 .. L -> [Seq(Text) -> Seq(Text)]]
      /\ \A i \in 1 .. L : \A rest \in Seq(Text) : g[i][rest] = piece(i) \o rest
  <2> HIDE DEF piece
  <2>1. \A i \in 1 .. L : \A rest \in Seq(Text) : piece(i) \o rest \in Seq(Text)
    BY <1>3
  <2> QED
    BY <2>1
<1>6. \A i \in 1 .. L : next[i] = after(i)
  OBVIOUS
<1> HIDE DEF piece, next, g
<1>7. ASSUME NEW i \in 1 .. L
      PROVE  next[i] \in 1 .. L + 1
  BY <1>4 DEF Jumps
<1>8. \E f : f = body(f)
  <2>1. PICK f \in [1 .. L + 1 -> Seq(Text)] : Scans(f, L, <<>>, next, g)
    <3>1. <<>> \in Seq(Text)
      OBVIOUS
    <3> QED
      BY <1>4, <1>5, <3>1, ScanExists
  <2>2. ASSUME NEW i \in 1 .. L + 1
        PROVE  f[i] = body(f)[i]
    <3>1. f[i] = IF i > L THEN <<>> ELSE g[i][f[next[i]]]
      BY <2>1 DEF Scans
    <3>2. i <= L => g[i][f[next[i]]] = piece(i) \o f[after(i)]
      <4> HAVE i <= L
      <4>1. i \in 1 .. L
        OBVIOUS
      <4>2. f[next[i]] \in Seq(Text)
        BY <1>7, <2>1, <4>1
      <4>3. g[i][f[next[i]]] = piece(i) \o f[next[i]]
        BY <1>5, <4>1, <4>2
      <4> QED
        BY <1>6, <4>1, <4>3
    <3> HIDE DEF body
    <3>3. body(f)[i] = IF i > L THEN <<>> ELSE piece(i) \o f[after(i)]
      BY <1>unfold
    <3>4. CASE i > L
      BY <3>1, <3>3, <3>4
    <3>5. CASE i <= L
      <4>1. ~(i > L)
        BY <3>5
      <4> QED
        BY <3>1, <3>2, <3>3, <3>5, <4>1
    <3> QED
      BY <3>4, <3>5
  <2>3. f = [i \in 1 .. L + 1 |-> f[i]] /\ body(f) = [i \in 1 .. L + 1 |-> body(f)[i]]
    BY <1>1, <2>1
  <2> HIDE DEF body
  <2> QED
    BY <2>2, <2>3
<1> DEFINE from == CHOOSE f : f = body(f)
<1>9. from = body(from)
  <2> HIDE DEF body
  <2> QED
    BY <1>8
<1>10. TokensCorasick(t) = from[1]
  BY DEF TokensCorasick
<1> HIDE DEF from
<1>11. \A i \in 1 .. L + 1 : from[i] = IF i > L THEN <<>> ELSE piece(i) \o from[after(i)]
  <2> HIDE DEF body
  <2> QED
    BY <1>unfold, <1>9
<1> HIDE DEF body
<1> DEFINE P == {i \in 1 .. L + 1 : from[i] \in Seq(Text)}
<1>12. L + 1 \in P
  <2>1. PICK q \in 1 .. L + 1 : q = L + 1 /\ q > L
    OBVIOUS
  <2>2. from[q] = <<>>
    BY <1>11, <2>1
  <2>3. from[q] \in Seq(Text)
    BY <2>2
  <2>4. q \in P
    BY <2>3
  <2> QED
    BY <2>1, <2>4
<1>13. ASSUME NEW i \in 1 .. L, next[i] \in P
       PROVE  i \in P
  <2>1. from[after(i)] \in Seq(Text) /\ piece(i) \in Seq(Text)
    BY <1>3, <1>6, <1>13
  <2>2. i \in 1 .. L + 1 /\ ~(i > L)
    OBVIOUS
  <2>3. from[i] = piece(i) \o from[after(i)]
    BY <1>11, <2>2
  <2>4. piece(i) \o from[after(i)] \in Seq(Text)
    BY <2>1
  <2> QED
    BY <2>2, <2>3, <2>4
<1>14. \A i \in 1 .. L + 1 : from[i] \in Seq(Text)
  <2> HIDE DEF P
  <2>1. \A i \in 1 .. L + 1 : i \in P
    BY <1>4, <1>12, <1>13, Downwards
  <2> QED
    BY <2>1 DEF P
<1> HIDE DEF P
<1>15. TokensFrom(from, t)
  BY <1>1, <1>11 DEF TokensFrom, after, piece
<1> QED
  BY <1>1, <1>10, <1>14, <1>15

LEMMA TokensAreTexts ==
  ASSUME NEW t \in Text
  PROVE  TokensCorasick(t) \in Seq(Text)
<1>1. PICK L \in Nat : L = Len(t)
  BY DEF Text
<1>2. 1 \in 1 .. L + 1
  BY <1>1
<1> QED
  BY <1>1, <1>2, TokensScan

LEMMA CleanedIsCow ==
  ASSUME NEW length \in Nat, NEW cow \in Cows(length)
  PROVE  Cleaned(cow) \in Cows(length)
<1> DEFINE tokens == TokensCorasick(cow.text)
           spaced == [k \in DOMAIN tokens |-> IF k = 1 THEN tokens[k] ELSE <<"sp">> \o tokens[k]]
<1>1. cow.text \in Text
  BY DEF Cows
<1>2. tokens \in Seq(Text)
  BY <1>1, TokensAreTexts
<1>3. JoinedTokens(cow.text) = FlattenSeq(spaced)
  BY DEF JoinedTokens
<1> HIDE DEF tokens
<1>4. spaced \in Seq(Text)
  <2>1. PICK n \in Nat : DOMAIN tokens = 1 .. n /\ \A k \in 1 .. n : tokens[k] \in Text
    BY <1>2
  <2>2. \A k \in 1 .. n : <<"sp">> \o tokens[k] \in Text
    <3>1. <<"sp">> \in Text
      BY Marks DEF Text
    <3> QED
      BY <2>1, <3>1, JoinedTexts
  <2>3. \A k \in 1 .. n : spaced[k] \in Text
    BY <2>1, <2>2
  <2>4. spaced = [k \in 1 .. n |-> spaced[k]]
    BY <2>1
  <2> HIDE DEF spaced
  <2> QED
    BY <2>3, <2>4
<1> HIDE DEF spaced
<1>5. JoinedTokens(cow.text) \in Text
  BY <1>3, <1>4, FlattenedType DEF Text
<1> QED
  BY <1>5, OwnedIsCow DEF Cleaned

-----------------------------------------------------------------------------
(* Words.                                                                  *)

\* The parts of a text of n symbols have their places in it, with one symbol
\* between a part and the next.
Places(st, parts, n) ==
  /\ st \in [1 .. Len(parts) -> Nat] /\ st[1] = 0
  /\ \A k \in 1 .. Len(parts) : k # 1 => st[k] = st[k - 1] + Len(parts[k - 1]) + 1
  /\ \A k \in 1 .. Len(parts) : st[k] + Len(parts[k]) <= n

LEMMA PartsAre ==
  ASSUME NEW parts \in Parts
  PROVE  /\ Len(parts) \in Nat \ {0} /\ DOMAIN parts = 1 .. Len(parts)
         /\ \A k \in 1 .. Len(parts) : parts[k] \in Text /\ Len(parts[k]) \in Nat
<1>1. parts \in Seq(Text) /\ parts # <<>>
  BY DEF Parts
<1> QED
  BY <1>1, EmptySeq DEF Text

LEMMA OneBefore ==
  ASSUME NEW S, NEW x \in S, NEW s \in Seq(S)
  PROVE  /\ <<x>> \o s \in Seq(S) /\ Len(<<x>> \o s) = Len(s) + 1 /\ (<<x>> \o s)[1] = x
         /\ \A k \in 1 .. Len(s) + 1 : k # 1 => (<<x>> \o s)[k] = s[k - 1]
<1> DEFINE one == <<x>>
<1>1. one \in Seq(S) /\ Len(one) = 1 /\ one[1] = x
  OBVIOUS
<1> HIDE DEF one
<1>2. PICK n \in Nat : n = Len(s)
  OBVIOUS
<1>3. /\ one \o s \in Seq(S) /\ Len(one \o s) = 1 + n
      /\ \A i \in 1 .. 1 + n : (one \o s)[i] = IF i <= 1 THEN one[i] ELSE s[i - 1]
  <2>1. /\ one \o s \in Seq(S) /\ Len(one \o s) = Len(one) + Len(s)
        /\ \A i \in 1 .. Len(one) + Len(s) :
             (one \o s)[i] = IF i <= Len(one) THEN one[i] ELSE s[i - Len(one)]
    BY <1>1, ConcatProperties, Zenon
  <2> QED
    BY <1>1, <1>2, <2>1
<1>4. \A i \in 1 .. n + 1 : i \in 1 .. 1 + n /\ (i # 1 => ~(i <= 1))
  OBVIOUS
<1>5. 1 \in 1 .. 1 + n
  OBVIOUS
<1> QED
  BY <1>1, <1>2, <1>3, <1>4, <1>5 DEF one

\* A text from a place on.
Rest(t, i) == SubSeq(t, i, Len(t))

LEMMA RestIs ==
  ASSUME NEW t \in Text
  PROVE  /\ Rest(t, 1) = t /\ Rest(t, Len(t) + 1) = <<>>
         /\ \A i \in 1 .. Len(t) + 1 : Rest(t, i) \in Text
         /\ \A i \in 1 .. Len(t) : t[i] \in Symbol /\ Rest(t, i) = <<t[i]>> \o Rest(t, i + 1)
<1>1. PICK L \in Nat : L = Len(t) /\ DOMAIN t = 1 .. L /\ t \in Seq(Symbol)
  BY DEF Text
<1>2. SubSeq(t, 1, L) = t
  BY <1>1, SubSeqFull
<1>3. SubSeq(t, L + 1, L) = <<>>
  BY <1>1, SubSeqEmpty
<1>4. ASSUME NEW i \in 1 .. L + 1
      PROVE  SubSeq(t, i, L) \in Text
  <2>1. i \in Int /\ L \in Int /\ \A k \in i .. L : t[k] \in Symbol
    BY <1>1
  <2> QED
    BY <2>1, SubSeqProperties DEF Text
<1>5. ASSUME NEW i \in 1 .. L
      PROVE  t[i] \in Symbol /\ SubSeq(t, i, L) = <<t[i]>> \o SubSeq(t, i + 1, L)
  <2>1. i \in 1 .. Len(t) /\ L \in i .. Len(t)
    BY <1>1
  <2>2. SubSeq(t, i, L) = <<t[i]>> \o SubSeq(t, i + 1, L)
    BY <1>1, <2>1, SubSeqRecursiveFirst
  <2> QED
    BY <1>1, <2>2
<1> QED
  BY <1>1, <1>2, <1>3, <1>4, <1>5 DEF Rest

\* There they stand in it.
Shows(st, parts, t) == \A k \in 1 .. Len(parts) : StandsAt(parts[k], st[k] + 1, t)

LEMMA StandsLater ==
  ASSUME NEW s \in Symbol, NEW x \in Text
  PROVE  /\ \A p : StandsAt(<<>>, 1, <<s>> \o x)
         /\ \A part \in Text : \A i \in Nat :
              StandsAt(part, i + 1, x) => StandsAt(part, i + 1 + 1, <<s>> \o x)
         /\ \A part \in Text : StandsAt(part, 1, x) => StandsAt(<<s>> \o part, 1, <<s>> \o x)
<1>1. ASSUME NEW y \in Text
      PROVE  /\ Len(<<s>> \o y) = Len(y) + 1 /\ (<<s>> \o y)[1] = s /\ Len(y) \in Nat
             /\ \A k \in 1 .. Len(y) + 1 : k # 1 => (<<s>> \o y)[k] = y[k - 1]
             /\ DOMAIN y = 1 .. Len(y) /\ DOMAIN (<<s>> \o y) = 1 .. Len(y) + 1
  <2>1. PICK n \in Nat : n = Len(y) /\ DOMAIN y = 1 .. n
    BY DEF Text
  <2>2. /\ <<s>> \o y \in Seq(Symbol) /\ Len(<<s>> \o y) = Len(y) + 1 /\ (<<s>> \o y)[1] = s
        /\ \A k \in 1 .. Len(y) + 1 : k # 1 => (<<s>> \o y)[k] = y[k - 1]
    BY OneBefore DEF Text
  <2>3. \A z \in Seq(Symbol) : DOMAIN z = 1 .. Len(z)
    OBVIOUS
  <2>4. DOMAIN (<<s>> \o y) = 1 .. Len(<<s>> \o y)
    BY <2>2, <2>3, Zenon
  <2> QED
    BY <2>1, <2>2, <2>4
<1>2. PICK l \in Nat, longer \in {<<s>> \o x} :
        /\ l = Len(x) /\ Len(longer) = l + 1 /\ longer[1] = s
        /\ \A k \in 1 .. l + 1 : k # 1 => longer[k] = x[k - 1]
  BY <1>1
<1>3. StandsAt(<<>>, 1, <<s>> \o x)
  <2>1. Len(<<>>) = 0 /\ DOMAIN <<>> = {}
    OBVIOUS
  <2>2. 1 + 0 - 1 <= l + 1
    OBVIOUS
  <2> QED
    BY <1>2, <2>1, <2>2 DEF StandsAt
<1>4. ASSUME NEW part \in Text, NEW i \in Nat, StandsAt(part, i + 1, x)
      PROVE  StandsAt(part, i + 1 + 1, longer)
  <2>1. PICK n \in Nat : n = Len(part) /\ DOMAIN part = 1 .. n
    BY <1>1
  <2>2. i + 1 + n - 1 <= l /\ \A k \in 1 .. n : x[i + 1 + k - 1] = part[k]
    BY <1>2, <1>4, <2>1 DEF StandsAt
  <2>3. ASSUME NEW k \in 1 .. n
        PROVE  longer[i + 1 + 1 + k - 1] = part[k]
    <3>1. PICK j \in 1 .. l + 1 : j = i + 1 + 1 + k - 1 /\ j # 1 /\ j - 1 = i + 1 + k - 1
      BY <2>2
    <3> QED
      BY <1>2, <2>2, <3>1
  <2>4. i + 1 + 1 + n - 1 <= l + 1
    BY <2>2
  <2> QED
    BY <1>2, <2>1, <2>3, <2>4 DEF StandsAt
<1>5. ASSUME NEW part \in Text, StandsAt(part, 1, x)
      PROVE  StandsAt(<<s>> \o part, 1, longer)
  <2>1. PICK n \in Nat, first \in {<<s>> \o part} :
          /\ n = Len(part) /\ DOMAIN part = 1 .. n /\ Len(first) = n + 1 /\ DOMAIN first = 1 .. n + 1
          /\ first[1] = s /\ \A k \in 1 .. n + 1 : k # 1 => first[k] = part[k - 1]
    BY <1>1
  <2>2. 1 + n - 1 <= l /\ \A k \in 1 .. n : x[1 + k - 1] = part[k]
    BY <1>2, <1>5, <2>1 DEF StandsAt
  <2>3. ASSUME NEW k \in 1 .. n + 1
        PROVE  longer[1 + k - 1] = first[k]
    <3>1. CASE k = 1
      BY <1>2, <2>1, <3>1
    <3>2. CASE k # 1
      <4>1. PICK j \in 1 .. n : j = k - 1 /\ 1 + j - 1 = j /\ 1 + k - 1 = k /\ k \in 1 .. l + 1
        BY <2>2, <3>2
      <4> QED
        BY <1>2, <2>1, <2>2, <3>2, <4>1
    <3> QED
      BY <3>1, <3>2
  <2>4. 1 + (n + 1) - 1 <= l + 1
    BY <2>2
  <2>5. StandsAt(first, 1, longer)
    BY <1>2, <2>1, <2>3, <2>4 DEF StandsAt
  <2> QED
    BY <2>1, <2>5
<1> QED
  BY <1>2, <1>3, <1>4, <1>5

LEMMA EndPlaced ==
  ASSUME NEW n \in Nat, NEW rest \in Parts, NEW st, Places(st, rest, n), NEW symbol \in Symbol,
         NEW x \in Text, Shows(st, rest, x)
  PROVE  \E new : /\ Places(new, Piece(rest, TRUE, symbol), n + 1)
                  /\ Shows(new, Piece(rest, TRUE, symbol), <<symbol>> \o x)
<1>1. PICK m \in Nat \ {0} : m = Len(rest)
  BY PartsAre
<1> DEFINE q == Piece(rest, TRUE, symbol)
           new == [k \in 1 .. m + 1 |-> IF k = 1 THEN 0 ELSE st[k - 1] + 1]
<1>2. Len(q) = m + 1 /\ q[1] = <<>> /\ \A k \in 1 .. m + 1 : k # 1 => q[k] = rest[k - 1]
  <2>1. q = <<<<>>>> \o rest
    BY DEF Piece
  <2>2. rest \in Seq(Text) /\ <<>> \in Text
    BY DEF Parts, Text
  <2> HIDE DEF q
  <2> QED
    BY <1>1, <2>1, <2>2, OneBefore
<1> HIDE DEF q
<1>3. \A k \in 1 .. m : /\ st[k] \in Nat /\ Len(rest[k]) \in Nat /\ st[k] + Len(rest[k]) <= n
                        /\ (k # 1 => st[k] = st[k - 1] + Len(rest[k - 1]) + 1)
  BY <1>1, PartsAre DEF Places
<1>4. st[1] = 0
  BY DEF Places
<1>5. new \in [1 .. m + 1 -> Nat] /\ new[1] = 0
      /\ \A k \in 1 .. m + 1 : k # 1 => new[k] = st[k - 1] + 1
  <2>1. \A k \in 1 .. m + 1 : k # 1 => k - 1 \in 1 .. m
    OBVIOUS
  <2> QED
    BY <1>3, <2>1
<1> HIDE DEF new
<1>6. ASSUME NEW k \in 1 .. m + 1, k # 1
      PROVE  new[k] = new[k - 1] + Len(q[k - 1]) + 1 /\ new[k] + Len(q[k]) <= n + 1
  <2>1. PICK j \in 1 .. m : j = k - 1
    BY <1>6
  <2>2. new[k] = st[j] + 1 /\ q[k] = rest[j]
    BY <1>2, <1>5, <1>6, <2>1
  <2>3. PICK a, b \in Nat : a = st[j] /\ b = Len(rest[j]) /\ a + b <= n
    BY <1>3
  <2>4. new[k] + Len(q[k]) <= n + 1
    BY <2>2, <2>3
  <2>5. CASE j = 1
    <3>1. new[j] = 0 /\ Len(q[j]) = 0 /\ st[j] = 0
      BY <1>2, <1>4, <1>5, <2>5
    <3> QED
      BY <2>1, <2>2, <2>4, <3>1
  <2>6. CASE j # 1
    <3>1. PICK i \in 1 .. m : i = j - 1
      BY <2>6
    <3>2. st[j] = st[i] + Len(rest[i]) + 1
      BY <1>3, <2>6, <3>1
    <3>3. j \in 1 .. m + 1
      BY <2>1
    <3>4. new[j] = st[i] + 1 /\ q[j] = rest[i]
      BY <1>2, <1>5, <2>6, <3>1, <3>3
    <3>5. PICK c, d \in Nat : c = st[i] /\ d = Len(rest[i])
      BY <1>3, <3>1
    <3> QED
      BY <2>1, <2>2, <2>4, <3>2, <3>4, <3>5
  <2> QED
    BY <2>5, <2>6
<1>7. new[1] + Len(q[1]) <= n + 1
  BY <1>2, <1>5
<1>8. Places(new, q, n + 1)
  BY <1>2, <1>5, <1>6, <1>7 DEF Places
<1>9. ASSUME NEW k \in 1 .. m + 1
      PROVE  StandsAt(q[k], new[k] + 1, <<symbol>> \o x)
  <2>1. CASE k = 1
    <3>1. q[k] = <<>> /\ new[k] + 1 = 1
      BY <1>2, <1>5, <2>1
    <3> QED
      BY <3>1, StandsLater, Zenon
  <2>2. CASE k # 1
    <3>1. PICK j \in 1 .. m : j = k - 1
      BY <2>2
    <3>2. PICK i \in Nat : i = st[j]
      BY <1>3
    <3>3. q[k] = rest[j] /\ new[k] = i + 1
      BY <1>2, <1>5, <2>2, <3>1, <3>2
    <3>4. rest[j] \in Text /\ StandsAt(rest[j], i + 1, x)
      BY <1>1, <3>2, PartsAre DEF Shows
    <3>5. StandsAt(rest[j], i + 1 + 1, <<symbol>> \o x)
      BY <3>4, StandsLater
    <3> QED
      BY <3>3, <3>5
  <2> QED
    BY <2>1, <2>2
<1>10. Shows(new, q, <<symbol>> \o x)
  BY <1>2, <1>9 DEF Shows
<1> QED
  BY <1>8, <1>10 DEF q

LEMMA SymbolPlaced ==
  ASSUME NEW n \in Nat, NEW rest \in Parts, NEW st, Places(st, rest, n), NEW symbol \in Symbol,
         NEW x \in Text, Shows(st, rest, x)
  PROVE  \E new : /\ Places(new, Piece(rest, FALSE, symbol), n + 1)
                  /\ Shows(new, Piece(rest, FALSE, symbol), <<symbol>> \o x)
<1>1. PICK m \in Nat \ {0} : m = Len(rest)
  BY PartsAre
<1> DEFINE q == Piece(rest, FALSE, symbol)
           new == [k \in 1 .. m |-> IF k = 1 THEN 0 ELSE st[k] + 1]
<1>2. /\ Len(q) = m /\ Len(q[1]) = Len(rest[1]) + 1 /\ \A k \in 1 .. m : k # 1 => q[k] = rest[k]
      /\ q[1] = <<symbol>> \o rest[1]
  <2>1. q = <<<<symbol>> \o rest[1]>> \o Tail(rest)
    BY DEF Piece
  <2>2. rest \in Seq(Text) /\ rest # <<>> /\ rest[1] \in Text
    BY <1>1, PartsAre DEF Parts
  <2>3. <<symbol>> \o rest[1] \in Text /\ Len(<<symbol>> \o rest[1]) = 1 + Len(rest[1])
    <3>1. <<symbol>> \in Seq(Symbol) /\ Len(<<symbol>>) = 1 /\ rest[1] \in Seq(Symbol)
      BY <2>2 DEF Text
    <3> QED
      BY <3>1, ConcatProperties DEF Text
  <2> DEFINE first == <<symbol>> \o rest[1]
  <2> HIDE DEF first
  <2>4. Tail(rest) \in Seq(Text) /\ Len(Tail(rest)) = m - 1
        /\ \A k \in 1 .. m - 1 : Tail(rest)[k] = rest[k + 1]
    BY <1>1, <2>2, HeadTailProperties
  <2>5. q = <<first>> \o Tail(rest) /\ first \in Text
    BY <2>1, <2>3 DEF first
  <2>6. (m - 1) + 1 = m
    OBVIOUS
  <2> HIDE DEF q
  <2>7. Len(q) = m /\ q[1] = first /\ \A k \in 1 .. m : k # 1 => q[k] = Tail(rest)[k - 1]
    BY <2>4, <2>5, <2>6, OneBefore
  <2>8. \A k \in 1 .. m : k # 1 => k - 1 \in 1 .. m - 1 /\ (k - 1) + 1 = k
    OBVIOUS
  <2>9. \A k \in 1 .. m : k # 1 => q[k] = rest[k]
    <3> TAKE k \in 1 .. m
    <3> HAVE k # 1
    <3>1. q[k] = Tail(rest)[k - 1]
      BY <2>7
    <3>2. Tail(rest)[k - 1] = rest[(k - 1) + 1]
      BY <2>4, <2>8
    <3> QED
      BY <2>8, <3>1, <3>2
  <2>11. Len(rest[1]) \in Nat
    BY <1>1, PartsAre
  <2> QED
    BY <2>3, <2>7, <2>9, <2>11 DEF first
<1> HIDE DEF q
<1>3. \A k \in 1 .. m : /\ st[k] \in Nat /\ Len(rest[k]) \in Nat /\ st[k] + Len(rest[k]) <= n
                        /\ (k # 1 => st[k] = st[k - 1] + Len(rest[k - 1]) + 1)
  BY <1>1, PartsAre DEF Places
<1>4. st[1] = 0
  BY DEF Places
<1>5. new \in [1 .. m -> Nat] /\ new[1] = 0
      /\ \A k \in 1 .. m : k # 1 => new[k] = st[k] + 1
  BY <1>1, <1>3
<1> HIDE DEF new
<1>6. ASSUME NEW k \in 1 .. m, k # 1
      PROVE  new[k] = new[k - 1] + Len(q[k - 1]) + 1 /\ new[k] + Len(q[k]) <= n + 1
  <2>1. PICK j \in 1 .. m : j = k - 1
    BY <1>6
  <2>2. new[k] = st[k] + 1 /\ q[k] = rest[k] /\ st[k] = st[j] + Len(rest[j]) + 1
    BY <1>2, <1>3, <1>5, <1>6, <2>1
  <2>3. PICK a, b \in Nat : a = st[j] /\ b = Len(rest[j])
    BY <1>3
  <2>4. PICK c, d \in Nat : c = st[k] /\ d = Len(rest[k]) /\ c + d <= n
    BY <1>3
  <2>5. new[k] + Len(q[k]) <= n + 1
    BY <2>2, <2>4
  <2>6. CASE j = 1
    <3>1. new[k] = st[j] + b + 1 + 1 /\ st[j] = 0 /\ Len(rest[1]) = b
      BY <1>4, <2>2, <2>3, <2>6
    <3>2. new[j] = 0 /\ Len(q[j]) = b + 1
      BY <1>2, <1>5, <2>6, <3>1
    <3> HIDE DEF new
    <3>3. new[k] = new[j] + Len(q[j]) + 1
      BY <2>3, <3>1, <3>2
    <3> QED
      BY <2>1, <2>5, <3>3
  <2>7. CASE j # 1
    <3>1. new[j] = st[j] + 1 /\ q[j] = rest[j]
      BY <1>2, <1>5, <2>7
    <3> QED
      BY <2>1, <2>2, <2>3, <2>5, <3>1
  <2> QED
    BY <2>6, <2>7
<1>7. new[1] + Len(q[1]) <= n + 1
  <2>1. PICK b \in Nat : b = Len(rest[1]) /\ b <= n
    <3>1. 1 \in 1 .. m
      BY <1>1
    <3>2. PICK b \in Nat : b = Len(rest[1]) /\ 0 + b <= n
      BY <1>3, <1>4, <3>1
    <3> QED
      BY <3>2
  <2> QED
    BY <1>2, <1>5, <2>1
<1>8. Places(new, q, n + 1)
  BY <1>2, <1>5, <1>6, <1>7 DEF Places
<1>9. ASSUME NEW k \in 1 .. m
      PROVE  StandsAt(q[k], new[k] + 1, <<symbol>> \o x)
  <2>1. PICK i \in Nat : i = st[k]
    BY <1>3
  <2>2. rest[k] \in Text /\ StandsAt(rest[k], i + 1, x)
    BY <1>1, <2>1, PartsAre DEF Shows
  <2>3. CASE k = 1
    <3>1. q[k] = <<symbol>> \o rest[k] /\ new[k] + 1 = 1 /\ i + 1 = 1
      BY <1>2, <1>4, <1>5, <2>1, <2>3
    <3> QED
      BY <2>2, <3>1, StandsLater, Zenon
  <2>4. CASE k # 1
    <3>1. q[k] = rest[k] /\ new[k] = i + 1
      BY <1>2, <1>5, <2>1, <2>4
    <3>2. StandsAt(rest[k], i + 1 + 1, <<symbol>> \o x)
      BY <2>2, StandsLater
    <3> QED
      BY <3>1, <3>2
  <2> QED
    BY <2>3, <2>4
<1>10. Shows(new, q, <<symbol>> \o x)
  BY <1>2, <1>9 DEF Shows
<1> QED
  BY <1>8, <1>10 DEF q

LEMMA CutPlaced ==
  ASSUME NEW t \in Text
  PROVE  \E st : /\ Places(st, Cut(t, <<"sp">>), Len(t))
                 /\ Shows(st, Cut(t, <<"sp">>), t)
<1>1. PICK L \in Nat : L = Len(t)
  BY DEF Text
<1> DEFINE sep == <<"sp">>
<1>2. sep \in Text /\ sep # <<>> /\ Len(sep) = 1
  BY Marks DEF Text
<1> HIDE DEF sep
<1>3. PICK f : CutsFrom(f, t, sep) /\ Cut(t, sep) = f[1] /\ \A i \in 1 .. L + 1 : f[i] \in Parts
  BY <1>1, <1>2, CutScans
<1> DEFINE next == [i \in 1 .. L |-> i + 1]
           P == {i \in 1 .. L + 1 : \E st : Places(st, f[i], (L + 1) - i) /\ Shows(st, f[i], Rest(t, i))}
<1>4. Jumps(next, L) /\ \A i \in 1 .. L : next[i] = i + 1
  BY DEF Jumps
<1> HIDE DEF next
<1>5. L + 1 \in P
  <2>1. PICK q \in 1 .. L + 1 : q = L + 1 /\ q > L /\ (L + 1) - q = 0
    OBVIOUS
  <2>2. f[q] = <<<<>>>>
    BY <1>1, <1>3, <2>1 DEF CutsFrom
  <2>3. Places([k \in 1 .. 1 |-> 0], <<<<>>>>, 0)
    <3>1. Len(<<<<>>>>) = 1 /\ <<<<>>>>[1] = <<>> /\ Len(<<>>) = 0
      OBVIOUS
    <3>2. \A k \in 1 .. 1 : k = 1
      OBVIOUS
    <3> QED
      BY <3>1, <3>2 DEF Places
  <2>5. Shows([k \in 1 .. 1 |-> 0], <<<<>>>>, Rest(t, q))
    <3>1. Len(<<<<>>>>) = 1 /\ <<<<>>>>[1] = <<>> /\ Len(<<>>) = 0 /\ DOMAIN <<>> = {}
      OBVIOUS
    <3>2. \A k \in 1 .. 1 : k = 1 /\ [j \in 1 .. 1 |-> 0][k] + 1 = 1
      OBVIOUS
    <3>3. Len(Rest(t, q)) = 0 /\ 1 + 0 - 1 <= 0
      BY <1>1, <2>1, <3>1, RestIs
    <3>4. StandsAt(<<>>, 1, Rest(t, q))
      BY <3>1, <3>3 DEF StandsAt
    <3> QED
      BY <3>1, <3>2, <3>4 DEF Shows
  <2>4. q \in P
    BY <2>1, <2>2, <2>3, <2>5
  <2> QED
    BY <2>1, <2>4
<1>6. ASSUME NEW i \in 1 .. L, next[i] \in P
      PROVE  i \in P
  <2>1. PICK j \in 1 .. L + 1 : j = i + 1
    OBVIOUS
  <2>2. j \in P
    BY <1>4, <1>6, <2>1
  <2>3. PICK n \in Nat : n = (L + 1) - j /\ n + 1 = (L + 1) - i
    BY <2>1
  <2>9. PICK x \in Text : x = Rest(t, j)
    BY <1>1, RestIs
  <2>4. PICK st : Places(st, f[j], n) /\ Shows(st, f[j], x)
    BY <2>2, <2>3, <2>9
  <2>8. Rest(t, i) = <<t[i]>> \o x /\ t[i] \in Symbol
    BY <1>1, <2>1, <2>9, RestIs
  <2>5. i \in 1 .. L + 1 /\ ~(i > L) /\ t[i] \in Symbol /\ StandsAt(sep, i, t) \in BOOLEAN
    BY <1>1 DEF Text, StandsAt
  <2>6. f[i] = Piece(f[j], StandsAt(sep, i, t), t[i])
    BY <1>1, <1>2, <1>3, <2>1, <2>5 DEF CutsFrom
  <2>7. \E new : Places(new, f[i], n + 1) /\ Shows(new, f[i], <<t[i]>> \o x)
    <3>1. CASE StandsAt(sep, i, t)
      <4>1. f[i] = Piece(f[j], TRUE, t[i])
        BY <2>6, <3>1
      <4> QED
        BY <1>3, <2>4, <2>8, <4>1, EndPlaced
    <3>2. CASE ~StandsAt(sep, i, t)
      <4>1. StandsAt(sep, i, t) = FALSE
        BY <2>5, <3>2
      <4>2. f[i] = Piece(f[j], FALSE, t[i])
        BY <2>6, <4>1
      <4> QED
        BY <1>3, <2>4, <2>5, <4>2, SymbolPlaced
    <3> QED
      BY <3>1, <3>2
  <2> QED
    BY <2>3, <2>5, <2>7, <2>8
<1>7. 1 \in P
  <2> HIDE DEF P
  <2>1. \A i \in 1 .. L + 1 : i \in P
    BY <1>4, <1>5, <1>6, Downwards
  <2> QED
    BY <2>1
<1>8. (L + 1) - 1 = L
  OBVIOUS
<1> QED
  BY <1>1, <1>3, <1>7, <1>8, RestIs DEF sep

\* The ranges of the strings.
Ranges(strs) ==
  {arc \in [base : 1 .. Len(strs), from : Nat, to : Nat] :
     arc.from <= arc.to /\ arc.to <= Len(strs[arc.base])}

\* A part of a range is a range.
LEMMA Within ==
  \A F, T, w, a, b \in Nat :
    F <= T /\ a + b <= T - F /\ T <= w =>
      F + a \in Nat /\ (F + a) + b \in Nat /\ F + a <= (F + a) + b /\ (F + a) + b <= w
OBVIOUS

LEMMA RangeOfString ==
  ASSUME NEW strs, NEW b \in 1 .. Len(strs), NEW f \in Nat, NEW t \in Nat,
         f <= t, t <= Len(strs[b])
  PROVE  ArcSubstring(b, f, t) \in Ranges(strs)
BY DEF ArcSubstring, Ranges

LEMMA RangeIsText ==
  ASSUME strings \in Seq(Text), NEW arc \in Ranges(strings)
  PROVE  AsStr(arc) \in Text /\ Len(AsStr(arc)) = arc.to - arc.from
<1>1. /\ arc.base \in 1 .. Len(strings) /\ arc.from \in Nat /\ arc.to \in Nat
      /\ arc.from <= arc.to /\ arc.to <= Len(strings[arc.base])
  BY DEF Ranges
<1>2. strings[arc.base] \in Seq(Symbol)
  BY <1>1 DEF Text
<1>3. /\ arc.from + 1 \in Int /\ arc.to \in Int
      /\ \A k \in arc.from + 1 .. arc.to : strings[arc.base][k] \in Symbol
  BY <1>1, <1>2
<1> DEFINE S == Symbol
<1> HIDE DEF S
<1>4. /\ SubSeq(strings[arc.base], arc.from + 1, arc.to) \in Seq(Symbol)
      /\ Len(SubSeq(strings[arc.base], arc.from + 1, arc.to)) =
           IF arc.from + 1 <= arc.to THEN arc.to - (arc.from + 1) + 1 ELSE 0
  BY <1>3, SubSeqProperties
<1>5. PICK a, b \in Nat : a = arc.from /\ b = arc.to /\ a <= b
  BY <1>1
<1> QED
  BY <1>4, <1>5 DEF AsStr, Text

LEMMA SliceIs ==
  ASSUME NEW t \in Text, NEW i \in 1 .. Len(t) + 1, NEW q \in Nat, i <= q, q <= Len(t) + 1
  PROVE  /\ SubSeq(t, i, q - 1) \in Text /\ Len(SubSeq(t, i, q - 1)) = q - i
         /\ \A k \in 1 .. q - i : SubSeq(t, i, q - 1)[k] = t[i + k - 1]
         /\ q = i + 1 => SubSeq(t, i, q - 1) = <<t[i]>>
<1>1. PICK L \in Nat : L = Len(t) /\ DOMAIN t = 1 .. L /\ \A j \in 1 .. L : t[j] \in Symbol
  BY DEF Text
<1>2. PICK e \in Int : e = q - 1 /\ e - i + 1 = q - i
  BY <1>1
<1>3. i \in Int /\ \A j \in i .. e : t[j] \in Symbol
  BY <1>1, <1>2
<1>4. /\ SubSeq(t, i, e) \in Seq(Symbol)
      /\ Len(SubSeq(t, i, e)) = IF i <= e THEN e - i + 1 ELSE 0
      /\ \A k \in 1 .. e - i + 1 : SubSeq(t, i, e)[k] = t[i + k - 1]
  BY <1>3, SubSeqProperties
<1>5. Len(SubSeq(t, i, e)) = q - i
  BY <1>1, <1>2, <1>4
<1>6. ASSUME q = i + 1
      PROVE  SubSeq(t, i, e) = <<t[i]>>
  <2>1. PICK s \in Seq(Symbol) : s = SubSeq(t, i, e)
    BY <1>4
  <2>2. Len(s) = 1 /\ s[1] = t[i]
    BY <1>1, <1>2, <1>4, <1>5, <1>6, <2>1
  <2>3. s = <<s[1]>>
    BY <2>2
  <2> QED
    BY <2>1, <2>2, <2>3
<1> QED
  BY <1>2, <1>4, <1>5, <1>6 DEF Text

\* What stands in a range stands in the string.
LEMMA RangeShows ==
  ASSUME NEW s \in Text, NEW F \in Nat, NEW T \in Nat, F <= T, T <= Len(s),
         NEW part \in Text, NEW at \in Nat, StandsAt(part, at + 1, SubSeq(s, F + 1, T))
  PROVE  SubSeq(s, (F + at) + 1, (F + at) + Len(part)) = part
<1>1. PICK n \in Nat : n = Len(part) /\ DOMAIN part = 1 .. n
  BY DEF Text
<1>2. PICK L \in Nat : L = Len(s)
  BY DEF Text
<1>13. PICK whole : whole = SubSeq(s, F + 1, T)
  OBVIOUS
<1>3. whole \in Text /\ Len(whole) = T - F /\ \A k \in 1 .. T - F : whole[k] = s[F + k]
  <2>1. PICK i, q \in Nat : i = F + 1 /\ q = T + 1 /\ q - 1 = T /\ q - i = T - F
    OBVIOUS
  <2>2. i \in 1 .. Len(s) + 1 /\ i <= q /\ q <= Len(s) + 1
    BY <1>2, <2>1
  <2>3. /\ SubSeq(s, i, q - 1) \in Text /\ Len(SubSeq(s, i, q - 1)) = q - i
        /\ \A k \in 1 .. q - i : SubSeq(s, i, q - 1)[k] = s[i + k - 1]
    BY <2>2, SliceIs
  <2>4. whole = SubSeq(s, i, q - 1)
    BY <1>13, <2>1
  <2>5. whole \in Text /\ Len(whole) = q - i /\ \A k \in 1 .. q - i : whole[k] = s[i + k - 1]
    BY <2>3, <2>4
  <2>6. \A k \in 1 .. q - i : i + k - 1 = F + k
    BY <2>1
  <2> QED
    BY <2>1, <2>5, <2>6
<1>4. at + 1 + n - 1 <= T - F /\ \A k \in 1 .. n : whole[at + 1 + k - 1] = part[k]
  BY <1>1, <1>3, <1>13 DEF StandsAt
<1>5. ASSUME NEW k \in 1 .. n
      PROVE  s[(F + at) + k] = part[k]
  <2>1. PICK j \in 1 .. T - F : j = at + 1 + k - 1 /\ F + j = (F + at) + k
    <3>1. at + 1 + k - 1 \in 1 .. T - F /\ F + (at + 1 + k - 1) = (F + at) + k
      BY <1>4
    <3> QED
      BY <3>1
  <2> QED
    BY <1>3, <1>4, <2>1
<1>6. PICK i, q \in Nat : i = (F + at) + 1 /\ q = (F + at) + n + 1
  OBVIOUS
<1>7. i \in 1 .. Len(s) + 1 /\ i <= q /\ q <= Len(s) + 1 /\ q - i = n /\ q - 1 = (F + at) + n
  BY <1>2, <1>4, <1>6
<1>12. PICK slice : slice = SubSeq(s, i, q - 1)
  OBVIOUS
<1>8. slice \in Text /\ Len(slice) = q - i /\ \A k \in 1 .. q - i : slice[k] = s[i + k - 1]
  <2>1. /\ SubSeq(s, i, q - 1) \in Text /\ Len(SubSeq(s, i, q - 1)) = q - i
        /\ \A k \in 1 .. q - i : SubSeq(s, i, q - 1)[k] = s[i + k - 1]
    BY <1>7, SliceIs
  <2> QED
    BY <1>12, <2>1
<1>9. \A k \in 1 .. n : i + k - 1 = (F + at) + k
  BY <1>6
<1>10. Len(slice) = Len(part) /\ \A k \in 1 .. Len(slice) : slice[k] = part[k]
  BY <1>1, <1>5, <1>7, <1>8, <1>9
<1>11. slice = part
  BY <1>8, <1>10, SeqEqual DEF Text
<1> QED
  BY <1>1, <1>6, <1>7, <1>11, <1>12

\* Words are ranges of the string their sentence is a range of.
LEMMA WordsShow ==
  ASSUME strings \in Seq(Text), NEW sentence \in Ranges(strings)
  PROVE  /\ WordsOf(sentence) \in Seq(Ranges(strings))
         /\ Len(WordsOf(sentence)) = Len(Cut(AsStr(sentence), <<"sp">>))
         /\ \A k \in 1 .. Len(WordsOf(sentence)) :
              AsStr(WordsOf(sentence)[k]) = Cut(AsStr(sentence), <<"sp">>)[k]
<1> DEFINE parts == Cut(AsStr(sentence), <<"sp">>)
           body(f) == [k \in DOMAIN parts |->
                         IF k = 1 THEN sentence.from ELSE f[k - 1] + Len(parts[k - 1]) + 1]
           start == CHOOSE f : f = body(f)
<1>1. /\ sentence.base \in 1 .. Len(strings) /\ sentence.from \in Nat /\ sentence.to \in Nat
      /\ sentence.from <= sentence.to /\ sentence.to <= Len(strings[sentence.base])
  BY DEF Ranges
<1>2. AsStr(sentence) \in Text /\ Len(AsStr(sentence)) = sentence.to - sentence.from
  BY RangeIsText
<1>3. parts \in Parts
  <2>1. <<"sp">> \in Text /\ <<"sp">> # <<>>
    BY Marks DEF Text
  <2> QED
    BY <1>2, <2>1, CutIsParts
<1>4. PICK st : Places(st, parts, sentence.to - sentence.from) /\ Shows(st, parts, AsStr(sentence))
  BY <1>2, CutPlaced
<1>5. WordsOf(sentence) =
        [k \in DOMAIN parts |-> ArcSubstring(sentence.base, start[k], start[k] + Len(parts[k]))]
  BY Zenon DEF WordsOf
<1> HIDE DEF parts
<1>6. PICK m \in Nat \ {0} : m = Len(parts) /\ DOMAIN parts = 1 .. m
  BY <1>3, PartsAre
<1>7. PICK F, T \in Nat : F = sentence.from /\ T = sentence.to /\ F <= T
  BY <1>1
<1>8. /\ st[1] = 0
      /\ \A k \in 1 .. m : /\ st[k] \in Nat /\ Len(parts[k]) \in Nat /\ st[k] + Len(parts[k]) <= T - F
                           /\ (k # 1 => st[k] = st[k - 1] + Len(parts[k - 1]) + 1)
  BY <1>3, <1>4, <1>6, <1>7, PartsAre DEF Places
<1>unfold. ASSUME NEW f, NEW k \in 1 .. m
           PROVE  body(f)[k] = IF k = 1 THEN F ELSE f[k - 1] + Len(parts[k - 1]) + 1
  BY <1>6, <1>7
<1>domain. \A f : body(f) = [k \in 1 .. m |-> body(f)[k]]
  BY <1>6
<1>9. \E f : f = body(f)
  <2> DEFINE h == [k \in 1 .. m |-> F + st[k]]
  <2>1. h = [k \in 1 .. m |-> h[k]] /\ \A k \in 1 .. m : h[k] = F + st[k]
    OBVIOUS
  <2> HIDE DEF h
  <2>2. ASSUME NEW k \in 1 .. m
        PROVE  h[k] = body(h)[k]
    <3> HIDE DEF body
    <3>1. CASE k = 1
      <4>1. body(h)[k] = F
        BY <1>unfold, <3>1
      <4>2. h[k] = F + 0
        BY <1>8, <2>1, <3>1
      <4> QED
        BY <4>1, <4>2
    <3>2. CASE k # 1
      <4>1. PICK j \in 1 .. m : j = k - 1
        BY <3>2
      <4>2. body(h)[k] = h[j] + Len(parts[j]) + 1
        BY <1>unfold, <3>2, <4>1
      <4>3. st[k] = st[j] + Len(parts[j]) + 1
        BY <1>8, <3>2, <4>1
      <4>4. PICK a, b \in Nat : a = st[j] /\ b = Len(parts[j])
        BY <1>8
      <4> QED
        BY <2>1, <4>2, <4>3, <4>4
    <3> QED
      BY <3>1, <3>2
  <2> HIDE DEF body
  <2>3. h = body(h)
    BY <1>domain, <2>1, <2>2
  <2> QED
    BY <2>3
<1>10. start = body(start)
  <2> HIDE DEF body
  <2> QED
    BY <1>9
<1> HIDE DEF start
<1>11. \A k \in 1 .. m : start[k] = IF k = 1 THEN F ELSE start[k - 1] + Len(parts[k - 1]) + 1
  <2> HIDE DEF body
  <2> QED
    BY <1>unfold, <1>10
<1> HIDE DEF body
<1> DEFINE P == {k \in 0 .. m : k = 0 \/ start[k] = F + st[k]}
<1>12. \A k \in 1 .. m : start[k] = F + st[k]
  <2>1. 0 \in P
    OBVIOUS
  <2>2. ASSUME NEW j \in 0 .. m - 1, j \in P
        PROVE  j + 1 \in P
    <3>1. PICK k \in 1 .. m : k = j + 1 /\ k \in 0 .. m
      OBVIOUS
    <3>2. CASE j = 0
      <4>1. start[k] = F + st[k]
        BY <1>8, <1>11, <3>1, <3>2
      <4>2. k \in P
        BY <3>1, <4>1
      <4> QED
        BY <3>1, <4>2
    <3>3. CASE j # 0
      <4>1. j \in 1 .. m /\ start[j] = F + st[j] /\ k # 1 /\ k - 1 = j
        BY <2>2, <3>1, <3>3
      <4>2. start[k] = start[j] + Len(parts[j]) + 1
        BY <1>11, <4>1
      <4>3. st[k] = st[j] + Len(parts[j]) + 1
        BY <1>8, <4>1
      <4>4. PICK a, b \in Nat : a = st[j] /\ b = Len(parts[j])
        BY <1>8, <4>1
      <4>5. start[k] = F + st[k]
        BY <4>1, <4>2, <4>3, <4>4
      <4>6. k \in P
        BY <3>1, <4>5
      <4> QED
        BY <3>1, <4>6
    <3> QED
      BY <3>2, <3>3
  <2>3. \A k \in 0 .. m : k \in P
    <3> HIDE DEF P
    <3> QED
      BY <2>1, <2>2, Upwards
  <2> QED
    BY <2>3
<1>13. ASSUME NEW k \in 1 .. m
       PROVE  LET word == ArcSubstring(sentence.base, start[k], start[k] + Len(parts[k]))
              IN word \in Ranges(strings) /\ AsStr(word) = parts[k]
  <2>1. PICK a, b \in Nat : a = st[k] /\ b = Len(parts[k]) /\ a + b <= T - F
    BY <1>8
  <2>2. PICK l \in Nat : l = Len(strings[sentence.base]) /\ T <= l
    BY <1>1, <1>7 DEF Text
  <2>3. start[k] = F + a /\ start[k] \in Nat /\ start[k] + b \in Nat
        /\ start[k] <= start[k] + b /\ start[k] + b <= l
    <3>1. start[k] = F + a
      BY <1>12, <2>1
    <3>2. F + a \in Nat /\ (F + a) + b \in Nat /\ F + a <= (F + a) + b /\ (F + a) + b <= l
      <4>1. F <= T /\ a + b <= T - F /\ T <= l
        BY <1>7, <2>1, <2>2
      <4> QED
        BY <4>1, Within
    <3> QED
      BY <3>1, <3>2
  <2>4. ArcSubstring(sentence.base, start[k], start[k] + Len(parts[k])) \in Ranges(strings)
    BY <1>1, <2>1, <2>2, <2>3 DEF ArcSubstring, Ranges
  <2>5. PICK s \in Text : s = strings[sentence.base]
    BY <1>1
  <2>6. parts[k] \in Text
    BY <1>3, <1>6, PartsAre
  <2>7. StandsAt(parts[k], a + 1, SubSeq(s, F + 1, T))
    BY <1>4, <1>6, <1>7, <2>1, <2>5 DEF Shows, AsStr
  <2>8. T <= Len(s)
    BY <2>2, <2>5
  <2>9. SubSeq(s, (F + a) + 1, (F + a) + Len(parts[k])) = parts[k]
    BY <1>7, <2>6, <2>7, <2>8, RangeShows
  <2>10. PICK word : word = ArcSubstring(sentence.base, start[k], start[k] + Len(parts[k]))
    OBVIOUS
  <2>11. word.base = sentence.base /\ word.from = F + a /\ word.to = (F + a) + Len(parts[k])
    BY <2>3, <2>10 DEF ArcSubstring
  <2>12. AsStr(word) = parts[k]
    BY <2>5, <2>9, <2>11 DEF AsStr
  <2> QED
    BY <2>4, <2>10, <2>12
<1> DEFINE words == [k \in 1 .. m |-> ArcSubstring(sentence.base, start[k], start[k] + Len(parts[k]))]
<1>14. /\ words \in Seq(Ranges(strings)) /\ Len(words) = m
       /\ \A k \in 1 .. m : AsStr(words[k]) = parts[k]
  <2>1. \A k \in 1 .. m : words[k] \in Ranges(strings) /\ AsStr(words[k]) = parts[k]
    BY <1>13
  <2>2. words = [k \in 1 .. m |-> words[k]]
    OBVIOUS
  <2> HIDE DEF words
  <2> QED
    BY <2>1, <2>2
<1>15. WordsOf(sentence) = words
  BY <1>5, <1>6
<1> HIDE DEF words
<1> QED
  BY <1>6, <1>14, <1>15 DEF parts

LEMMA WordsAreRanges ==
  ASSUME strings \in Seq(Text), NEW sentence \in Ranges(strings)
  PROVE  WordsOf(sentence) \in Seq(Ranges(strings))
BY WordsShow

-----------------------------------------------------------------------------
(* Reattaching.                                                            *)

\* The places at or before a place are the place and those before it.
LEMMA RankIncludes ==
  ASSUME NEW n \in Nat, NEW places \in SUBSET (1 .. n), NEW k \in places
  PROVE  Cardinality({j \in places : j <= k}) = Rank(places, k) + 1
<1> DEFINE upTo == {j \in places : j <= k}
<1>1. IsFiniteSet(places)
  BY AscendingLists
<1>2. IsFiniteSet(upTo) /\ k \in upTo
  <2>1. upTo \in SUBSET places
    OBVIOUS
  <2> QED
    BY <1>1, <2>1, FS_Subset
<1>3. upTo \ {k} = {j \in places : j < k}
  <2>1. \A j \in places : j < k <=> j <= k /\ j # k
    OBVIOUS
  <2> QED
    BY <2>1
<1>4. Cardinality(upTo \ {k}) = Cardinality(upTo) - 1 /\ Cardinality(upTo) \in Nat
  <2> HIDE DEF upTo
  <2> QED
    BY <1>2, FS_RemoveElement, FS_CardinalityType
<1>5. Rank(places, k) = Cardinality(upTo) - 1
  BY <1>3, <1>4 DEF Rank
<1> HIDE DEF upTo
<1> QED
  BY <1>4, <1>5 DEF upTo

LEMMA NewStringsAre ==
  ASSUME NEW length \in Nat, NEW cows \in Seq(Cows(length))
  PROVE  /\ NewStrings(cows) \in Seq(Text)
         /\ \A k \in DOMAIN cows :
              cows[k].owned => /\ OwnedUpTo(cows, k) \in 1 .. Len(NewStrings(cows))
                               /\ NewStrings(cows)[OwnedUpTo(cows, k)] = cows[k].text
<1>1. PICK n \in Nat : n = Len(cows) /\ DOMAIN cows = 1 .. n
  OBVIOUS
<1> DEFINE places == OwnedPlaces(cows)
           owned == Ascending(places)
<1>2. places \in SUBSET (1 .. n) /\ \A k \in 1 .. n : cows[k].owned => k \in places
  BY <1>1 DEF OwnedPlaces
<1>3. NewStrings(cows) = [i \in DOMAIN owned |-> cows[owned[i]].text]
  BY DEF NewStrings
<1>4. \A k \in 1 .. n : OwnedUpTo(cows, k) = Cardinality({j \in places : j <= k})
  BY DEF OwnedUpTo
<1> HIDE DEF places
<1>5. PICK m \in Nat : /\ m = Cardinality(places) /\ DOMAIN owned = 1 .. m
                       /\ \A i \in 1 .. m : owned[i] \in places
                       /\ \A k \in places : /\ Rank(places, k) + 1 \in 1 .. m
                                            /\ owned[Rank(places, k) + 1] = k
  BY <1>2, AscendingLists
<1> HIDE DEF owned
<1>6. \A i \in 1 .. m : cows[owned[i]].text \in Text
  <2>1. \A k \in 1 .. n : cows[k] \in Cows(length)
    BY <1>1
  <2>2. \A k \in 1 .. n : cows[k].text \in Text
    BY <2>1 DEF Cows
  <2>3. \A i \in 1 .. m : owned[i] \in 1 .. n
    BY <1>2, <1>5
  <2> QED
    BY <2>2, <2>3
<1>7. NewStrings(cows) \in Seq(Text) /\ Len(NewStrings(cows)) = m
  BY <1>3, <1>5, <1>6
<1>8. ASSUME NEW k \in 1 .. n, cows[k].owned
      PROVE  OwnedUpTo(cows, k) \in 1 .. m /\ NewStrings(cows)[OwnedUpTo(cows, k)] = cows[k].text
  <2>1. k \in places
    BY <1>2, <1>8
  <2>2. PICK q \in 1 .. m : q = Rank(places, k) + 1 /\ owned[q] = k
    BY <1>5, <2>1
  <2>3. OwnedUpTo(cows, k) = q
    BY <1>2, <1>4, <2>1, <2>2, RankIncludes
  <2>4. NewStrings(cows)[q] = cows[owned[q]].text
    BY <1>3, <1>5, <2>2
  <2> QED
    BY <2>2, <2>3, <2>4
<1> QED
  BY <1>1, <1>7, <1>8

\* Old ranges stay ranges when strings are allocated.
LEMMA RangesStay ==
  ASSUME NEW old \in Seq(Text), NEW new \in Seq(Text)
  PROVE  Ranges(old) \subseteq Ranges(old \o new) /\ old \o new \in Seq(Text)
<1>1. PICK m, n \in Nat : m = Len(old) /\ n = Len(new)
  OBVIOUS
<1>2. old \o new \in Seq(Text) /\ Len(old \o new) = m + n /\ \A k \in 1 .. m : (old \o new)[k] = old[k]
  BY <1>1
<1> DEFINE both == old \o new
<1> HIDE DEF both
<1>3. \A arc \in Ranges(old) : arc \in Ranges(both)
  <2> TAKE arc \in Ranges(old)
  <2>1. arc.base \in 1 .. m /\ arc.base \in 1 .. m + n
    BY <1>1 DEF Ranges
  <2>2. both[arc.base] = old[arc.base]
    BY <1>2, <2>1 DEF both
  <2> QED
    BY <1>2, <2>1, <2>2 DEF Ranges, both
<1> QED
  BY <1>2, <1>3 DEF both

\* What is reattached refers to the strings of the page and its own new ones.
LEMMA ReattachedAreRanges ==
  ASSUME strings \in Seq(Text), NEW parent \in Ranges(strings),
         NEW cows \in Seq(Cows(parent.to - parent.from))
  PROVE  /\ Reattached(parent, cows) \in Seq(Ranges(strings \o NewStrings(cows)))
         /\ Len(Reattached(parent, cows)) = Len(cows)
<1>1. /\ parent.base \in 1 .. Len(strings) /\ parent.from \in Nat /\ parent.to \in Nat
      /\ parent.from <= parent.to /\ parent.to <= Len(strings[parent.base])
  BY DEF Ranges
<1>2. PICK F, T, m, n \in Nat : /\ F = parent.from /\ T = parent.to /\ F <= T
                                /\ m = Len(strings) /\ n = Len(cows) /\ DOMAIN cows = 1 .. n
  BY <1>1
<1>3. PICK D \in Nat : D = T - F
  BY <1>2
<1>4. cows \in Seq(Cows(D))
  BY <1>2, <1>3
<1> DEFINE new == NewStrings(cows)
<1>5. /\ new \in Seq(Text)
      /\ \A k \in 1 .. n : cows[k].owned => /\ OwnedUpTo(cows, k) \in 1 .. Len(new)
                                            /\ new[OwnedUpTo(cows, k)] = cows[k].text
  BY <1>2, <1>4, NewStringsAre
<1> HIDE DEF new
<1> DEFINE both == strings \o new
<1>6. PICK l \in Nat : l = Len(new)
  BY <1>5
<1>7. /\ both \in Seq(Text) /\ Len(both) = m + l
      /\ \A k \in 1 .. m : both[k] = strings[k]
      /\ \A j \in 1 .. l : both[m + j] = new[j]
  BY <1>2, <1>5, <1>6
<1> HIDE DEF both
<1>8. ASSUME NEW k \in 1 .. n, cows[k].owned
      PROVE  NewSource(m + OwnedUpTo(cows, k), cows[k].text) \in Ranges(both)
  <2>1. PICK j \in 1 .. l : j = OwnedUpTo(cows, k) /\ new[j] = cows[k].text
    BY <1>5, <1>6, <1>8
  <2>2. PICK q \in 1 .. m + l : q = m + j /\ both[q] = cows[k].text
    <3>1. m + j \in 1 .. m + l
      BY <2>1
    <3>2. both[m + j] = new[j]
      BY <1>7, <2>1
    <3> QED
      BY <2>1, <3>1, <3>2
  <2>3. cows[k].text \in Text /\ Len(cows[k].text) \in Nat
    BY <1>2, <1>4 DEF Cows, Text
  <2>4. PICK w \in Nat : w = Len(cows[k].text) /\ 0 <= w
    BY <2>3
  <2> QED
    <3>1. ArcSubstring(q, 0, w) \in Ranges(both)
      <4>1. q \in 1 .. Len(both)
        BY <1>7
      <4>2. Len(both[q]) = w
        BY <2>2, <2>4
      <4> QED
        BY <2>4, <4>1, <4>2, RangeOfString
    <3> QED
      BY <2>1, <2>2, <2>4, <3>1 DEF NewSource
<1>9. ASSUME NEW k \in 1 .. n, ~cows[k].owned
      PROVE  ArcSubstring(parent.base, F + cows[k].from, (F + cows[k].from) + Len(cows[k].text))
               \in Ranges(both)
  <2>1. /\ cows[k].from \in Nat /\ cows[k].text \in Text /\ Len(cows[k].text) \in Nat
        /\ cows[k].from + Len(cows[k].text) <= D
    BY <1>2, <1>4, <1>9 DEF Cows, Text
  <2>2. PICK a, b \in Nat : a = cows[k].from /\ b = Len(cows[k].text) /\ a + b <= D
    BY <2>1
  <2>3. parent.base \in 1 .. m /\ parent.base \in 1 .. m + l
    BY <1>1, <1>2, <1>6
  <2>4. both[parent.base] = strings[parent.base]
    BY <1>7, <2>3
  <2>5. PICK w \in Nat : w = Len(strings[parent.base]) /\ T <= w
    BY <1>1, <1>2 DEF Text
  <2>6. F + a \in Nat /\ (F + a) + b \in Nat /\ F + a <= (F + a) + b /\ (F + a) + b <= w
    <3>1. F <= T /\ a + b <= T - F /\ T <= w
      BY <1>2, <1>3, <2>2, <2>5
    <3> QED
      BY <3>1, Within
  <2> QED
    BY <1>7, <2>2, <2>3, <2>4, <2>5, <2>6 DEF ArcSubstring, Ranges
<1>10. Reattached(parent, cows) =
         [k \in 1 .. n |->
            IF cows[k].owned THEN NewSource(m + OwnedUpTo(cows, k), cows[k].text)
            ELSE ArcSubstring(parent.base, F + cows[k].from, (F + cows[k].from) + Len(cows[k].text))]
  BY <1>2 DEF Reattached
<1> DEFINE r == Reattached(parent, cows)
<1>11. r = [k \in 1 .. n |-> r[k]] /\ \A k \in 1 .. n : r[k] \in Ranges(both)
  BY <1>8, <1>9, <1>10
<1> HIDE DEF r
<1>12. r \in Seq(Ranges(both)) /\ Len(r) = n
  <2> DEFINE S == Ranges(both)
  <2> HIDE DEF S
  <2>1. r \in [1 .. n -> S]
    BY <1>11 DEF S
  <2>2. r \in Seq(S) /\ Len(r) = n
    BY <2>1
  <2> QED
    BY <2>2 DEF S
<1> QED
  BY <1>2, <1>12 DEF r, both, new

-----------------------------------------------------------------------------
(* The invariant: entries are ranges of the strings, pointers are places of *)
(* entries, and the buffers are clean between two splits.                   *)

Addressed(strs, entries, lists) ==
  /\ strs \in Seq(Text)
  /\ DOMAIN entries = Kind /\ DOMAIN lists = Kind
  /\ \A kind \in Kind : /\ entries[kind] \in Seq(Ranges(strs))
                        /\ lists[kind] \in Seq(Seq(1 .. Len(entries[kind])))

Clean == scratch_buffers = Holding(<<>>)

Begun == /\ Len(immutables.revision) = 2
         /\ pc = "revision" => immutables.paragraph = <<>>

LoadedResolves == pc = "loaded" => Resolves(loaded.strings, loaded.immutables, loaded.pointers)

Sound == Addressed(strings, immutables, pointers) /\ Clean /\ Begun /\ LoadedResolves

LEMMA Kinds ==
  "revision" \in Kind /\ "paragraph" \in Kind /\ "sentence" \in Kind /\ "word" \in Kind
BY DEF Kind

LEMMA FreshAre ==
  ASSUME NEW a \in Nat, NEW n \in Nat, NEW old, Len(old) = a
  PROVE  Fresh(old, n) \in Seq(1 .. a + n)
<1>1. \A k \in 1 .. n : a + k \in 1 .. a + n
  OBVIOUS
<1>2. Fresh(old, n) = [k \in 1 .. n |-> a + k]
  BY DEF Fresh
<1> QED
  BY <1>1, <1>2

\* The entries and the pointers of one kind are replaced.
LEMMA OneKind ==
  ASSUME NEW strs, NEW entries, NEW lists, Addressed(strs, entries, lists),
         NEW new \in Seq(Text), NEW kind \in Kind,
         NEW e \in Seq(Ranges(strs \o new)), NEW l \in Seq(Seq(1 .. Len(e)))
  PROVE  Addressed(strs \o new, [entries EXCEPT ![kind] = e], [lists EXCEPT ![kind] = l])
<1> DEFINE both == strs \o new
           E == [entries EXCEPT ![kind] = e]
           P == [lists EXCEPT ![kind] = l]
<1>1. both \in Seq(Text) /\ Ranges(strs) \subseteq Ranges(both)
  BY RangesStay DEF Addressed
<1>2. DOMAIN E = Kind /\ DOMAIN P = Kind
  BY DEF Addressed
<1>3. E[kind] = e /\ P[kind] = l
  BY DEF Addressed
<1>4. \A other \in Kind : other # kind => E[other] = entries[other] /\ P[other] = lists[other]
  BY DEF Addressed
<1> HIDE DEF E, P, both
<1>5. ASSUME NEW other \in Kind
      PROVE  E[other] \in Seq(Ranges(both)) /\ P[other] \in Seq(Seq(1 .. Len(E[other])))
  <2>1. CASE other = kind
    BY <1>3, <2>1 DEF both
  <2>2. CASE other # kind
    <3>1. entries[other] \in Seq(Ranges(strs)) /\ lists[other] \in Seq(Seq(1 .. Len(entries[other])))
      BY DEF Addressed
    <3> DEFINE R == Ranges(strs)
               S == Ranges(both)
    <3>2. R \subseteq S /\ entries[other] \in Seq(R)
      BY <1>1, <3>1
    <3> HIDE DEF R, S
    <3>3. entries[other] \in Seq(S)
      BY <3>2
    <3> QED
      BY <1>4, <2>2, <3>1, <3>3 DEF S
  <2> QED
    BY <2>1, <2>2
<1>6. Addressed(both, E, P)
  BY <1>1, <1>2, <1>5 DEF Addressed
<1> QED
  BY <1>6 DEF both, E, P

LEMMA RevisionIsRange ==
  ASSUME Sound
  PROVE  /\ strings \in Seq(Text) /\ immutables.revision[Current] \in Ranges(strings)
         /\ RevisionText \in Text
         /\ Len(RevisionText) = immutables.revision[Current].to - immutables.revision[Current].from
<1>1. strings \in Seq(Text) /\ immutables.revision \in Seq(Ranges(strings))
  BY Kinds DEF Sound, Addressed
<1>2. immutables.revision[Current] \in Ranges(strings)
  BY <1>1 DEF Sound, Begun, Current
<1> QED
  BY <1>1, <1>2, RangeIsText DEF RevisionText

LEMMA SplitRevisionSound ==
  ASSUME Sound, SplitRevision, UNCHANGED <<file, changed, loaded>>
  PROVE  Sound'
<1> DEFINE revision == immutables.revision[Current]
           cows == ParagraphCows
<1>1. strings \in Seq(Text) /\ revision \in Ranges(strings)
      /\ RevisionText \in Text /\ Len(RevisionText) = revision.to - revision.from
  BY RevisionIsRange
<1>2. /\ ParagraphSplit = [parts |-> ParagraphsNaive(RevisionText), buffers |-> Holding(<<>>)]
      /\ ParagraphsNaive(RevisionText) \in Parts
  BY <1>1, ParagraphsAgree DEF ParagraphSplit, Sound, Clean
<1>3. ParagraphSplit.parts \in Seq(Text) /\ ParagraphSplit.buffers = Holding(<<>>)
  BY <1>2 DEF Parts
<1>4. cows \in Seq(Cows(revision.to - revision.from))
  <2>1. Len(RevisionText) \in Nat
    BY <1>1 DEF Text
  <2>2. cows \in Seq(Cows(Len(RevisionText)))
    BY <1>1, <1>3, <2>1, ReborrowedAreCows, TrimmedAreCows DEF ParagraphCows
  <2> QED
    BY <1>1, <2>2
<1> DEFINE e == Reattached(revision, cows)
           l == <<<<>>, Fresh(immutables.paragraph, Len(cows))>>
<1>5. /\ immutables' = [immutables EXCEPT !["paragraph"] = e]
      /\ pointers' = [pointers EXCEPT !["paragraph"] = l]
      /\ strings' = strings \o NewStrings(cows)
      /\ scratch_buffers' = ParagraphSplit.buffers /\ pc = "revision" /\ pc' = "paragraphs"
  BY DEF SplitRevision
<1> HIDE DEF revision, cows
<1>6. PICK n \in Nat : n = Len(cows)
  BY <1>4
<1>7. e \in Seq(Ranges(strings \o NewStrings(cows))) /\ Len(e) = n
  BY <1>1, <1>4, <1>6, ReattachedAreRanges
<1>8. NewStrings(cows) \in Seq(Text)
  <2>1. revision.to - revision.from \in Nat
    BY <1>1 DEF Text
  <2> QED
    BY <1>4, <2>1, NewStringsAre
<1>9. l \in Seq(Seq(1 .. n))
  <2>1. immutables.paragraph = <<>> /\ Len(<<>>) = 0 /\ 0 + n = n
    BY <1>5 DEF Sound, Begun
  <2>2. Fresh(immutables.paragraph, n) \in Seq(1 .. n)
    BY <2>1, FreshAre
  <2>3. <<>> \in Seq(1 .. n)
    OBVIOUS
  <2> DEFINE S == Seq(1 .. n)
  <2> HIDE DEF S
  <2>4. \A a, b \in S : <<a, b>> \in Seq(S)
    OBVIOUS
  <2> QED
    BY <1>6, <2>2, <2>3, <2>4 DEF S
<1> HIDE DEF e, l
<1>10. Addressed(strings, immutables, pointers)'
  BY <1>5, <1>7, <1>8, <1>9, Kinds, OneKind DEF Sound
<1>11. immutables'.revision = immutables.revision
  BY <1>5 DEF Sound, Addressed
<1> QED
  BY <1>3, <1>5, <1>10, <1>11 DEF Sound, Clean, Begun, LoadedResolves

LEMMA NextParagraphIsRange ==
  ASSUME Sound, ParagraphLeft
  PROVE  strings \in Seq(Text) /\ ParagraphNow \in Ranges(strings)
<1>1. /\ strings \in Seq(Text) /\ immutables.paragraph \in Seq(Ranges(strings))
      /\ immutables.sentence \in Seq(Ranges(strings))
      /\ pointers.sentence \in Seq(Seq(1 .. Len(immutables.sentence)))
  BY Kinds DEF Sound, Addressed
<1>2. PICK a, b \in Nat : a = Len(pointers.sentence) /\ b = Len(immutables.paragraph) /\ a < b
  <2>1. Len(pointers.sentence) < Len(immutables.paragraph)
    BY DEF ParagraphLeft, SplitParagraphs
  <2>2. Len(pointers.sentence) \in Nat /\ Len(immutables.paragraph) \in Nat
    BY <1>1
  <2> QED
    BY <2>1, <2>2
<1>3. PICK q \in 1 .. b : q = a + 1
  BY <1>2
<1>4. immutables.paragraph[q] \in Ranges(strings)
  BY <1>1, <1>2, <1>3
<1> QED
  BY <1>1, <1>2, <1>3, <1>4 DEF ParagraphNow, SplitParagraphs

LEMMA SplitParagraphSound ==
  ASSUME Sound, SplitParagraph, UNCHANGED <<file, changed, loaded>>
  PROVE  Sound'
<1> DEFINE parent == ParagraphNow
           cows == [k \in DOMAIN SentenceParts |-> Cleaned(SentenceParts[k])]
<1>1. /\ strings \in Seq(Text) /\ immutables.paragraph \in Seq(Ranges(strings))
      /\ immutables.sentence \in Seq(Ranges(strings))
      /\ pointers.sentence \in Seq(Seq(1 .. Len(immutables.sentence)))
  BY Kinds DEF Sound, Addressed
<1>2. parent \in Ranges(strings)
  <2>1. ParagraphLeft
    BY DEF SplitParagraph
  <2> QED
    BY <2>1, NextParagraphIsRange
<1>3. AsStr(parent) \in Text /\ Len(AsStr(parent)) = parent.to - parent.from
  BY <1>1, <1>2, RangeIsText
<1>4. /\ SentenceSplit = [parts |-> SentencesNaive(AsStr(parent)), buffers |-> Holding(<<>>)]
      /\ SentencesNaive(AsStr(parent)) \in Parts
  BY <1>3, SentencesAgree DEF SentenceSplit, Sound, Clean
<1>5. SentenceSplit.parts \in Seq(Text) /\ SentenceSplit.buffers = Holding(<<>>)
  BY <1>4 DEF Parts
<1>6. PICK D \in Nat : D = parent.to - parent.from /\ D = Len(AsStr(parent))
  BY <1>3 DEF Text
<1>7. SentenceParts \in Seq(Cows(D))
  BY <1>3, <1>5, <1>6, ReborrowedAreCows, TrimmedAreCows DEF SentenceParts
<1>8. cows \in Seq(Cows(D))
  <2>1. \A k \in DOMAIN SentenceParts : Cleaned(SentenceParts[k]) \in Cows(D)
    BY <1>7, CleanedIsCow
  <2> QED
    BY <1>7, <2>1
<1> DEFINE r == Reattached(parent, cows)
           f == Fresh(immutables.sentence, Len(cows))
           e == immutables.sentence \o r
           l == Append(pointers.sentence, f)
<1>9. /\ immutables' = [immutables EXCEPT !["sentence"] = e]
      /\ pointers' = [pointers EXCEPT !["sentence"] = l]
      /\ strings' = strings \o NewStrings(cows)
      /\ scratch_buffers' = SentenceSplit.buffers /\ pc' = pc /\ pc = "paragraphs"
  BY DEF SplitParagraph, ParagraphLeft
<1> HIDE DEF cows, parent
<1>10. PICK n, m \in Nat : n = Len(cows) /\ m = Len(immutables.sentence)
  BY <1>1, <1>8
<1>11. r \in Seq(Ranges(strings \o NewStrings(cows))) /\ Len(r) = n
  <2>1. cows \in Seq(Cows(parent.to - parent.from))
    BY <1>6, <1>8
  <2> QED
    BY <1>1, <1>2, <1>10, <2>1, ReattachedAreRanges
<1>12. NewStrings(cows) \in Seq(Text)
  BY <1>8, NewStringsAre
<1>13. e \in Seq(Ranges(strings \o NewStrings(cows))) /\ Len(e) = m + n
  <2> DEFINE R == Ranges(strings)
             S == Ranges(strings \o NewStrings(cows))
  <2>1. R \subseteq S /\ immutables.sentence \in Seq(R) /\ r \in Seq(S)
    BY <1>1, <1>11, <1>12, RangesStay
  <2> HIDE DEF R, S, r
  <2>2. immutables.sentence \in Seq(S)
    BY <2>1
  <2>3. e \in Seq(S) /\ Len(e) = m + n
    BY <1>10, <1>11, <2>1, <2>2
  <2> QED
    BY <2>3 DEF S
<1>14. l \in Seq(Seq(1 .. Len(e)))
  <2>1. f \in Seq(1 .. m + n)
    BY <1>10, FreshAre
  <2> DEFINE S == Seq(1 .. m)
             T == Seq(1 .. m + n)
  <2>2. S \subseteq T
    <3>1. \A k \in 1 .. m : k \in 1 .. m + n
      OBVIOUS
    <3> QED
      BY <3>1
  <2>3. pointers.sentence \in Seq(S) /\ f \in T
    BY <1>1, <1>10, <2>1
  <2> HIDE DEF S, T, f
  <2>4. l \in Seq(T)
    BY <2>2, <2>3
  <2> QED
    BY <1>13, <2>4 DEF T
<1> HIDE DEF e, l
<1>15. Addressed(strings, immutables, pointers)'
  BY <1>9, <1>12, <1>13, <1>14, Kinds, OneKind DEF Sound
<1>16. immutables'.revision = immutables.revision
  BY <1>9 DEF Sound, Addressed
<1> QED
  BY <1>5, <1>9, <1>15, <1>16 DEF Sound, Clean, Begun, LoadedResolves

LEMMA InternedAreRanges ==
  ASSUME NEW R, NEW found \in Seq(R)
  PROVE  Interned(found) \in Seq(R) /\ Len(Interned(found)) = Len(found)
<1>1. PICK n \in Nat : n = Len(found) /\ DOMAIN found = 1 .. n
  OBVIOUS
<1> DEFINE same(k) == {j \in DOMAIN found : AsStr(found[j]) = AsStr(found[k])}
<1>2. ASSUME NEW k \in 1 .. n
      PROVE  found[Min(same(k))] \in R
  <2>1. same(k) \in SUBSET Nat /\ same(k) # {} /\ same(k) \subseteq 1 .. n
    BY <1>1
  <2> HIDE DEF same
  <2>2. Min(same(k)) \in 1 .. n
    BY <2>1, MinIs
  <2> QED
    BY <1>1, <2>2
<1>3. Interned(found) = [k \in 1 .. n |-> found[Min(same(k))]]
  BY <1>1 DEF Interned
<1> HIDE DEF same
<1> QED
  BY <1>1, <1>2, <1>3

LEMMA AddWordsSound ==
  ASSUME Sound, AddWords, UNCHANGED <<file, changed, loaded>>
  PROVE  Sound'
<1> DEFINE R == Ranges(strings)
           found == [s \in DOMAIN immutables.sentence |-> WordsOf(immutables.sentence[s])]
           before(s) == FlattenSeq(SubSeq(found, 1, s - 1))
           all == FlattenSeq(found)
           words == [s \in DOMAIN found |-> Fresh(before(s), Len(found[s]))]
           wl == Append(words, Fresh(<<>>, Len(all)))
           rl == pointers.revision \o [w \in DOMAIN all |-> <<Current, Current>>]
           e == Interned(all)
<1>1. /\ strings \in Seq(Text) /\ immutables.sentence \in Seq(R)
      /\ immutables.revision \in Seq(R) /\ Len(immutables.revision) = 2
      /\ pointers.revision \in Seq(Seq(1 .. Len(immutables.revision)))
      /\ DOMAIN immutables = Kind /\ DOMAIN pointers = Kind
  BY Kinds DEF Sound, Addressed, Begun
<1>2. /\ immutables' = [immutables EXCEPT !["word"] = e]
      /\ pointers' = [pointers EXCEPT !["word"] = wl, !["revision"] = rl]
      /\ pc' = "analysed" /\ pc = "paragraphs" /\ UNCHANGED <<scratch_buffers, strings>>
  BY DEF AddWords
<1>3. PICK n \in Nat : n = Len(immutables.sentence) /\ DOMAIN immutables.sentence = 1 .. n
  BY <1>1
<1>4. found \in Seq(Seq(R)) /\ Len(found) = n /\ DOMAIN found = 1 .. n
  <2>1. \A s \in 1 .. n : WordsOf(immutables.sentence[s]) \in Seq(R)
    <3> TAKE s \in 1 .. n
    <3>1. immutables.sentence[s] \in Ranges(strings)
      BY <1>1, <1>3
    <3> QED
      BY <1>1, <3>1, WordsAreRanges
  <2> HIDE DEF R
  <2> QED
    BY <1>3, <2>1
<1> HIDE DEF found, R
<1>5. all \in Seq(R)
  BY <1>4, FlattenedType
<1>6. PICK m \in Nat : m = Len(all) /\ DOMAIN all = 1 .. m
  BY <1>5
<1>7. e \in Seq(R) /\ Len(e) = m
  BY <1>5, <1>6, InternedAreRanges
<1>8. ASSUME NEW s \in 1 .. n
      PROVE  Fresh(before(s), Len(found[s])) \in Seq(1 .. m)
  <2>1. s \in 1 .. Len(found) /\ found[s] \in Seq(R)
    BY <1>4
  <2>2. /\ Len(before(s)) \in Nat
        /\ Len(before(s)) + Len(found[s]) <= Len(all)
    BY <1>4, <2>1, PlacesInFlattened
  <2> HIDE DEF all
  <2>3. PICK a, b \in Nat : a = Len(before(s)) /\ b = Len(found[s]) /\ a + b <= m
    <3>1. Len(found[s]) \in Nat
      BY <2>1
    <3>2. Len(before(s)) + Len(found[s]) <= m
      BY <1>6, <2>2
    <3> HIDE DEF before
    <3> QED
      BY <2>2, <3>1, <3>2
  <2> HIDE DEF before
  <2>4. Fresh(before(s), b) \in Seq(1 .. a + b)
    BY <2>3, FreshAre
  <2>5. \A x \in 1 .. a + b : x \in 1 .. m
    BY <2>3
  <2>6. Fresh(before(s), b) \in Seq(1 .. m)
    BY <2>4, <2>5
  <2> QED
    BY <2>3, <2>6
<1>9. wl \in Seq(Seq(1 .. m))
  <2>1. Fresh(<<>>, Len(all)) \in Seq(1 .. m)
    <3>1. Len(<<>>) = 0 /\ 0 + m = m
      OBVIOUS
    <3>2. Fresh(<<>>, m) \in Seq(1 .. 0 + m)
      BY <3>1, FreshAre
    <3> QED
      BY <1>6, <3>1, <3>2
  <2> DEFINE S == Seq(1 .. m)
             last == Fresh(<<>>, Len(all))
  <2>2. \A s \in 1 .. n : words[s] \in S
    BY <1>4, <1>8
  <2>3. words = [s \in 1 .. n |-> words[s]]
    BY <1>4
  <2>4. last \in S
    BY <2>1
  <2> HIDE DEF words, S, last
  <2>5. words \in Seq(S)
    BY <2>2, <2>3
  <2>6. Append(words, last) \in Seq(S)
    BY <2>4, <2>5
  <2> QED
    BY <2>6 DEF S, last
<1>10. rl \in Seq(Seq(1 .. 2))
  <2> DEFINE S == Seq(1 .. 2)
             more == [w \in DOMAIN all |-> <<Current, Current>>]
  <2>1. <<Current, Current>> \in S
    BY DEF Current
  <2>2. pointers.revision \in Seq(S)
    BY <1>1
  <2> HIDE DEF S
  <2>3. more \in Seq(S)
    BY <1>6, <2>1
  <2> HIDE DEF more
  <2>4. pointers.revision \o more \in Seq(S)
    BY <2>2, <2>3
  <2> QED
    BY <2>4 DEF S, more
<1> HIDE DEF e, wl, rl
<1>11. /\ DOMAIN immutables' = Kind /\ DOMAIN pointers' = Kind
       /\ immutables'["word"] = e /\ pointers'["word"] = wl /\ pointers'["revision"] = rl
       /\ \A kind \in Kind : kind # "word" => immutables'[kind] = immutables[kind]
       /\ \A kind \in Kind : kind # "word" /\ kind # "revision" => pointers'[kind] = pointers[kind]
  BY <1>1, <1>2, Kinds
<1>12. ASSUME NEW kind \in Kind
       PROVE  /\ immutables'[kind] \in Seq(Ranges(strings))
              /\ pointers'[kind] \in Seq(Seq(1 .. Len(immutables'[kind])))
  <2>1. CASE kind = "word"
    BY <1>7, <1>9, <1>11, <2>1 DEF R
  <2>2. CASE kind = "revision"
    <3>1. immutables'[kind] = immutables.revision /\ pointers'[kind] = rl
      BY <1>11, <2>2, Kinds
    <3> QED
      BY <1>1, <1>10, <3>1 DEF R
  <2>3. CASE kind # "word" /\ kind # "revision"
    <3>1. immutables'[kind] = immutables[kind] /\ pointers'[kind] = pointers[kind]
      BY <1>11, <2>3
    <3>2. /\ immutables[kind] \in Seq(Ranges(strings))
          /\ pointers[kind] \in Seq(Seq(1 .. Len(immutables[kind])))
      BY DEF Sound, Addressed
    <3> QED
      BY <3>1, <3>2
  <2> QED
    BY <2>1, <2>2, <2>3
<1>13. Addressed(strings, immutables, pointers)'
  BY <1>1, <1>2, <1>11, <1>12 DEF Addressed
<1>14. immutables'.revision = immutables.revision
  BY <1>11, Kinds
<1> QED
  BY <1>1, <1>2, <1>13, <1>14 DEF Sound, Clean, Begun, LoadedResolves

\* The text of a page that begins is a string of its own, in the two entries
\* a page has then.
LEMMA SoundInit == Init => Sound
<1> SUFFICES ASSUME Init
             PROVE  Sound
  OBVIOUS
<1>1. PICK text \in Texts :
        /\ strings = <<<<>>, text>>
        /\ immutables = [revision |-> <<NewSource(Dummy, <<>>), NewSource(Current, text)>>,
                         paragraph |-> <<>>, sentence |-> <<>>, word |-> <<>>]
  BY DEF Init, InitText
<1>2. /\ pc = "revision" /\ scratch_buffers = Holding(<<>>)
      /\ pointers = [revision |-> <<<<Current, Current>>>>,
                     paragraph |-> <<<<>>, <<>>>>, sentence |-> <<>>, word |-> <<>>]
  BY DEF Init, InitText, Holding
<1>3. text \in Text /\ <<>> \in Text
  BY SymbolsAssumption DEF Text
<1>4. strings \in Seq(Text) /\ Len(strings) = 2 /\ strings[1] = <<>> /\ strings[2] = text
  BY <1>1, <1>3
<1>5. PICK w \in Nat : w = Len(text)
  BY <1>3 DEF Text
<1>6. NewSource(Dummy, <<>>) \in Ranges(strings) /\ NewSource(Current, text) \in Ranges(strings)
  <2>1. ArcSubstring(1, 0, 0) \in Ranges(strings)
    <3>1. Len(strings[1]) = 0
      BY <1>4
    <3> QED
      BY <1>4, <3>1 DEF ArcSubstring, Ranges
  <2>2. ArcSubstring(2, 0, w) \in Ranges(strings)
    BY <1>4, <1>5 DEF ArcSubstring, Ranges
  <2>3. Len(<<>>) = 0
    OBVIOUS
  <2> QED
    BY <1>5, <2>1, <2>2, <2>3 DEF NewSource, Dummy, Current
<1> DEFINE R == Ranges(strings)
           first == NewSource(Dummy, <<>>)
           second == NewSource(Current, text)
<1>7. first \in R /\ second \in R
  BY <1>6
<1> HIDE DEF R, first, second
<1>8. <<first, second>> \in Seq(R) /\ Len(<<first, second>>) = 2 /\ <<>> \in Seq(R)
  BY <1>7
<1>9. immutables.revision = <<first, second>> /\ immutables.paragraph = <<>>
      /\ immutables.sentence = <<>> /\ immutables.word = <<>> /\ DOMAIN immutables = Kind
  BY <1>1 DEF first, second, Kind
<1>10. <<<<2, 2>>>> \in Seq(Seq(1 .. 2)) /\ <<<<>>, <<>>>> \in Seq(Seq(1 .. 0)) /\ <<>> \in Seq(Seq(1 .. 0))
  <2>1. <<2, 2>> \in Seq(1 .. 2) /\ <<>> \in Seq(1 .. 0)
    OBVIOUS
  <2> DEFINE S == Seq(1 .. 2)
             T == Seq(1 .. 0)
  <2>2. \A a \in S : <<a>> \in Seq(S)
    OBVIOUS
  <2> HIDE DEF T
  <2>3. \A a \in T : <<a, a>> \in Seq(T)
    OBVIOUS
  <2>4. <<>> \in Seq(T)
    OBVIOUS
  <2> QED
    BY <2>1, <2>2, <2>3, <2>4 DEF T
<1>11. pointers.revision = <<<<2, 2>>>> /\ pointers.paragraph = <<<<>>, <<>>>>
       /\ pointers.sentence = <<>> /\ pointers.word = <<>> /\ DOMAIN pointers = Kind
  BY <1>2 DEF Current, Kind
<1>12. Len(<<>>) = 0
  OBVIOUS
<1>13. \A kind \in Kind : /\ immutables[kind] \in Seq(R)
                          /\ pointers[kind] \in Seq(Seq(1 .. Len(immutables[kind])))
  <2>1. \A kind \in Kind :
          kind = "revision" \/ kind = "paragraph" \/ kind = "sentence" \/ kind = "word"
    BY DEF Kind
  <2> QED
    BY <1>8, <1>9, <1>10, <1>11, <1>12, <2>1
<1>14. Addressed(strings, immutables, pointers)
  BY <1>4, <1>9, <1>11, <1>13 DEF Addressed, R
<1> QED
  BY <1>2, <1>8, <1>9, <1>14 DEF Sound, Clean, Begun, LoadedResolves

LEMMA SoundNext == Sound /\ [Next]_vars => Sound'
<1> SUFFICES ASSUME Sound, [Next]_vars
             PROVE  Sound'
  OBVIOUS
<1>1. CASE NextText /\ UNCHANGED <<file, changed, loaded>>
  BY <1>1, SplitRevisionSound, SplitParagraphSound, AddWordsSound DEF NextText
<1>2. CASE Store
  BY <1>2 DEF Store, page, Sound, Clean, Begun, LoadedResolves
<1>3. CASE Change
  BY <1>3 DEF Change, page, Sound, Clean, Begun, LoadedResolves
<1>4. CASE Load
  <2>1. Resolves(file.strings, file.substrings, file.pointers)
    BY <1>4 DEF Load, Valid, PointersExist, SubstrExists, Resolves
  <2>2. loaded' = [strings |-> file.strings, immutables |-> file.substrings,
                   pointers |-> file.pointers]
    BY <1>4 DEF Load
  <2>3. Resolves(loaded'.strings, loaded'.immutables, loaded'.pointers)
    BY <2>1, <2>2
  <2> QED
    BY <1>4, <2>3 DEF Load, page, Sound, Clean, Begun, LoadedResolves
<1>5. CASE Reject
  BY <1>5 DEF Reject, page, Sound, Clean, Begun, LoadedResolves
<1>6. CASE UNCHANGED vars
  BY <1>6 DEF vars, page, Sound, Clean, Begun, LoadedResolves, Addressed
<1> QED
  BY <1>1, <1>2, <1>3, <1>4, <1>5, <1>6 DEF Next, Finished

LEMMA AlwaysSound == Spec => []Sound
BY SoundInit, SoundNext, PTL DEF Spec

LEMMA SoundResolves == Sound => PointersResolve
<1> SUFFICES ASSUME Sound
             PROVE  PointersResolve
  OBVIOUS
<1>1. ASSUME NEW kind \in Kind
      PROVE  /\ \A list \in Range(pointers[kind]) : Range(list) \subseteq DOMAIN immutables[kind]
             /\ \A arc \in Range(immutables[kind]) :
                  /\ arc.base \in DOMAIN strings /\ arc.from <= arc.to
                  /\ arc.to <= Len(strings[arc.base])
  <2>1. /\ strings \in Seq(Text) /\ immutables[kind] \in Seq(Ranges(strings))
        /\ pointers[kind] \in Seq(Seq(1 .. Len(immutables[kind])))
    BY DEF Sound, Addressed
  <2>2. \A arc \in Range(immutables[kind]) : arc \in Ranges(strings)
    BY <2>1 DEF Range
  <2>3. \A list \in Range(pointers[kind]) : list \in Seq(1 .. Len(immutables[kind]))
    BY <2>1 DEF Range
  <2>4. \A list \in Seq(1 .. Len(immutables[kind])) : Range(list) \subseteq 1 .. Len(immutables[kind])
    BY DEF Range
  <2>5. DOMAIN immutables[kind] = 1 .. Len(immutables[kind]) /\ DOMAIN strings = 1 .. Len(strings)
    BY <2>1
  <2>6. \A arc \in Ranges(strings) : /\ arc.base \in 1 .. Len(strings) /\ arc.from <= arc.to
                                     /\ arc.to <= Len(strings[arc.base])
    BY DEF Ranges
  <2> QED
    BY <2>2, <2>3, <2>4, <2>5, <2>6
<1> QED
  BY <1>1 DEF PointersResolve, Resolves, Sound, LoadedResolves

\* Whatever the text: every list of pointers refers to entries and every entry
\* is a range of a string, after every stage of the analysis; and a page that
\* is loaded has both, whatever was changed in its file.
THEOREM PagesResolve == Spec => []PointersResolve
BY AlwaysSound, SoundResolves, PTL

\* The buffers the calls before left behind make no difference: in every
\* state of an analysis the optimised splitters find the parts the plain ones
\* find.
THEOREM PartsAgree ==
  Spec => [](/\ pc = "revision" => ParagraphSplit.parts = ParagraphsNaive(RevisionText)
             /\ ParagraphLeft => SentenceSplit.parts = SentencesNaive(AsStr(ParagraphNow)))
<1>1. Sound => /\ pc = "revision" => ParagraphSplit.parts = ParagraphsNaive(RevisionText)
               /\ ParagraphLeft => SentenceSplit.parts = SentencesNaive(AsStr(ParagraphNow))
  <2> SUFFICES ASSUME Sound
               PROVE  /\ ParagraphSplit.parts = ParagraphsNaive(RevisionText)
                      /\ ParagraphLeft => SentenceSplit.parts = SentencesNaive(AsStr(ParagraphNow))
    OBVIOUS
  <2>1. ParagraphSplit.parts = ParagraphsNaive(RevisionText)
    <3>1. ParagraphSplit = [parts |-> ParagraphsNaive(RevisionText), buffers |-> Holding(<<>>)]
      BY RevisionIsRange, ParagraphsAgree DEF ParagraphSplit, Sound, Clean
    <3> QED
      BY <3>1
  <2>2. ASSUME ParagraphLeft
        PROVE  SentenceSplit.parts = SentencesNaive(AsStr(ParagraphNow))
    <3>1. strings \in Seq(Text) /\ ParagraphNow \in Ranges(strings)
      BY <2>2, NextParagraphIsRange
    <3>2. AsStr(ParagraphNow) \in Text
      BY <3>1, RangeIsText
    <3>3. SentenceSplit = [parts |-> SentencesNaive(AsStr(ParagraphNow)), buffers |-> Holding(<<>>)]
      BY <3>2, SentencesAgree DEF SentenceSplit, Sound, Clean
    <3> QED
      BY <3>3
  <2> QED
    BY <2>1, <2>2
<1> QED
  BY <1>1, AlwaysSound, PTL

-----------------------------------------------------------------------------
(* What is stored.                                                         *)

SubstringsSound == AllSubstrings \in Seq(Ranges(strings))

LEMMA SubstringsAre ==
  ASSUME Sound
  PROVE  SubstringsSound
<1>1. /\ immutables.revision \in Seq(Ranges(strings)) /\ immutables.paragraph \in Seq(Ranges(strings))
      /\ immutables.sentence \in Seq(Ranges(strings)) /\ immutables.word \in Seq(Ranges(strings))
  BY Kinds DEF Sound, Addressed
<1> DEFINE R == Ranges(strings)
<1> HIDE DEF R
<1>2. \A a, b, c, d \in Seq(R) : a \o b \o c \o d \in Seq(R)
  OBVIOUS
<1> QED
  BY <1>1, <1>2 DEF SubstringsSound, AllSubstrings, AllOf, R

\* Every shared string is listed exactly once, and no other.
LEMMA BasesAre ==
  ASSUME SubstringsSound
  PROVE  \E m \in Nat :
           /\ DOMAIN Bases = 1 .. m
           /\ \A i \in 1 .. m : \E k \in DOMAIN AllSubstrings : Bases[i] = AllSubstrings[k].base
           /\ \A i \in 1 .. m : Bases[i] \in 1 .. Len(strings)
           /\ \A k \in DOMAIN AllSubstrings : \E i \in 1 .. m : Bases[i] = AllSubstrings[k].base
           /\ \A i, j \in 1 .. m : Bases[i] = Bases[j] => i = j
<1>1. PICK n \in Nat : n = Len(AllSubstrings) /\ DOMAIN AllSubstrings = 1 .. n
  BY DEF SubstringsSound
<1> DEFINE met == [k \in DOMAIN AllSubstrings |-> AllSubstrings[k].base]
           firsts == {k \in DOMAIN met : \A j \in 1 .. k - 1 : met[j] # met[k]}
           new == Ascending(firsts)
<1>2. \A k \in 1 .. n : met[k] = AllSubstrings[k].base /\ met[k] \in 1 .. Len(strings)
  <2>1. \A k \in 1 .. n : AllSubstrings[k] \in Ranges(strings)
    BY <1>1 DEF SubstringsSound
  <2> QED
    BY <1>1, <2>1 DEF Ranges
<1>3. DOMAIN met = 1 .. n
  BY <1>1
<1>4. Bases = [i \in DOMAIN new |-> met[new[i]]]
  BY DEF Bases
<1> HIDE DEF met
<1>5. /\ firsts \in SUBSET (1 .. n)
      /\ \A k \in firsts : \A j \in 1 .. k - 1 : met[j] # met[k]
      /\ \A k \in 1 .. n : (\A j \in 1 .. k - 1 : met[j] # met[k]) => k \in firsts
  BY <1>3
<1> HIDE DEF firsts
<1>6. PICK m \in Nat :
        /\ DOMAIN new = 1 .. m
        /\ \A i \in 1 .. m : new[i] \in firsts /\ Rank(firsts, new[i]) = i - 1
        /\ \A k \in firsts : Rank(firsts, k) + 1 \in 1 .. m /\ new[Rank(firsts, k) + 1] = k
  BY <1>5, AscendingLists
<1> HIDE DEF new
<1>7. \A i \in 1 .. m : Bases[i] = met[new[i]] /\ new[i] \in firsts /\ new[i] \in 1 .. n
  BY <1>4, <1>5, <1>6
<1>8. DOMAIN Bases = 1 .. m
  BY <1>4, <1>6
<1>9. ASSUME NEW k \in 1 .. n
      PROVE  \E i \in 1 .. m : Bases[i] = met[k]
  <2> DEFINE same == {j \in 1 .. n : met[j] = met[k]}
  <2>1. PICK first \in same : \A j \in same : first <= j
    <3>1. same \in SUBSET Nat /\ same # {}
      OBVIOUS
    <3> HIDE DEF same
    <3> QED
      BY <3>1, Smallest
  <2>2. first \in 1 .. n /\ met[first] = met[k]
    OBVIOUS
  <2>3. \A j \in 1 .. first - 1 : met[j] # met[first]
    <3> SUFFICES ASSUME NEW j \in 1 .. first - 1, met[j] = met[first]
                 PROVE  FALSE
      OBVIOUS
    <3>1. j \in same /\ ~(first <= j)
      BY <2>2
    <3> QED
      BY <2>1, <3>1
  <2>4. first \in firsts
    BY <1>5, <2>2, <2>3
  <2>5. PICK i \in 1 .. m : new[i] = first
    BY <1>6, <2>4
  <2> QED
    BY <1>7, <2>2, <2>5
<1>10. ASSUME NEW i \in 1 .. m, NEW j \in 1 .. m, Bases[i] = Bases[j]
       PROVE  i = j
  <2>1. PICK p, q \in 1 .. n : p = new[i] /\ q = new[j] /\ met[p] = met[q] /\ p \in firsts /\ q \in firsts
    BY <1>7, <1>10
  <2>2. ~(p < q)
    <3> SUFFICES ASSUME p < q
                 PROVE  FALSE
      OBVIOUS
    <3>1. p \in 1 .. q - 1
      OBVIOUS
    <3> QED
      BY <1>5, <2>1, <3>1
  <2>3. ~(q < p)
    <3> SUFFICES ASSUME q < p
                 PROVE  FALSE
      OBVIOUS
    <3>1. q \in 1 .. p - 1
      OBVIOUS
    <3> QED
      BY <1>5, <2>1, <3>1
  <2>4. p = q
    BY <2>2, <2>3
  <2>5. i - 1 = j - 1
    BY <1>6, <2>1, <2>4
  <2> QED
    BY <2>5
<1>11. \A i \in 1 .. m : /\ \E k \in DOMAIN AllSubstrings : Bases[i] = AllSubstrings[k].base
                         /\ Bases[i] \in 1 .. Len(strings)
  <2> TAKE i \in 1 .. m
  <2>1. PICK k \in 1 .. n : k = new[i] /\ Bases[i] = met[k]
    BY <1>7
  <2> QED
    BY <1>1, <1>2, <2>1
<1>12. \A k \in DOMAIN AllSubstrings : \E i \in 1 .. m : Bases[i] = AllSubstrings[k].base
  <2> TAKE k \in DOMAIN AllSubstrings
  <2>1. PICK i \in 1 .. m : Bases[i] = met[k]
    BY <1>1, <1>9
  <2> QED
    BY <1>1, <1>2, <2>1
<1>13. \A i, j \in 1 .. m : Bases[i] = Bases[j] => i = j
  BY <1>10
<1> QED
  BY <1>8, <1>11, <1>12, <1>13, Zenon

LEMMA SubstrSerialized ==
  ASSUME SubstringsSound, NEW k \in DOMAIN AllSubstrings
  PROVE  /\ SerializeSubstr(AllSubstrings[k]).base \in DOMAIN Bases
         /\ Bases[SerializeSubstr(AllSubstrings[k]).base] = AllSubstrings[k].base
         /\ IF AllSubstrings[k].from = AllSubstrings[k].to
            THEN SerializeSubstr(AllSubstrings[k]).from = 0 /\ SerializeSubstr(AllSubstrings[k]).to = 0
            ELSE /\ SerializeSubstr(AllSubstrings[k]).from = AllSubstrings[k].from
                 /\ SerializeSubstr(AllSubstrings[k]).to = AllSubstrings[k].to
<1> DEFINE arc == AllSubstrings[k]
           listed == {i \in DOMAIN Bases : Bases[i] = arc.base}
<1>1. arc \in Ranges(strings)
  BY DEF SubstringsSound
<1>2. PICK m \in Nat : DOMAIN Bases = 1 .. m /\ \E i \in 1 .. m : Bases[i] = arc.base
  BY BasesAre
<1>3. Min(listed) \in listed
  <2>1. listed \in SUBSET Nat /\ listed # {}
    BY <1>2
  <2> HIDE DEF listed
  <2> QED
    BY <2>1, MinIs
<1> DEFINE index == Min(listed)
<1>4. index \in DOMAIN Bases /\ Bases[index] = arc.base
  BY <1>3
<1>5. SerializeSubstr(arc) =
        IF arc.from = arc.to THEN ArcSubstring(index, 0, 0) ELSE [arc EXCEPT !.base = index]
  BY DEF SerializeSubstr
<1> HIDE DEF index
<1>6. CASE arc.from = arc.to
  BY <1>4, <1>5, <1>6 DEF ArcSubstring
<1>7. CASE arc.from # arc.to
  BY <1>1, <1>4, <1>5, <1>7 DEF Ranges
<1> QED
  BY <1>6, <1>7

\* t is s with F applied to its elements.
Maps(F, s, t) == Len(t) = Len(s) /\ \A k \in 1 .. Len(s) : t[k] = F[s[k]]

LEMMA JoinMaps ==
  ASSUME NEW R, NEW V, NEW F, NEW s \in Seq(R), NEW t \in Seq(R), NEW u \in Seq(V), NEW v \in Seq(V),
         Maps(F, s, u), Maps(F, t, v)
  PROVE  s \o t \in Seq(R) /\ u \o v \in Seq(V) /\ Maps(F, s \o t, u \o v)
<1>1. PICK m, n \in Nat : m = Len(s) /\ n = Len(t) /\ m = Len(u) /\ n = Len(v)
  BY DEF Maps
<1>2. /\ Len(s \o t) = m + n /\ Len(u \o v) = m + n
      /\ \A k \in 1 .. m + n : /\ (s \o t)[k] = IF k <= m THEN s[k] ELSE t[k - m]
                               /\ (u \o v)[k] = IF k <= m THEN u[k] ELSE v[k - m]
  <2>1. /\ Len(s \o t) = Len(s) + Len(t)
        /\ \A k \in 1 .. Len(s) + Len(t) : (s \o t)[k] = IF k <= Len(s) THEN s[k] ELSE t[k - Len(s)]
    BY ConcatProperties, Zenon
  <2>2. /\ Len(u \o v) = Len(u) + Len(v)
        /\ \A k \in 1 .. Len(u) + Len(v) : (u \o v)[k] = IF k <= Len(u) THEN u[k] ELSE v[k - Len(u)]
    BY ConcatProperties, Zenon
  <2> QED
    BY <1>1, <2>1, <2>2
<1>3. ASSUME NEW k \in 1 .. m + n
      PROVE  (u \o v)[k] = F[(s \o t)[k]]
  <2>1. CASE k <= m
    <3>1. k \in 1 .. m
      BY <2>1
    <3>2. u[k] = F[s[k]]
      BY <1>1, <3>1 DEF Maps
    <3> QED
      BY <1>2, <2>1, <3>2
  <2>2. CASE ~(k <= m)
    <3>1. PICK j \in 1 .. n : j = k - m
      BY <2>2
    <3>2. v[j] = F[t[j]]
      BY <1>1 DEF Maps
    <3> QED
      BY <1>2, <2>2, <3>1, <3>2
  <2> QED
    BY <2>1, <2>2
<1>4. s \o t \in Seq(R) /\ u \o v \in Seq(V)
  OBVIOUS
<1> QED
  BY <1>2, <1>3, <1>4 DEF Maps

Stored == [kind \in Kind |->
            [k \in DOMAIN immutables[kind] |-> SerializeSubstr(immutables[kind][k])]]

LEMMA StoredMaps ==
  ASSUME Sound
  PROVE  /\ \A kind \in Kind : DOMAIN Stored[kind] = DOMAIN immutables[kind]
         /\ DOMAIN AllOf(Stored) = DOMAIN AllSubstrings
         /\ \A k \in DOMAIN AllSubstrings : AllOf(Stored)[k] = SerializeSubstr(AllSubstrings[k])
<1> DEFINE R == Ranges(strings)
           F == [arc \in R |-> SerializeSubstr(arc)]
           V == {F[arc] : arc \in R}
<1>1. \A arc \in R : F[arc] = SerializeSubstr(arc) /\ F[arc] \in V
  OBVIOUS
<1> HIDE DEF F, V
<1>2. ASSUME NEW kind \in Kind
      PROVE  /\ immutables[kind] \in Seq(R) /\ Stored[kind] \in Seq(V)
             /\ DOMAIN Stored[kind] = DOMAIN immutables[kind]
             /\ Maps(F, immutables[kind], Stored[kind])
  <2>1. immutables[kind] \in Seq(R)
    BY DEF Sound, Addressed
  <2> HIDE DEF R
  <2>2. PICK n \in Nat : n = Len(immutables[kind]) /\ DOMAIN immutables[kind] = 1 .. n
    BY <2>1
  <2>3. \A k \in 1 .. n : immutables[kind][k] \in R
    BY <2>1, <2>2
  <2> DEFINE t == [k \in 1 .. n |-> SerializeSubstr(immutables[kind][k])]
  <2>4. Stored[kind] = t
    BY <2>2 DEF Stored
  <2>5. \A k \in 1 .. n : t[k] = F[immutables[kind][k]] /\ t[k] \in V
    BY <1>1, <2>3
  <2>6. t = [k \in 1 .. n |-> t[k]]
    OBVIOUS
  <2> HIDE DEF t
  <2>7. t \in Seq(V) /\ Len(t) = n /\ DOMAIN t = 1 .. n
    BY <2>5, <2>6
  <2> QED
    BY <2>1, <2>2, <2>4, <2>5, <2>7 DEF Maps
<1> DEFINE a == immutables["revision"]
           b == immutables["paragraph"]
           c == immutables["sentence"]
           d == immutables["word"]
           p == Stored["revision"]
           q == Stored["paragraph"]
           r == Stored["sentence"]
           s == Stored["word"]
<1>3. /\ a \in Seq(R) /\ b \in Seq(R) /\ c \in Seq(R) /\ d \in Seq(R)
      /\ p \in Seq(V) /\ q \in Seq(V) /\ r \in Seq(V) /\ s \in Seq(V)
      /\ Maps(F, a, p) /\ Maps(F, b, q) /\ Maps(F, c, r) /\ Maps(F, d, s)
  BY <1>2, Kinds
<1>4. AllSubstrings = a \o b \o c \o d /\ AllOf(Stored) = p \o q \o r \o s
  BY DEF AllSubstrings, AllOf
<1> HIDE DEF R, a, b, c, d, p, q, r, s
<1>5. a \o b \in Seq(R) /\ p \o q \in Seq(V) /\ Maps(F, a \o b, p \o q)
  BY <1>3, JoinMaps
<1>6. a \o b \o c \in Seq(R) /\ p \o q \o r \in Seq(V) /\ Maps(F, a \o b \o c, p \o q \o r)
  BY <1>3, <1>5, JoinMaps
<1>7. /\ a \o b \o c \o d \in Seq(R) /\ p \o q \o r \o s \in Seq(V)
      /\ Maps(F, a \o b \o c \o d, p \o q \o r \o s)
  BY <1>3, <1>6, JoinMaps
<1>8. AllSubstrings \in Seq(R) /\ AllOf(Stored) \in Seq(V) /\ Maps(F, AllSubstrings, AllOf(Stored))
  BY <1>4, <1>7
<1>9. PICK n \in Nat : n = Len(AllSubstrings) /\ DOMAIN AllSubstrings = 1 .. n /\ DOMAIN AllOf(Stored) = 1 .. n
  BY <1>8 DEF Maps
<1>10. \A k \in 1 .. n : AllSubstrings[k] \in R /\ AllOf(Stored)[k] = F[AllSubstrings[k]]
  BY <1>8, <1>9 DEF Maps
<1> QED
  BY <1>1, <1>2, <1>9, <1>10

Has(s, x) == \E i \in DOMAIN s : s[i] = x

LEMMA JoinHas ==
  ASSUME NEW R, NEW s \in Seq(R), NEW t \in Seq(R), NEW x, Has(s, x) \/ Has(t, x)
  PROVE  s \o t \in Seq(R) /\ Has(s \o t, x)
<1>1. PICK m, n \in Nat : m = Len(s) /\ n = Len(t) /\ DOMAIN s = 1 .. m /\ DOMAIN t = 1 .. n
  OBVIOUS
<1>2. /\ s \o t \in Seq(R) /\ DOMAIN (s \o t) = 1 .. m + n
      /\ \A i \in 1 .. m : (s \o t)[i] = s[i]
      /\ \A i \in 1 .. n : (s \o t)[m + i] = t[i]
  BY <1>1
<1>3. ASSUME Has(s, x)
      PROVE  Has(s \o t, x)
  <2>1. PICK i \in 1 .. m : s[i] = x
    BY <1>1, <1>3 DEF Has
  <2>2. i \in 1 .. m + n
    OBVIOUS
  <2> QED
    BY <1>2, <2>1, <2>2 DEF Has
<1>4. ASSUME Has(t, x)
      PROVE  Has(s \o t, x)
  <2>1. PICK i \in 1 .. n : t[i] = x
    BY <1>1, <1>4 DEF Has
  <2>2. m + i \in 1 .. m + n
    OBVIOUS
  <2> QED
    BY <1>2, <2>1, <2>2 DEF Has
<1> QED
  BY <1>2, <1>3, <1>4

\* Each entry of a kind is one of all.
LEMMA EntryListed ==
  ASSUME Sound, NEW kind \in Kind, NEW k \in DOMAIN immutables[kind]
  PROVE  \E j \in DOMAIN AllSubstrings : AllSubstrings[j] = immutables[kind][k]
<1> DEFINE R == Ranges(strings)
           a == immutables["revision"]
           b == immutables["paragraph"]
           c == immutables["sentence"]
           d == immutables["word"]
<1>1. a \in Seq(R) /\ b \in Seq(R) /\ c \in Seq(R) /\ d \in Seq(R)
  BY Kinds DEF Sound, Addressed
<1>2. AllSubstrings = a \o b \o c \o d
  BY DEF AllSubstrings, AllOf
<1>3. kind = "revision" \/ kind = "paragraph" \/ kind = "sentence" \/ kind = "word"
  BY DEF Kind
<1> HIDE DEF R
<1> DEFINE x == immutables[kind][k]
<1>4. Has(a, x) \/ Has(b, x) \/ Has(c, x) \/ Has(d, x)
  BY <1>3 DEF Has
<1> HIDE DEF a, b, c, d, x
<1>5. a \o b \in Seq(R) /\ a \o b \o c \in Seq(R)
  BY <1>1
<1>6. Has(a, x) \/ Has(b, x) => Has(a \o b, x)
  BY <1>1, JoinHas
<1>7. Has(a \o b, x) \/ Has(c, x) => Has(a \o b \o c, x)
  BY <1>1, <1>5, JoinHas
<1>8. Has(a \o b \o c, x) \/ Has(d, x) => Has(a \o b \o c \o d, x)
  BY <1>1, <1>5, JoinHas
<1>9. Has(AllSubstrings, x)
  BY <1>2, <1>4, <1>6, <1>7, <1>8
<1> QED
  BY <1>9 DEF x, Has

LEMMA SerializedIs ==
  /\ Serialized.strings = [i \in DOMAIN Bases |-> strings[Bases[i]]]
  /\ Serialized.substrings = Stored /\ Serialized.pointers = pointers
BY DEF Serialized, Stored

\* A stored range is one of the stored copy of the string it was a range of.
LEMMA StoredRange ==
  ASSUME Sound, NEW j \in DOMAIN AllSubstrings
  PROVE  LET arc == AllSubstrings[j]
             s == SerializeSubstr(arc)
             copies == [i \in DOMAIN Bases |-> strings[Bases[i]]]
         IN /\ s.base \in DOMAIN Bases /\ copies[s.base] = strings[arc.base]
            /\ s.from <= s.to /\ s.to <= Len(copies[s.base])
            /\ SubSeq(copies[s.base], s.from + 1, s.to) = AsStr(arc)
<1> DEFINE arc == AllSubstrings[j]
           s == SerializeSubstr(arc)
           copies == [i \in DOMAIN Bases |-> strings[Bases[i]]]
<1>1. SubstringsSound
  BY SubstringsAre
<1>2. arc \in Ranges(strings) /\ strings \in Seq(Text)
  BY <1>1 DEF SubstringsSound, Sound, Addressed
<1>3. /\ s.base \in DOMAIN Bases /\ Bases[s.base] = arc.base
      /\ IF arc.from = arc.to THEN s.from = 0 /\ s.to = 0
         ELSE s.from = arc.from /\ s.to = arc.to
  BY <1>1, SubstrSerialized
<1> HIDE DEF s
<1>4. copies[s.base] = strings[arc.base]
  BY <1>3
<1>5. /\ arc.base \in 1 .. Len(strings) /\ arc.from \in Nat /\ arc.to \in Nat
      /\ arc.from <= arc.to /\ arc.to <= Len(strings[arc.base])
  BY <1>2 DEF Ranges
<1>6. strings[arc.base] \in Seq(Symbol) /\ Len(strings[arc.base]) \in Nat
  BY <1>2, <1>5 DEF Text
<1>7. s.from <= s.to /\ s.to <= Len(strings[arc.base])
  BY <1>3, <1>5, <1>6
<1>8. SubSeq(strings[arc.base], s.from + 1, s.to) = AsStr(arc)
  <2>1. CASE arc.from # arc.to
    BY <1>3, <2>1 DEF AsStr
  <2>2. CASE arc.from = arc.to
    <3>1. \A q \in Nat : SubSeq(strings[arc.base], q + 1, q) = <<>>
      BY <1>6
    <3>2. s.from = 0 /\ s.to = 0
      BY <1>3, <2>2
    <3>3. AsStr(arc) = SubSeq(strings[arc.base], arc.to + 1, arc.to)
      BY <2>2 DEF AsStr
    <3>4. SubSeq(strings[arc.base], 0 + 1, 0) = <<>> /\ SubSeq(strings[arc.base], arc.to + 1, arc.to) = <<>>
      BY <1>5, <3>1
    <3> QED
      BY <3>2, <3>3, <3>4
  <2> QED
    BY <2>1, <2>2
<1> QED
  BY <1>3, <1>4, <1>7, <1>8 DEF s

\* A file that was not changed is accepted.
LEMMA SerializedValid ==
  ASSUME Sound, file = Serialized
  PROVE  Valid
<1>1. file.substrings = Stored /\ file.pointers = pointers
      /\ file.strings = [i \in DOMAIN Bases |-> strings[Bases[i]]]
  BY SerializedIs
<1>2. ASSUME NEW kind \in Kind, NEW s \in Range(Stored[kind])
      PROVE  SubstrExists(s)
  <2>1. PICK k \in DOMAIN immutables[kind] : s = SerializeSubstr(immutables[kind][k])
    BY <1>2 DEF Range, Stored
  <2>2. PICK j \in DOMAIN AllSubstrings : AllSubstrings[j] = immutables[kind][k]
    BY EntryListed
  <2>3. s = SerializeSubstr(AllSubstrings[j])
    BY <2>1, <2>2
  <2>4. DOMAIN file.strings = DOMAIN Bases
    BY <1>1
  <2>5. s.base \in DOMAIN Bases /\ s.from <= s.to /\ s.to <= Len(file.strings[s.base])
    BY <1>1, <2>3, StoredRange
  <2> QED
    BY <2>4, <2>5 DEF SubstrExists
<1>3. ASSUME NEW kind \in Kind, NEW list \in Range(pointers[kind])
      PROVE  Range(list) \subseteq DOMAIN Stored[kind]
  <2>1. Range(list) \subseteq DOMAIN immutables[kind]
    BY <1>3, SoundResolves DEF PointersResolve, Resolves
  <2> QED
    BY <2>1, StoredMaps
<1> QED
  BY <1>1, <1>2, <1>3 DEF Valid, PointersExist

LEMMA StoredIsFound ==
  ASSUME Sound, NEW l, l.strings = Serialized.strings, l.immutables = Stored,
         NEW kind \in Kind, NEW k \in DOMAIN immutables[kind]
  PROVE  /\ DOMAIN l.immutables[kind] = DOMAIN immutables[kind]
         /\ SubSeq(l.strings[l.immutables[kind][k].base], l.immutables[kind][k].from + 1,
                   l.immutables[kind][k].to)
              = AsStr(immutables[kind][k])
<1>1. DOMAIN Stored[kind] = DOMAIN immutables[kind]
  BY StoredMaps
<1>2. Stored[kind][k] = SerializeSubstr(immutables[kind][k])
  BY DEF Stored
<1>3. PICK j \in DOMAIN AllSubstrings : AllSubstrings[j] = immutables[kind][k]
  BY EntryListed
<1>4. l.strings = [i \in DOMAIN Bases |-> strings[Bases[i]]]
  BY SerializedIs
<1>5. l.immutables[kind][k] = SerializeSubstr(AllSubstrings[j])
  BY <1>2, <1>3
<1>6. SubSeq(l.strings[l.immutables[kind][k].base], l.immutables[kind][k].from + 1,
             l.immutables[kind][k].to) = AsStr(AllSubstrings[j])
  BY <1>4, <1>5, StoredRange
<1> QED
  BY <1>1, <1>3, <1>6

LEMMA SharingReturns ==
  ASSUME Sound
  PROVE  /\ \A i, j \in DOMAIN AllSubstrings :
              AllSubstrings[i].base = AllSubstrings[j].base
                <=> AllOf(Stored)[i].base = AllOf(Stored)[j].base
         /\ DOMAIN Bases = {arc.base : arc \in Range(AllOf(Stored))}
<1>1. SubstringsSound
  BY SubstringsAre
<1>2. PICK m \in Nat :
        /\ DOMAIN Bases = 1 .. m
        /\ \A i \in 1 .. m : \E k \in DOMAIN AllSubstrings : Bases[i] = AllSubstrings[k].base
        /\ \A i, j \in 1 .. m : Bases[i] = Bases[j] => i = j
  BY <1>1, BasesAre
<1> DEFINE index(k) == AllOf(Stored)[k].base
<1>3. ASSUME NEW k \in DOMAIN AllSubstrings
      PROVE  index(k) \in 1 .. m /\ Bases[index(k)] = AllSubstrings[k].base
  <2>1. AllOf(Stored)[k] = SerializeSubstr(AllSubstrings[k])
    BY StoredMaps
  <2> QED
    BY <1>1, <1>2, <2>1, SubstrSerialized
<1>4. DOMAIN AllOf(Stored) = DOMAIN AllSubstrings
  BY StoredMaps
<1>5. {arc.base : arc \in Range(AllOf(Stored))} = {index(k) : k \in DOMAIN AllSubstrings}
  BY <1>4 DEF Range
<1> HIDE DEF index
<1>6. ASSUME NEW i \in 1 .. m
      PROVE  \E k \in DOMAIN AllSubstrings : i = index(k)
  <2>1. PICK k \in DOMAIN AllSubstrings : Bases[i] = AllSubstrings[k].base
    BY <1>2
  <2>2. index(k) \in 1 .. m /\ Bases[index(k)] = Bases[i]
    BY <1>3, <2>1
  <2>3. index(k) = i
    BY <1>2, <2>2
  <2> QED
    BY <2>3
<1>7. {index(k) : k \in DOMAIN AllSubstrings} = 1 .. m
  BY <1>3, <1>6
<1>8. ASSUME NEW i \in DOMAIN AllSubstrings, NEW j \in DOMAIN AllSubstrings
      PROVE  AllSubstrings[i].base = AllSubstrings[j].base <=> index(i) = index(j)
  <2>1. index(i) \in 1 .. m /\ Bases[index(i)] = AllSubstrings[i].base
    BY <1>3
  <2>2. index(j) \in 1 .. m /\ Bases[index(j)] = AllSubstrings[j].base
    BY <1>3
  <2> QED
    BY <1>2, <2>1, <2>2
<1> QED
  BY <1>2, <1>5, <1>7, <1>8 DEF index

\* What the file and the loaded page are, once there are any.
Kept ==
  /\ Sound
  /\ pc \in {"stored", "loaded", "rejected"} /\ ~changed => file = Serialized
  /\ pc = "loaded" => loaded = [strings |-> file.strings, immutables |-> file.substrings,
                                pointers |-> file.pointers]
  /\ pc = "rejected" => ~Valid

LEMMA SerializedStays ==
  ASSUME UNCHANGED page
  PROVE  Serialized' = Serialized
BY DEF page, Serialized, SerializeSubstr, Bases, AllSubstrings

LEMMA KeptNext == Kept /\ [Next]_vars => Kept'
<1> SUFFICES ASSUME Kept, [Next]_vars
             PROVE  Kept'
  OBVIOUS
<1>1. Sound'
  BY SoundNext DEF Kept
<1>2. CASE NextText /\ UNCHANGED <<file, changed, loaded>>
  <2>1. pc' \in {"paragraphs", "analysed"}
    BY <1>2 DEF NextText, SplitRevision, SplitParagraph, ParagraphLeft, AddWords
  <2> QED
    BY <1>1, <2>1 DEF Kept
<1>3. CASE Store
  <2>1. file' = Serialized /\ pc' = "stored" /\ UNCHANGED page
    BY <1>3 DEF Store
  <2>2. file' = Serialized'
    BY <2>1, SerializedStays
  <2> QED
    BY <1>1, <2>1, <2>2 DEF Kept
<1>4. CASE Change
  <2>1. changed' = TRUE /\ pc' = "stored"
    BY <1>4 DEF Change
  <2> QED
    BY <1>1, <2>1 DEF Kept
<1>5. CASE Load
  <2>1. /\ pc = "stored" /\ pc' = "loaded" /\ UNCHANGED <<page, file, changed>>
        /\ loaded' = [strings |-> file.strings, immutables |-> file.substrings,
                      pointers |-> file.pointers]
    BY <1>5 DEF Load
  <2>2. Serialized' = Serialized
    BY <2>1, SerializedStays
  <2>3. ~changed' => file' = Serialized'
    BY <2>1, <2>2 DEF Kept
  <2>4. loaded' = [strings |-> file'.strings, immutables |-> file'.substrings,
                   pointers |-> file'.pointers]
    BY <2>1
  <2> QED
    BY <1>1, <2>1, <2>3, <2>4 DEF Kept
<1>6. CASE Reject
  <2>1. pc = "stored" /\ pc' = "rejected" /\ ~Valid /\ UNCHANGED <<page, file, changed>>
    BY <1>6 DEF Reject
  <2>2. Serialized' = Serialized
    BY <2>1, SerializedStays
  <2>3. ~Valid'
    BY <2>1 DEF Valid, SubstrExists, PointersExist
  <2>4. ~changed' => file' = Serialized'
    BY <2>1, <2>2 DEF Kept
  <2> QED
    BY <1>1, <2>1, <2>3, <2>4 DEF Kept
<1>7. CASE UNCHANGED vars
  <2>1. UNCHANGED <<pc, page, file, changed, loaded>>
    BY <1>7 DEF vars
  <2>2. Serialized' = Serialized /\ Valid' = Valid
    BY <2>1, SerializedStays DEF Valid, SubstrExists, PointersExist
  <2> QED
    BY <1>1, <2>1, <2>2 DEF Kept
<1> QED
  BY <1>2, <1>3, <1>4, <1>5, <1>6, <1>7 DEF Next, Finished

LEMMA AlwaysKept == Spec => []Kept
<1>1. Init => Kept
  BY SoundInit DEF Init, InitText, Kept
<1> QED
  BY <1>1, KeptNext, PTL DEF Spec

\* Whatever the text: a page that is stored and loaded again, with the file as
\* it was written, is never refused, has the same entries and pointers, and
\* shares its strings as before, each of them stored once.
THEOREM StoredReturns == Spec => []StoredPageReturns
<1>1. Kept => StoredPageReturns
  <2> SUFFICES ASSUME Kept, pc \in {"loaded", "rejected"}, ~changed
               PROVE  StoredPageReturns
    BY DEF StoredPageReturns
  <2>1. Sound /\ file = Serialized
    BY DEF Kept
  <2>2. pc = "loaded"
    BY <2>1, SerializedValid DEF Kept
  <2>3. /\ loaded.strings = Serialized.strings /\ loaded.immutables = Stored
        /\ loaded.pointers = pointers
    BY <2>1, <2>2, SerializedIs DEF Kept
  <2>4. ASSUME NEW kind \in Kind
        PROVE  [k \in DOMAIN loaded.immutables[kind] |-> LoadedStr(loaded.immutables[kind][k])]
                 = Strings(kind)
    <3>1. DOMAIN loaded.immutables[kind] = DOMAIN immutables[kind]
      BY <2>1, <2>3, StoredMaps
    <3>2. \A k \in DOMAIN immutables[kind] :
            LoadedStr(loaded.immutables[kind][k]) = AsStr(immutables[kind][k])
      BY <2>1, <2>3, StoredIsFound DEF LoadedStr
    <3> QED
      BY <3>1, <3>2 DEF Strings
  <2>5. DOMAIN loaded.strings = DOMAIN Bases
    BY <2>3, SerializedIs
  <2> QED
    BY <2>1, <2>2, <2>3, <2>4, <2>5, SharingReturns DEF StoredPageReturns
<1> QED
  BY <1>1, AlwaysKept, PTL

-----------------------------------------------------------------------------
(* What sequences put together are made of.                                *)

LEMMA JoinedLength ==
  \A S : \A x, y \in Seq(S) : x \o y \in Seq(S) /\ Len(x \o y) = Len(x) + Len(y)
OBVIOUS

LEMMA FlattenedJoin ==
  ASSUME NEW S, NEW a \in Seq(Seq(S)), NEW b \in Seq(Seq(S))
  PROVE  FlattenSeq(a \o b) = FlattenSeq(a) \o FlattenSeq(b)
<1>0. \A x, y, z \in Seq(S) : (x \o y) \o z = x \o (y \o z)
  BY ConcatAssociative, SMTT(30)
<1>1. PICK m, n \in Nat : /\ m = Len(a) /\ DOMAIN a = 1 .. m
                          /\ n = Len(b) /\ DOMAIN b = 1 .. n
  OBVIOUS
<1> DEFINE T == Seq(S)
           ab == a \o b
<1>2. /\ ab \in Seq(T) /\ Len(ab) = m + n
      /\ \A i \in 1 .. m : ab[i] = a[i]
      /\ \A i \in 1 .. n : ab[m + i] = b[i]
  <2> HIDE DEF T
  <2>1. a \in Seq(T) /\ b \in Seq(T)
    BY DEF T
  <2> QED
    BY <1>1, <2>1
<1> HIDE DEF ab
<1>3. PICK f \in [0 .. m + n -> T] : Joins(f, ab) /\ FlattenSeq(ab) = f[m + n]
  BY <1>2, Flattened, SMTT(30)
<1>4. PICK h \in [0 .. n -> T] : Joins(h, b) /\ FlattenSeq(b) = h[n]
  BY <1>1, Flattened
<1>5. f[m] = FlattenSeq(a)
  <2>1. FlattenSeq(SubSeq(ab, 1, m)) = f[m]
    <3>1. m \in 0 .. Len(ab) /\ ab \in Seq(Seq(S)) /\ f \in [0 .. Len(ab) -> Seq(S)]
      BY <1>1, <1>2, <1>3
    <3> QED
      BY <1>3, <3>1, PrefixFlattened
  <2>2. SubSeq(ab, 1, m) = a
    <3> HIDE DEF T
    <3>1. a \in Seq(T)
      BY DEF T
    <3>2. 1 \in Int /\ m \in Int /\ \A i \in 1 .. m : ab[i] \in T
      BY <1>1, <1>2, <3>1
    <3>3. /\ SubSeq(ab, 1, m) \in Seq(T) /\ Len(SubSeq(ab, 1, m)) = m
          /\ \A i \in 1 .. m : SubSeq(ab, 1, m)[i] = a[i]
      BY <1>1, <1>2, <3>2
    <3> QED
      BY <1>1, <3>1, <3>3, SeqEqual
  <2> QED
    BY <2>1, <2>2
<1> DEFINE P == {k \in 0 .. n : f[m + k] = f[m] \o h[k]}
<1>6. 0 \in P
  <2>1. f[m] \in Seq(S) /\ h[0] = <<>> /\ m + 0 = m
    BY <1>1, <1>3, <1>4 DEF Joins
  <2>2. f[m] \o <<>> = f[m]
    BY <2>1, ConcatEmptySeq
  <2>3. f[m + 0] = f[m] \o h[0]
    BY <2>1, <2>2, Zenon
  <2>4. 0 \in 0 .. n
    BY <1>1
  <2> QED
    BY <2>3, <2>4, Zenon
<1>7. ASSUME NEW k \in 0 .. n - 1, k \in P
      PROVE  k + 1 \in P
  <2>1. PICK j \in 1 .. n : j = k + 1 /\ j - 1 = k
    OBVIOUS
  <2>2. m + j \in 1 .. m + n /\ (m + j) - 1 = m + k /\ m \in 0 .. m + n
    BY <1>1, <2>1
  <2>3. f[m + j] = f[m + k] \o b[j]
    BY <1>2, <1>3, <2>2 DEF Joins
  <2>4. h[j] = h[k] \o b[j]
    BY <1>1, <1>4, <2>1 DEF Joins
  <2>5. f[m] \in Seq(S) /\ h[k] \in Seq(S) /\ b[j] \in Seq(S)
    <3>1. k \in 0 .. n
      BY <2>1
    <3>2. f[m] \in T /\ h[k] \in T
      BY <1>3, <1>4, <2>2, <3>1, Zenon
    <3> HIDE DEF T
    <3>3. b \in Seq(T)
      BY DEF T
    <3>4. b[j] \in T
      BY <1>1, <2>1, <3>3
    <3> QED
      BY <3>2, <3>4 DEF T
  <2>6. f[m + k] = f[m] \o h[k]
    BY <1>7
  <2>7. f[m + j] = f[m] \o h[j]
    <3>1. (f[m] \o h[k]) \o b[j] = f[m] \o (h[k] \o b[j])
      BY <1>0, <2>5, Zenon
    <3> QED
      BY <2>3, <2>4, <2>6, <3>1, Zenon
  <2>8. j \in 0 .. n
    BY <2>1
  <2> QED
    BY <2>1, <2>7, <2>8, Zenon
<1>8. n \in P
  <2> HIDE DEF P
  <2>1. \A k \in 0 .. n : k \in P
    BY <1>1, <1>6, <1>7, Upwards
  <2> QED
    BY <1>1, <2>1
<1> QED
  BY <1>3, <1>4, <1>5, <1>8 DEF ab

\* What the items of s stand for, one after the other.
Flat(G, s) == FlattenSeq([k \in DOMAIN s |-> G[s[k]]])

LEMMA FlatItems ==
  ASSUME NEW A, NEW V, NEW G \in [A -> Seq(V)], NEW s \in Seq(A)
  PROVE  /\ [k \in DOMAIN s |-> G[s[k]]] \in Seq(Seq(V))
         /\ Len([k \in DOMAIN s |-> G[s[k]]]) = Len(s)
<1> DEFINE W == Seq(V)
<1>1. PICK n \in Nat : n = Len(s) /\ DOMAIN s = 1 .. n /\ \A k \in 1 .. n : s[k] \in A
  OBVIOUS
<1> HIDE DEF W
<1>2. \A k \in 1 .. n : G[s[k]] \in W
  BY <1>1 DEF W
<1>3. [k \in 1 .. n |-> G[s[k]]] \in Seq(W) /\ Len([k \in 1 .. n |-> G[s[k]]]) = n
  BY <1>2
<1> QED
  BY <1>1, <1>3 DEF W

LEMMA FlatType ==
  ASSUME NEW A, NEW V, NEW G \in [A -> Seq(V)], NEW s \in Seq(A)
  PROVE  Flat(G, s) \in Seq(V)
<1> DEFINE items == [k \in DOMAIN s |-> G[s[k]]]
<1>1. items \in Seq(Seq(V))
  BY FlatItems
<1> HIDE DEF items
<1>2. FlattenSeq(items) \in Seq(V)
  BY <1>1, FlattenedType
<1> QED
  BY <1>2, Zenon DEF Flat, items

LEMMA FlatEmpty ==
  ASSUME NEW G
  PROVE  Flat(G, <<>>) = <<>>
<1>1. Len([k \in DOMAIN <<>> |-> G[<<>>[k]]]) = 0 /\ [k \in DOMAIN <<>> |-> G[<<>>[k]]] = <<>>
  OBVIOUS
<1> QED
  BY <1>1 DEF Flat, FlattenSeq

LEMMA FlatOne ==
  ASSUME NEW A, NEW V, NEW G \in [A -> Seq(V)], NEW x \in A
  PROVE  Flat(G, <<x>>) = G[x]
<1>1. <<x>> \in Seq(A) /\ Len(<<x>>) = 1 /\ DOMAIN <<x>> = 1 .. 1 /\ <<x>>[1] = x
  OBVIOUS
<1> DEFINE s == [k \in DOMAIN <<x>> |-> G[<<x>>[k]]]
<1>2. s \in Seq(Seq(V)) /\ Len(s) = 1
  BY <1>1, FlatItems
<1>3. s[1] = G[x]
  BY <1>1
<1>4. Flat(G, <<x>>) = FlattenSeq(s)
  BY DEF Flat
<1> HIDE DEF s
<1>5. PICK f \in [0 .. 1 -> Seq(V)] : Joins(f, s) /\ FlattenSeq(s) = f[1]
  BY <1>2, Flattened
<1>6. f[1] = <<>> \o s[1]
  <2>1. 1 \in 1 .. Len(s) /\ 1 - 1 = 0
    BY <1>2
  <2> QED
    BY <1>5, <2>1, Zenon DEF Joins
<1>7. <<>> \o G[x] = G[x]
  BY ConcatEmptySeq
<1> QED
  BY <1>3, <1>4, <1>5, <1>6, <1>7

LEMMA FlatJoin ==
  ASSUME NEW A, NEW V, NEW G \in [A -> Seq(V)], NEW s \in Seq(A), NEW t \in Seq(A)
  PROVE  Flat(G, s \o t) = Flat(G, s) \o Flat(G, t)
<1> DEFINE g(u) == [k \in DOMAIN u |-> G[u[k]]]
<1>1. PICK m, n \in Nat : /\ m = Len(s) /\ DOMAIN s = 1 .. m
                          /\ n = Len(t) /\ DOMAIN t = 1 .. n
  OBVIOUS
<1>2. s \o t \in Seq(A) /\ Len(s \o t) = m + n /\ DOMAIN (s \o t) = 1 .. m + n
  BY <1>1
<1>3. \A k \in 1 .. m + n : (s \o t)[k] = IF k <= m THEN s[k] ELSE t[k - m]
  BY <1>1
<1>4. /\ g(s) \in Seq(Seq(V)) /\ Len(g(s)) = m
      /\ g(t) \in Seq(Seq(V)) /\ Len(g(t)) = n
      /\ g(s \o t) \in Seq(Seq(V)) /\ Len(g(s \o t)) = m + n
  BY <1>1, <1>2, FlatItems
<1>5. ASSUME NEW k \in 1 .. m + n
      PROVE  g(s \o t)[k] = (g(s) \o g(t))[k]
  <2>1. g(s \o t)[k] = G[(s \o t)[k]]
    BY <1>2
  <2>2. (g(s) \o g(t))[k] = IF k <= m THEN g(s)[k] ELSE g(t)[k - m]
    <3> DEFINE W == Seq(V)
               a == g(s)
               b == g(t)
    <3> HIDE DEF W, a, b
    <3>1. a \in Seq(W) /\ Len(a) = m /\ b \in Seq(W) /\ Len(b) = n
      BY <1>4 DEF a, b, W
    <3>2. (a \o b)[k] = IF k <= m THEN a[k] ELSE b[k - m]
      BY <3>1
    <3> QED
      BY <3>2 DEF a, b
  <2>3. CASE k <= m
    <3>1. k \in 1 .. m
      BY <2>3
    <3> QED
      BY <1>1, <1>3, <2>1, <2>2, <2>3, <3>1
  <2>4. CASE ~(k <= m)
    <3>1. k - m \in 1 .. n
      BY <1>1, <2>4
    <3> QED
      BY <1>1, <1>3, <2>1, <2>2, <2>4, <3>1
  <2> QED
    BY <2>3, <2>4
<1>6. g(s \o t) = g(s) \o g(t)
  <2> HIDE DEF g
  <2> DEFINE W == Seq(V)
             a == g(s)
             b == g(t)
             c == g(s \o t)
  <2> HIDE DEF W, a, b, c
  <2>1. a \in Seq(W) /\ b \in Seq(W) /\ c \in Seq(W) /\ Len(c) = m + n /\ Len(a) = m /\ Len(b) = n
    BY <1>4 DEF W, a, b, c
  <2>2. a \o b \in Seq(W) /\ Len(a \o b) = m + n
    BY <2>1, JoinedLength, Zenon
  <2>3. \A k \in 1 .. Len(c) : c[k] = (a \o b)[k]
    BY <1>5, <2>1 DEF a, b, c
  <2>4. c = a \o b
    BY <2>1, <2>2, <2>3, SeqEqual
  <2> QED
    BY <2>4 DEF a, b, c
<1>7. FlattenSeq(g(s) \o g(t)) = FlattenSeq(g(s)) \o FlattenSeq(g(t))
  BY <1>4, FlattenedJoin
<1> QED
  BY <1>6, <1>7 DEF Flat

-----------------------------------------------------------------------------
(* Texts put together.                                                     *)

LEMMA TextEmpty == <<>> \in Text
BY DEF Text

LEMMA TextSymbol == \A s \in Symbol : <<s>> \in Text
BY DEF Text

LEMMA TextAgain == \A a, b, c \in Text : (a \o b) \o c = a \o (b \o c)
BY ConcatAssociative DEF Text

LEMMA FirstAgain ==
  \A s \in Symbol : \A x, y \in Text :
    (<<s>> \o x) \o y = <<s>> \o (x \o y) /\ x \o y \in Text /\ <<s>> \o x \in Text
BY TextSymbol, TextAgain, JoinedTexts

LEMMA TextAlone == \A a \in Text : a \o <<>> = a /\ <<>> \o a = a
BY ConcatEmptySeq DEF Text

\* What is left of a text, after a part of it.
LEMMA RestFrom ==
  ASSUME NEW t \in Text, NEW i \in 1 .. Len(t), NEW n \in Nat, i + n <= Len(t) + 1
  PROVE  /\ SubSeq(t, i, i + n - 1) \in Text
         /\ Rest(t, i) = SubSeq(t, i, i + n - 1) \o Rest(t, i + n)
<1>1. PICK L \in Nat : L = Len(t) /\ t \in Seq(Symbol)
  BY DEF Text
<1>2. SubSeq(t, i, i + n - 1) \in Text
  BY PartOfText
<1>3. PICK k \in Nat : k = i + n - 1
  BY <1>1
<1>4. i \in 1 .. Len(t) + 1 /\ k \in i - 1 .. Len(t) /\ L \in k .. Len(t) /\ k + 1 = i + n
  BY <1>1, <1>3
<1>5. SubSeq(t, i, k) \o SubSeq(t, k + 1, L) = SubSeq(t, i, L)
  BY <1>1, <1>4, ConcatAdjacentSubSeq
<1> QED
  BY <1>1, <1>2, <1>3, <1>4, <1>5 DEF Rest

LEMMA StepJumps ==
  ASSUME NEW m \in Nat
  PROVE  Jumps([i \in 1 .. m |-> i + 1], m)
BY DEF Jumps

\* Texts are built from the last symbol backwards.
LEMMA TextInduction ==
  ASSUME NEW P, <<>> \in P, \A s \in Symbol : \A x \in Text : x \in P => <<s>> \o x \in P
  PROVE  \A t \in Text : t \in P
<1> SUFFICES ASSUME NEW t \in Text
             PROVE  t \in P
  OBVIOUS
<1>1. PICK L \in Nat : L = Len(t)
  BY DEF Text
<1> DEFINE next == [i \in 1 .. L |-> i + 1]
           Q == {i \in 1 .. L + 1 : Rest(t, i) \in P}
<1>2. L + 1 \in Q
  <2>1. Rest(t, L + 1) \in P
    BY <1>1, RestIs, Zenon
  <2> QED
    BY <2>1
<1>3. ASSUME NEW i \in 1 .. L, next[i] \in Q
      PROVE  i \in Q
  <2>1. next[i] = i + 1 /\ i + 1 \in 1 .. L + 1 /\ i \in 1 .. L + 1
    OBVIOUS
  <2>2. Rest(t, i + 1) \in P /\ Rest(t, i + 1) \in Text
    BY <1>1, <1>3, <2>1, RestIs, Zenon
  <2>3. t[i] \in Symbol /\ Rest(t, i) = <<t[i]>> \o Rest(t, i + 1)
    BY <1>1, RestIs, Zenon
  <2>4. Rest(t, i) \in P
    BY <2>2, <2>3, Zenon
  <2> QED
    BY <2>1, <2>4
<1>4. Jumps(next, L)
  BY StepJumps
<1>5. \A i \in 1 .. L + 1 : i \in Q
  <2> HIDE DEF Q, next
  <2> QED
    BY <1>2, <1>3, <1>4, Downwards
<1>6. Rest(t, 1) \in P
  BY <1>5
<1> QED
  BY <1>6, RestIs

\* Symbols left out of a text.
Left(symbols) == [s \in Symbol |-> IF s \in symbols THEN <<>> ELSE <<s>>]

LEMMA LeftIs ==
  ASSUME NEW symbols
  PROVE  Left(symbols) \in [Symbol -> Text]
<1>1. ASSUME NEW s \in Symbol
      PROVE  (IF s \in symbols THEN <<>> ELSE <<s>>) \in Text
  BY TextEmpty, TextSymbol
<1> QED
  BY <1>1 DEF Left

LEMMA WithoutIs ==
  ASSUME NEW symbols, NEW t \in Text
  PROVE  Without(t, symbols) = Flat(Left(symbols), t) /\ Without(t, symbols) \in Text
<1>1. PICK L \in Nat : DOMAIN t = 1 .. L /\ \A i \in 1 .. L : t[i] \in Symbol
  BY DEF Text
<1>2. \A i \in 1 .. L : Left(symbols)[t[i]] = IF t[i] \in symbols THEN <<>> ELSE <<t[i]>>
  BY <1>1 DEF Left
<1>3. [i \in DOMAIN t |-> Left(symbols)[t[i]]]
        = [i \in DOMAIN t |-> IF t[i] \in symbols THEN <<>> ELSE <<t[i]>>]
  BY <1>1, <1>2, Zenon
<1>4. Without(t, symbols) = Flat(Left(symbols), t)
  BY <1>3, Zenon DEF Without, Flat
<1>5. Flat(Left(symbols), t) \in Seq(Symbol)
  BY LeftIs, FlatType DEF Text
<1> QED
  BY <1>4, <1>5 DEF Text

LEMMA WithoutEmpty ==
  ASSUME NEW symbols
  PROVE  Without(<<>>, symbols) = <<>>
BY TextEmpty, WithoutIs, FlatEmpty

LEMMA WithoutOne ==
  ASSUME NEW symbols, NEW s \in Symbol
  PROVE  Without(<<s>>, symbols) = IF s \in symbols THEN <<>> ELSE <<s>>
<1>1. Flat(Left(symbols), <<s>>) = Left(symbols)[s]
  BY LeftIs, FlatOne DEF Text
<1> QED
  BY <1>1, TextSymbol, WithoutIs DEF Left

LEMMA WithoutJoin ==
  ASSUME NEW symbols, NEW a \in Text, NEW b \in Text
  PROVE  Without(a \o b, symbols) = Without(a, symbols) \o Without(b, symbols)
<1>1. PICK G \in [Symbol -> Seq(Symbol)] : G = Left(symbols)
  BY LeftIs DEF Text
<1>2. Flat(G, a \o b) = Flat(G, a) \o Flat(G, b)
  BY FlatJoin DEF Text
<1> QED
  BY <1>1, <1>2, WithoutIs, JoinedTexts

LEMMA WithoutFirst ==
  ASSUME NEW symbols, NEW s \in Symbol, NEW x \in Text
  PROVE  Without(<<s>> \o x, symbols)
           = IF s \in symbols THEN Without(x, symbols) ELSE <<s>> \o Without(x, symbols)
<1>1. Without(<<s>> \o x, symbols) = Without(<<s>>, symbols) \o Without(x, symbols)
  BY TextSymbol, WithoutJoin
<1>2. <<>> \o Without(x, symbols) = Without(x, symbols)
  BY WithoutIs, TextAlone
<1> QED
  BY <1>1, <1>2, WithoutOne

-----------------------------------------------------------------------------
(* Reading a text from its end.  White space is passed over, and so are    *)
(* four "@" that stand together, which the rules put in where a sentence   *)
(* ends: run counts the "@" since, rest is what was read before them.      *)

Readings == [run : 0 .. 3, rest : Text]
Unread == [run |-> 0, rest |-> <<>>]

Ats(n) == [i \in 1 .. n |-> "@"]
Spelled(reading) == Ats(reading.run) \o reading.rest

ReadSymbol(s, reading) ==
  IF s = "@"
  THEN [run |-> IF reading.run = 3 THEN 0 ELSE reading.run + 1, rest |-> reading.rest]
  ELSE [run |-> 0,
        rest |-> IF s \in White THEN Spelled(reading) ELSE <<s>> \o Spelled(reading)]

Reads(f, t) ==
  /\ f \in [1 .. Len(t) + 1 -> Readings]
  /\ \A i \in 1 .. Len(t) + 1 : f[i] = IF i > Len(t) THEN Unread ELSE ReadSymbol(t[i], f[i + 1])

Reading(t) == (CHOOSE f : Reads(f, t))[1]
Spell(t) == Spelled(Reading(t))

LEMMA AtsAre ==
  /\ Ats(0) = <<>>
  /\ \A n \in Nat : Ats(n) \in Text /\ <<"@">> \o Ats(n) = Ats(n + 1)
<1>1. Ats(0) = <<>>
  BY DEF Ats
<1>2. \A n \in Nat : Ats(n) \in Text
  BY Marks DEF Ats, Text
<1>3. ASSUME NEW n \in Nat
      PROVE  <<"@">> \o Ats(n) = Ats(n + 1)
  <2>1. Len(Ats(n)) = n /\ Ats(n) \in Seq(Symbol) /\ \A k \in 1 .. n : Ats(n)[k] = "@"
    BY <1>2 DEF Ats, Text
  <2> DEFINE a == <<"@">> \o Ats(n)
             b == Ats(n + 1)
  <2>2. /\ a \in Seq(Symbol) /\ Len(a) = n + 1 /\ a[1] = "@"
        /\ \A k \in 1 .. n + 1 : k # 1 => a[k] = Ats(n)[k - 1]
    BY <2>1, Marks, OneBefore
  <2>3. b \in Seq(Symbol) /\ Len(b) = n + 1 /\ \A k \in 1 .. n + 1 : b[k] = "@"
    <3>1. n + 1 \in Nat
      OBVIOUS
    <3> QED
      BY <1>2, <3>1 DEF Ats, Text
  <2> HIDE DEF a, b
  <2>4. \A k \in 1 .. n + 1 : a[k] = b[k]
    <3> TAKE k \in 1 .. n + 1
    <3>1. k # 1 => k - 1 \in 1 .. n
      OBVIOUS
    <3> QED
      BY <2>1, <2>2, <2>3, <3>1
  <2>5. a = b
    BY <2>2, <2>3, <2>4, SeqEqual
  <2> QED
    BY <2>5 DEF a, b
<1> QED
  BY <1>1, <1>2, <1>3

LEMMA SpelledIsText ==
  ASSUME NEW reading \in Readings
  PROVE  /\ reading.run \in 0 .. 3 /\ reading.run \in Nat /\ reading.rest \in Text
         /\ Ats(reading.run) \in Text /\ Spelled(reading) \in Text
<1>1. reading.run \in 0 .. 3 /\ reading.run \in Nat /\ reading.rest \in Text
  BY DEF Readings
<1>2. Ats(reading.run) \in Text
  BY <1>1, AtsAre
<1>3. Spelled(reading) \in Text
  BY <1>1, <1>2, JoinedTexts, Zenon DEF Spelled
<1> QED
  BY <1>1, <1>2, <1>3

LEMMA UnreadIs == Unread \in Readings /\ Spelled(Unread) = <<>>
<1>1. Unread \in Readings
  BY TextEmpty DEF Unread, Readings
<1>2. Unread.run = 0 /\ Unread.rest = <<>>
  BY DEF Unread
<1>3. <<>> \o <<>> = <<>>
  BY TextEmpty, TextAlone
<1> QED
  BY <1>1, <1>2, <1>3, AtsAre, Zenon DEF Spelled

LEMMA ReadingOf ==
  ASSUME NEW n \in 0 .. 3, NEW x \in Text
  PROVE  /\ [run |-> n, rest |-> x] \in Readings
         /\ [run |-> n, rest |-> x].run = n /\ [run |-> n, rest |-> x].rest = x
BY DEF Readings

LEMMA ReadSymbolIs ==
  ASSUME NEW s \in Symbol, NEW reading \in Readings
  PROVE  ReadSymbol(s, reading) \in Readings
<1>1. /\ reading.run \in 0 .. 3 /\ reading.rest \in Text
      /\ Spelled(reading) \in Text
  BY SpelledIsText
<1>2. <<s>> \o Spelled(reading) \in Text
  BY <1>1, TextSymbol, JoinedTexts
<1>3. (IF reading.run = 3 THEN 0 ELSE reading.run + 1) \in 0 .. 3
  BY <1>1
<1>4. (IF s \in White THEN Spelled(reading) ELSE <<s>> \o Spelled(reading)) \in Text
  BY <1>1, <1>2
<1>5. 0 \in 0 .. 3
  OBVIOUS
<1> QED
  BY <1>1, <1>3, <1>4, <1>5, ReadingOf, Zenon DEF ReadSymbol

LEMMA ReadsExists ==
  ASSUME NEW t \in Text
  PROVE  \E f : Reads(f, t)
<1>1. PICK L \in Nat : L = Len(t) /\ \A i \in 1 .. L : t[i] \in Symbol
  BY DEF Text
<1> DEFINE next == [i \in 1 .. L |-> i + 1]
           g == [i \in 1 .. L |-> [reading \in Readings |-> ReadSymbol(t[i], reading)]]
<1>2. Jumps(next, L)
  BY StepJumps
<1>3. \A i \in 1 .. L : \A reading \in Readings : ReadSymbol(t[i], reading) \in Readings
  BY <1>1, ReadSymbolIs
<1>4. /\ g \in [1 .. L -> [Readings -> Readings]]
      /\ \A i \in 1 .. L : \A reading \in Readings : g[i][reading] = ReadSymbol(t[i], reading)
  BY <1>3
<1>5. \A i \in 1 .. L : next[i] = i + 1
  OBVIOUS
<1> HIDE DEF g, next
<1>6. PICK f \in [1 .. L + 1 -> Readings] : Scans(f, L, Unread, next, g)
  BY <1>2, <1>4, UnreadIs, ScanExists
<1>7. ASSUME NEW i \in 1 .. L + 1
      PROVE  f[i] = IF i > L THEN Unread ELSE ReadSymbol(t[i], f[i + 1])
  <2>1. f[i] = IF i > L THEN Unread ELSE g[i][f[next[i]]]
    BY <1>6 DEF Scans
  <2>2. CASE i > L
    BY <2>1, <2>2
  <2>3. CASE ~(i > L)
    <3>1. i \in 1 .. L /\ i + 1 \in 1 .. L + 1
      BY <2>3
    <3>2. f[i + 1] \in Readings
      BY <1>6, <3>1
    <3> QED
      BY <1>4, <1>5, <2>1, <2>3, <3>1, <3>2
  <2> QED
    BY <2>2, <2>3
<1> QED
  BY <1>1, <1>6, <1>7 DEF Reads

LEMMA ReadsOnce ==
  ASSUME NEW t \in Text, NEW f, NEW g, Reads(f, t), Reads(g, t)
  PROVE  f[1] = g[1]
<1>1. PICK L \in Nat : L = Len(t)
  BY DEF Text
<1> DEFINE next == [i \in 1 .. L |-> i + 1]
           P == {i \in 1 .. L + 1 : f[i] = g[i]}
<1>2. \A i \in 1 .. L + 1 : /\ f[i] = IF i > L THEN Unread ELSE ReadSymbol(t[i], f[i + 1])
                            /\ g[i] = IF i > L THEN Unread ELSE ReadSymbol(t[i], g[i + 1])
  BY <1>1 DEF Reads
<1>3. L + 1 \in P
  BY <1>2
<1>4. \A i \in 1 .. L : next[i] \in P => i \in P
  <2> SUFFICES ASSUME NEW i \in 1 .. L, next[i] \in P
               PROVE  i \in P
    OBVIOUS
  <2>1. i \in 1 .. L + 1 /\ ~(i > L) /\ f[i + 1] = g[i + 1]
    OBVIOUS
  <2>2. f[i] = ReadSymbol(t[i], f[i + 1]) /\ g[i] = ReadSymbol(t[i], g[i + 1])
    BY <1>2, <2>1
  <2> QED
    BY <2>1, <2>2
<1>5. Jumps(next, L)
  BY StepJumps
<1>6. \A i \in 1 .. L + 1 : i \in P
  <2> HIDE DEF P, next
  <2> QED
    BY <1>3, <1>4, <1>5, Downwards
<1> QED
  BY <1>6

LEMMA ReadingIs ==
  ASSUME NEW t \in Text
  PROVE  Reads((CHOOSE f : Reads(f, t)), t) /\ Reading(t) \in Readings /\ Spell(t) \in Text
<1>1. Reads((CHOOSE f : Reads(f, t)), t)
  BY ReadsExists, Zenon
<1>2. 1 \in 1 .. Len(t) + 1
  BY DEF Text
<1>3. Reading(t) \in Readings
  <2> DEFINE f == CHOOSE h : Reads(h, t)
  <2> HIDE DEF f
  <2>1. f \in [1 .. Len(t) + 1 -> Readings]
    BY <1>1 DEF Reads, f
  <2>2. f[1] \in Readings
    BY <1>2, <2>1
  <2> QED
    BY <2>2 DEF f, Reading
<1>4. Spell(t) \in Text
  BY <1>3, SpelledIsText DEF Spell
<1> QED
  BY <1>1, <1>3, <1>4

LEMMA ReadEmpty == Reading(<<>>) = Unread /\ Spell(<<>>) = <<>>
<1>1. Reads((CHOOSE f : Reads(f, <<>>)), <<>>)
  BY TextEmpty, ReadingIs
<1>2. Len(<<>>) = 0 /\ 1 \in 1 .. 0 + 1 /\ 1 > 0
  OBVIOUS
<1>3. Reading(<<>>) = Unread
  <2> DEFINE f == CHOOSE h : Reads(h, <<>>)
  <2> HIDE DEF f
  <2>1. f[1] = Unread
    BY <1>1, <1>2 DEF Reads, f
  <2> QED
    BY <2>1 DEF f, Reading
<1> QED
  BY <1>3, UnreadIs DEF Spell

LEMMA ReadFirst ==
  ASSUME NEW s \in Symbol, NEW x \in Text
  PROVE  Reading(<<s>> \o x) = ReadSymbol(s, Reading(x))
<1> DEFINE t == <<s>> \o x
<1>1. PICK L \in Nat : L = Len(x)
  BY DEF Text
<1>2. /\ t \in Text /\ Len(t) = L + 1 /\ t[1] = s
      /\ \A k \in 1 .. L + 1 : k # 1 => t[k] = x[k - 1]
  BY <1>1, OneBefore DEF Text
<1> HIDE DEF t
<1>3. PICK f : Reads(f, t) /\ Reading(t) = f[1]
  BY <1>2, ReadingIs, Zenon DEF Reading
<1>4. PICK g : Reads(g, x) /\ Reading(x) = g[1]
  BY ReadingIs, Zenon DEF Reading
<1>5. /\ f \in [1 .. L + 2 -> Readings]
      /\ \A i \in 1 .. L + 2 : f[i] = IF i > L + 1 THEN Unread ELSE ReadSymbol(t[i], f[i + 1])
  <2>1. (L + 1) + 1 = L + 2
    BY <1>1
  <2> QED
    BY <1>2, <1>3, <2>1 DEF Reads
<1> DEFINE h == [i \in 1 .. L + 1 |-> f[i + 1]]
<1>6. Reads(h, x)
  <2>1. h \in [1 .. L + 1 -> Readings]
    BY <1>5
  <2>2. ASSUME NEW i \in 1 .. L + 1
        PROVE  h[i] = IF i > L THEN Unread ELSE ReadSymbol(x[i], h[i + 1])
    <3>1. PICK j \in 1 .. L + 2 : j = i + 1 /\ j - 1 = i /\ j # 1
      OBVIOUS
    <3>2. h[i] = f[j]
      BY <3>1
    <3>3. CASE i > L
      BY <1>5, <3>1, <3>2, <3>3
    <3>4. CASE ~(i > L)
      <4>1. j \in 1 .. L + 1 /\ i + 1 \in 1 .. L + 1 /\ ~(j > L + 1)
        BY <3>1, <3>4
      <4>2. t[j] = x[i]
        BY <1>2, <3>1, <4>1
      <4>3. h[i + 1] = f[j + 1]
        BY <3>1, <4>1
      <4>4. f[j] = ReadSymbol(t[j], f[j + 1])
        BY <1>5, <3>1, <4>1
      <4> HIDE DEF h
      <4> QED
        BY <3>2, <3>4, <4>2, <4>3, <4>4
    <3> QED
      BY <3>3, <3>4
  <2> HIDE DEF h
  <2> QED
    BY <1>1, <2>1, <2>2 DEF Reads
<1>7. h[1] = f[2]
  BY <1>1
<1>8. f[1] = ReadSymbol(t[1], f[2])
  <2>1. 1 \in 1 .. L + 2 /\ ~(1 > L + 1) /\ 1 + 1 = 2
    BY <1>1
  <2> QED
    BY <1>5, <2>1
<1> HIDE DEF h
<1>9. h[1] = g[1]
  BY <1>4, <1>6, ReadsOnce
<1> QED
  BY <1>2, <1>3, <1>4, <1>7, <1>8, <1>9 DEF t

-----------------------------------------------------------------------------
(* Reading two texts one after the other.                                  *)

\* What is read before a text that ends with what reads as r.
Before(reading, r) == [run |-> reading.run, rest |-> reading.rest \o r]

LEMMA BeforeIs ==
  ASSUME NEW reading \in Readings, NEW r \in Text
  PROVE  /\ Before(reading, r) \in Readings
         /\ Spelled(Before(reading, r)) = Spelled(reading) \o r
         /\ \A s \in Symbol : ReadSymbol(s, Before(reading, r)) = Before(ReadSymbol(s, reading), r)
<1> DEFINE b == Before(reading, r)
<1>1. /\ reading.run \in 0 .. 3 /\ reading.rest \in Text
      /\ Ats(reading.run) \in Text /\ Spelled(reading) \in Text
  BY SpelledIsText
<1>2. reading.rest \o r \in Text
  BY <1>1, JoinedTexts
<1>3. b \in Readings /\ b.run = reading.run /\ b.rest = reading.rest \o r
  BY <1>1, <1>2, ReadingOf DEF Before
<1> HIDE DEF b
<1>4. Spelled(b) = Spelled(reading) \o r
  <2>1. (Ats(reading.run) \o reading.rest) \o r = Ats(reading.run) \o (reading.rest \o r)
    BY <1>1, TextAgain
  <2> QED
    BY <1>3, <2>1, Zenon DEF Spelled
<1>5. ASSUME NEW s \in Symbol
      PROVE  ReadSymbol(s, b) = Before(ReadSymbol(s, reading), r)
  <2>1. CASE s = "@"
    <3>1. ReadSymbol(s, b) =
            [run |-> IF reading.run = 3 THEN 0 ELSE reading.run + 1, rest |-> reading.rest \o r]
      BY <1>3, <2>1, Zenon DEF ReadSymbol
    <3>2. ReadSymbol(s, reading) =
            [run |-> IF reading.run = 3 THEN 0 ELSE reading.run + 1, rest |-> reading.rest]
      BY <2>1, Zenon DEF ReadSymbol
    <3> QED
      BY <3>1, <3>2 DEF Before
  <2>2. CASE s # "@" /\ s \in White
    <3>1. ReadSymbol(s, b) = [run |-> 0, rest |-> Spelled(reading) \o r]
      BY <1>4, <2>2, Zenon DEF ReadSymbol
    <3>2. ReadSymbol(s, reading) = [run |-> 0, rest |-> Spelled(reading)]
      BY <2>2, Zenon DEF ReadSymbol
    <3> QED
      BY <3>1, <3>2 DEF Before
  <2>3. CASE s # "@" /\ s \notin White
    <3> DEFINE most == <<s>> \o Spelled(reading)
    <3>1. ReadSymbol(s, b) = [run |-> 0, rest |-> <<s>> \o (Spelled(reading) \o r)]
      BY <1>4, <2>3, Zenon DEF ReadSymbol
    <3>2. ReadSymbol(s, reading) = [run |-> 0, rest |-> <<s>> \o Spelled(reading)]
      BY <2>3, Zenon DEF ReadSymbol
    <3>3. <<s>> \o (Spelled(reading) \o r) = (<<s>> \o Spelled(reading)) \o r
      BY <1>1, TextSymbol, TextAgain, ZenonT(40)
    <3> HIDE DEF most
    <3>4. ReadSymbol(s, b) = [run |-> 0, rest |-> most \o r]
      BY <3>1, <3>3, Zenon DEF most
    <3>5. ReadSymbol(s, reading) = [run |-> 0, rest |-> most]
      BY <3>2 DEF most
    <3> QED
      BY <3>4, <3>5 DEF Before
  <2> QED
    BY <2>1, <2>2, <2>3
<1> QED
  BY <1>3, <1>4, <1>5 DEF b

\* The reading of a text that stands before one of which no "@" is counted.
LEMMA ReadBefore ==
  ASSUME NEW b \in Text, Reading(b).run = 0
  PROVE  \A a \in Text : /\ Reading(a \o b) = Before(Reading(a), Reading(b).rest)
                         /\ Spell(a \o b) = Spell(a) \o Spell(b)
<1> DEFINE r == Reading(b).rest
           P == {a \in Text : Reading(a \o b) = Before(Reading(a), r)}
<1>1. Reading(b) \in Readings
  BY ReadingIs
<1>2. r \in Text /\ Spell(b) = r
  <2>1. r \in Text
    BY <1>1, SpelledIsText
  <2>2. Spelled(Reading(b)) = <<>> \o r
    BY AtsAre, Zenon DEF Spelled
  <2> QED
    BY <2>1, <2>2, TextAlone DEF Spell
<1>3. <<>> \in P
  <2>1. Before(Unread, r) = [run |-> 0, rest |-> <<>> \o r]
    BY DEF Before, Unread
  <2>2. Reading(b) = [run |-> Reading(b).run, rest |-> Reading(b).rest]
    BY <1>1 DEF Readings
  <2>3. Before(Unread, r) = Reading(b)
    BY <1>2, <2>1, <2>2, TextAlone, Zenon
  <2>4. <<>> \o b = b
    BY TextAlone
  <2> QED
    BY <2>3, <2>4, ReadEmpty, TextEmpty, Zenon
<1>4. ASSUME NEW s \in Symbol, NEW x \in Text, x \in P
      PROVE  <<s>> \o x \in P
  <2>1. (<<s>> \o x) \o b = <<s>> \o (x \o b) /\ x \o b \in Text /\ <<s>> \o x \in Text
    BY FirstAgain, Zenon
  <2>2. Reading((<<s>> \o x) \o b) = ReadSymbol(s, Reading(x \o b))
    BY <2>1, ReadFirst, Zenon
  <2>3. Reading(x \o b) = Before(Reading(x), r)
    BY <1>4
  <2>4. ReadSymbol(s, Before(Reading(x), r)) = Before(ReadSymbol(s, Reading(x)), r)
    BY <1>2, ReadingIs, BeforeIs
  <2>5. ReadSymbol(s, Reading(x)) = Reading(<<s>> \o x)
    BY ReadFirst
  <2>6. Reading((<<s>> \o x) \o b) = Before(Reading(<<s>> \o x), r)
    BY <2>2, <2>3, <2>4, <2>5, Zenon
  <2> QED
    BY <2>1, <2>6, Zenon
<1>5. \A a \in Text : a \in P
  <2> HIDE DEF P
  <2> QED
    BY <1>3, <1>4, TextInduction
<1>6. ASSUME NEW a \in Text
      PROVE  Spell(a \o b) = Spell(a) \o Spell(b)
  <2>1. Reading(a \o b) = Before(Reading(a), r)
    BY <1>5
  <2>2. Spelled(Before(Reading(a), r)) = Spelled(Reading(a)) \o r
    BY <1>2, ReadingIs, BeforeIs
  <2> QED
    BY <1>2, <2>1, <2>2, Zenon DEF Spell
<1> QED
  BY <1>5, <1>6

\* What stands before texts that read alike does not tell them apart.
LEMMA ReadAlike ==
  ASSUME NEW a \in Text, NEW b \in Text, Reading(a) = Reading(b)
  PROVE  \A m \in Text : Reading(m \o a) = Reading(m \o b)
<1> DEFINE P == {m \in Text : Reading(m \o a) = Reading(m \o b)}
<1>1. <<>> \in P
  BY TextEmpty, TextAlone, Zenon
<1>2. ASSUME NEW s \in Symbol, NEW x \in Text, x \in P
      PROVE  <<s>> \o x \in P
  <2>1. /\ (<<s>> \o x) \o a = <<s>> \o (x \o a) /\ x \o a \in Text
        /\ (<<s>> \o x) \o b = <<s>> \o (x \o b) /\ x \o b \in Text
        /\ <<s>> \o x \in Text
    BY FirstAgain, Zenon
  <2>2. /\ Reading((<<s>> \o x) \o a) = ReadSymbol(s, Reading(x \o a))
        /\ Reading((<<s>> \o x) \o b) = ReadSymbol(s, Reading(x \o b))
    BY <2>1, ReadFirst, Zenon
  <2>3. Reading(x \o a) = Reading(x \o b)
    BY <1>2
  <2> QED
    BY <2>1, <2>2, <2>3, Zenon
<1>3. \A m \in Text : m \in P
  <2> HIDE DEF P
  <2> QED
    BY <1>1, <1>2, TextInduction
<1> QED
  BY <1>3

LEMMA ReadWhite ==
  ASSUME NEW s \in White, NEW x \in Text
  PROVE  /\ s \in Symbol
         /\ Reading(<<s>> \o x) = [run |-> 0, rest |-> Spell(x)] /\ Spell(<<s>> \o x) = Spell(x)
<1>1. s \in Symbol /\ s # "@"
  BY DEF White, Symbol
<1>2. Reading(<<s>> \o x) = [run |-> 0, rest |-> Spell(x)]
  BY <1>1, ReadFirst, Zenon DEF ReadSymbol, Spell
<1>3. Spell(x) \in Text
  BY ReadingIs
<1>4. Spelled([run |-> 0, rest |-> Spell(x)]) = <<>> \o Spell(x)
  BY <1>3, ReadingOf, AtsAre DEF Spelled
<1> QED
  BY <1>1, <1>2, <1>3, <1>4, TextAlone, Zenon DEF Spell

\* What is trimmed of a text is not spelled.
LEMMA SpellTrimmed ==
  ASSUME NEW l \in Seq(White), NEW m \in Text, NEW r \in Seq(White)
  PROVE  Spell(l \o (m \o r)) = Spell(m)
<1> DEFINE P == {w \in Text : w \in Seq(White) =>
                   \A x \in Text : Spell(w \o x) = Spell(x)}
           Q == {w \in Text : w \in Seq(White) => Reading(w) = Unread}
<1>0. ASSUME NEW s \in Symbol, NEW w \in Text, <<s>> \o w \in Seq(White)
      PROVE  s \in White /\ w \in Seq(White)
  <2>1. PICK L \in Nat : L = Len(w) /\ DOMAIN w = 1 .. L /\ w \in Seq(Symbol)
    BY DEF Text
  <2>2. /\ Len(<<s>> \o w) = L + 1 /\ (<<s>> \o w)[1] = s
        /\ \A k \in 1 .. L + 1 : k # 1 => (<<s>> \o w)[k] = w[k - 1]
    BY <2>1, OneBefore
  <2>3. \A k \in 1 .. L + 1 : (<<s>> \o w)[k] \in White
    BY <1>0, <2>2
  <2>4. \A k \in 1 .. L : w[k] \in White
    <3> TAKE k \in 1 .. L
    <3>1. k + 1 \in 1 .. L + 1 /\ k + 1 # 1 /\ (k + 1) - 1 = k
      OBVIOUS
    <3> QED
      BY <2>2, <2>3, <3>1
  <2>5. 1 \in 1 .. L + 1
    BY <2>1
  <2>6. w \in [1 .. L -> White]
    BY <2>1, <2>4
  <2> QED
    BY <2>2, <2>3, <2>5, <2>6
<1>1. \A w \in Text : w \in P
  <2>1. <<>> \in P
    BY TextEmpty, TextAlone
  <2>2. ASSUME NEW s \in Symbol, NEW w \in Text, w \in P
        PROVE  <<s>> \o w \in P
    <3>1. <<s>> \o w \in Text
      BY TextSymbol, JoinedTexts
    <3>2. ASSUME <<s>> \o w \in Seq(White), NEW x \in Text
          PROVE  Spell((<<s>> \o w) \o x) = Spell(x)
      <4>1. s \in White /\ w \in Seq(White)
        BY <1>0, <3>2
      <4>2. (<<s>> \o w) \o x = <<s>> \o (w \o x) /\ w \o x \in Text
        BY FirstAgain, Zenon
      <4>3. Spell(<<s>> \o (w \o x)) = Spell(w \o x)
        BY <4>1, <4>2, ReadWhite
      <4>4. Spell(w \o x) = Spell(x)
        BY <2>2, <4>1
      <4> QED
        BY <4>2, <4>3, <4>4, Zenon
    <3> QED
      BY <3>1, <3>2
  <2> HIDE DEF P
  <2> QED
    BY <2>1, <2>2, TextInduction
<1>2. \A w \in Text : w \in Q
  <2>1. <<>> \in Q
    BY TextEmpty, ReadEmpty
  <2>2. ASSUME NEW s \in Symbol, NEW w \in Text, w \in Q
        PROVE  <<s>> \o w \in Q
    <3>1. <<s>> \o w \in Text
      BY TextSymbol, JoinedTexts
    <3>2. ASSUME <<s>> \o w \in Seq(White)
          PROVE  Reading(<<s>> \o w) = Unread
      <4>1. s \in White /\ w \in Seq(White)
        BY <1>0, <3>2
      <4>2. Reading(w) = Unread
        BY <2>2, <4>1
      <4>3. Reading(<<s>> \o w) = [run |-> 0, rest |-> Spell(w)]
        BY <4>1, ReadWhite
      <4>4. Spell(w) = <<>>
        BY <4>2, UnreadIs DEF Spell
      <4> QED
        BY <4>3, <4>4 DEF Unread
    <3> QED
      BY <3>1, <3>2
  <2> HIDE DEF Q
  <2> QED
    BY <2>1, <2>2, TextInduction
<1>3. l \in Text /\ r \in Text
  <2>1. White \subseteq Symbol
    BY DEF White, Symbol
  <2> QED
    BY <2>1 DEF Text
<1>4. Reading(r) = Unread
  BY <1>2, <1>3
<1>5. Reading(r).run = 0 /\ Spell(r) = <<>>
  BY <1>4, UnreadIs DEF Spell, Unread
<1>6. Spell(m \o r) = Spell(m) \o <<>> /\ m \o r \in Text
  BY <1>3, <1>5, ReadBefore, JoinedTexts, Zenon
<1>7. Spell(l \o (m \o r)) = Spell(m \o r)
  BY <1>1, <1>3, <1>6
<1>8. Spell(m) \o <<>> = Spell(m)
  BY ReadingIs, TextAlone
<1> QED
  BY <1>6, <1>7, <1>8, Zenon

-----------------------------------------------------------------------------
(* What a text spells: itself without white space, as long as "@" is not   *)
(* looked at or never stands four times in a row.                          *)

LEMMA SpellInk ==
  ASSUME NEW s \in Symbol \ (White \cup {"@"}), NEW x \in Text
  PROVE  /\ Reading(<<s>> \o x) = [run |-> 0, rest |-> <<s>> \o Spell(x)]
         /\ Spell(<<s>> \o x) = <<s>> \o Spell(x)
<1>1. s \in Symbol /\ s # "@" /\ s \notin White /\ Spell(x) \in Text
  BY ReadingIs
<1>2. Reading(<<s>> \o x) = [run |-> 0, rest |-> <<s>> \o Spell(x)]
  BY <1>1, ReadFirst, Zenon DEF ReadSymbol, Spell
<1> DEFINE r == <<s>> \o Spell(x)
<1>3. r \in Text
  BY <1>1, FirstAgain
<1> HIDE DEF r
<1>4. [run |-> 0, rest |-> r].run = 0 /\ [run |-> 0, rest |-> r].rest = r
  OBVIOUS
<1>5. Spelled([run |-> 0, rest |-> r]) = <<>> \o r
  BY <1>4, AtsAre, Zenon DEF Spelled
<1>6. Spell(<<s>> \o x) = <<>> \o r
  BY <1>2, <1>5, Zenon DEF Spell, r
<1> QED
  BY <1>2, <1>3, <1>6, TextAlone, Zenon DEF r

LEMMA SpellAt ==
  ASSUME NEW x \in Text
  PROVE  /\ "@" \in Symbol /\ Reading(<<"@">> \o x) \in Readings
         /\ Reading(<<"@">> \o x).rest = Reading(x).rest
         /\ Reading(<<"@">> \o x).run = IF Reading(x).run = 3 THEN 0 ELSE Reading(x).run + 1
         /\ Reading(x).run # 3 => Spell(<<"@">> \o x) = <<"@">> \o Spell(x)
<1>1. "@" \in Symbol /\ <<"@">> \in Text /\ Reading(x) \in Readings
  BY Marks, TextSymbol, ReadingIs
<1>2. PICK n \in 0 .. 3, r \in Text : Reading(x).run = n /\ Reading(x).rest = r
  BY <1>1, SpelledIsText
<1>3. Reading(<<"@">> \o x) = [run |-> IF n = 3 THEN 0 ELSE n + 1, rest |-> r]
  BY <1>1, <1>2, ReadFirst, Zenon DEF ReadSymbol
<1>4. (IF n = 3 THEN 0 ELSE n + 1) \in 0 .. 3
  OBVIOUS
<1>5. /\ Reading(<<"@">> \o x) \in Readings /\ Reading(<<"@">> \o x).rest = r
      /\ Reading(<<"@">> \o x).run = IF n = 3 THEN 0 ELSE n + 1
  BY <1>3, <1>4, ReadingOf
<1>6. ASSUME n # 3
      PROVE  Spell(<<"@">> \o x) = <<"@">> \o Spell(x)
  <2>1. Spell(<<"@">> \o x) = Ats(n + 1) \o r
    BY <1>5, <1>6, Zenon DEF Spell, Spelled
  <2>2. Spell(x) = Ats(n) \o r
    BY <1>2, Zenon DEF Spell, Spelled
  <2>3. Ats(n) \in Text /\ <<"@">> \o Ats(n) = Ats(n + 1)
    <3>1. n \in Nat
      OBVIOUS
    <3> QED
      BY <3>1, AtsAre, Zenon
  <2>4. (<<"@">> \o Ats(n)) \o r = <<"@">> \o (Ats(n) \o r)
    BY <1>1, <2>3, FirstAgain, Zenon
  <2> QED
    BY <2>1, <2>2, <2>3, <2>4, Zenon
<1> QED
  BY <1>1, <1>2, <1>5, <1>6

\* No more than "@" is passed over besides white space.
LEMMA SpellsInk ==
  \A t \in Text : Without(Spell(t), {"@"}) = Without(t, White \cup {"@"})
<1> DEFINE A == {"@"}
           B == White \cup {"@"}
           P == {t \in Text : Without(Spell(t), A) = Without(t, B)}
<1>1. \A n \in 0 .. 3 : Without(Ats(n), A) = <<>>
  <2> DEFINE Q == {n \in 0 .. 3 : Without(Ats(n), A) = <<>>}
  <2>1. 0 \in Q
    BY AtsAre, WithoutEmpty
  <2>2. ASSUME NEW n \in 0 .. 3 - 1, n \in Q
        PROVE  n + 1 \in Q
    <3>1. Ats(n) \in Text /\ Ats(n + 1) = <<"@">> \o Ats(n) /\ "@" \in Symbol /\ "@" \in A
      <4>1. n \in Nat
        OBVIOUS
      <4> QED
        BY <4>1, AtsAre, Marks, Zenon
    <3>2. Without(Ats(n + 1), A) = Without(Ats(n), A)
      BY <3>1, WithoutFirst
    <3> QED
      BY <2>2, <3>2
  <2> HIDE DEF Q
  <2>3. \A n \in 0 .. 3 : n \in Q
    BY <2>1, <2>2, Upwards
  <2> QED
    BY <2>3 DEF Q
<1>2. ASSUME NEW reading \in Readings
      PROVE  Without(Spelled(reading), A) = Without(reading.rest, A)
  <2>1. reading.run \in 0 .. 3 /\ reading.rest \in Text /\ Ats(reading.run) \in Text
    BY SpelledIsText
  <2>2. Without(Spelled(reading), A) = Without(Ats(reading.run), A) \o Without(reading.rest, A)
    BY <2>1, WithoutJoin DEF Spelled
  <2>3. <<>> \o Without(reading.rest, A) = Without(reading.rest, A)
    BY <2>1, WithoutIs, TextAlone
  <2> QED
    BY <1>1, <2>1, <2>2, <2>3
<1> HIDE DEF A, B
<1>3. <<>> \in P
  BY TextEmpty, ReadEmpty, WithoutEmpty
<1>4. ASSUME NEW s \in Symbol, NEW x \in Text, x \in P
      PROVE  <<s>> \o x \in P
  <2>1. Spell(x) \in Text /\ Without(Spell(x), A) = Without(x, B) /\ <<s>> \o x \in Text
    BY <1>4, ReadingIs, FirstAgain
  <2>2. Without(<<s>> \o x, B) = IF s \in B THEN Without(x, B) ELSE <<s>> \o Without(x, B)
    BY WithoutFirst
  <2>3. CASE s = "@"
    <3>1. Without(Spell(<<"@">> \o x), A) = Without(Reading(<<"@">> \o x).rest, A)
      BY <1>2, SpellAt DEF Spell
    <3>2. Without(Spell(x), A) = Without(Reading(x).rest, A)
      BY <1>2, ReadingIs DEF Spell
    <3>3. Reading(<<"@">> \o x).rest = Reading(x).rest
      BY SpellAt
    <3>4. s \in B
      BY <2>3 DEF B
    <3> QED
      BY <2>1, <2>2, <2>3, <3>1, <3>2, <3>3, <3>4, Zenon
  <2>4. CASE s \in White
    <3>1. Spell(<<s>> \o x) = Spell(x)
      BY <2>4, ReadWhite
    <3>2. s \in B
      BY <2>4 DEF B
    <3> QED
      BY <2>1, <2>2, <3>1, <3>2, Zenon
  <2>5. CASE s # "@" /\ s \notin White
    <3>1. s \in Symbol \ (White \cup {"@"}) /\ s \notin B /\ s \notin A
      BY <2>5 DEF A, B
    <3>2. Spell(<<s>> \o x) = <<s>> \o Spell(x)
      BY <3>1, SpellInk
    <3>3. Without(<<s>> \o Spell(x), A) = <<s>> \o Without(Spell(x), A)
      BY <2>1, <3>1, WithoutFirst
    <3> QED
      BY <2>1, <2>2, <3>1, <3>2, <3>3, Zenon
  <2> QED
    BY <2>3, <2>4, <2>5
<1>5. \A t \in Text : t \in P
  <2> HIDE DEF P
  <2> QED
    BY <1>3, <1>4, TextInduction
<1> QED
  BY <1>5 DEF A, B

LEMMA MarkAt ==
  ASSUME NEW t \in Text, NEW i \in Nat
  PROVE  StandsAt(Mark, i, t) <=> i + 3 <= Len(t) /\ \A k \in 0 .. 3 : t[i + k] = "@"
<1>1. Len(Mark) = 4 /\ DOMAIN Mark = 1 .. 4 /\ \A k \in 1 .. 4 : Mark[k] = "@"
  BY DEF Mark
<1>2. PICK L \in Nat : L = Len(t)
  BY DEF Text
<1>3. (\A k \in 1 .. 4 : t[i + k - 1] = "@") <=> \A k \in 0 .. 3 : t[i + k] = "@"
  <2>1. ASSUME \A k \in 1 .. 4 : t[i + k - 1] = "@", NEW k \in 0 .. 3
        PROVE  t[i + k] = "@"
    <3>1. k + 1 \in 1 .. 4 /\ i + (k + 1) - 1 = i + k
      OBVIOUS
    <3> QED
      BY <2>1, <3>1
  <2>2. ASSUME \A k \in 0 .. 3 : t[i + k] = "@", NEW k \in 1 .. 4
        PROVE  t[i + k - 1] = "@"
    <3>1. k - 1 \in 0 .. 3 /\ i + (k - 1) = i + k - 1
      OBVIOUS
    <3> QED
      BY <2>2, <3>1
  <2> QED
    BY <2>1, <2>2
<1>4. i + 4 - 1 <= L <=> i + 3 <= L
  OBVIOUS
<1> HIDE DEF Mark
<1>5. StandsAt(Mark, i, t) <=> i + 4 - 1 <= L /\ \A k \in 1 .. 4 : t[i + k - 1] = "@"
  BY <1>1, <1>2 DEF StandsAt
<1> QED
  BY <1>2, <1>3, <1>4, <1>5

\* A text in which no four "@" stand together is spelled without white space.
LEMMA SpellsUnmarked ==
  \A t \in Text : ~Occurs(Mark, t) => Spell(t) = Without(t, White)
<1> DEFINE Counts(t) == /\ Reading(t).run <= Len(t)
                        /\ \A k \in 1 .. Reading(t).run : t[k] = "@"
           P == {t \in Text : ~Occurs(Mark, t) => Spell(t) = Without(t, White) /\ Counts(t)}
<1>1. <<>> \in P
  <2>1. Reading(<<>>).run = 0 /\ Len(<<>>) = 0
    BY ReadEmpty DEF Unread
  <2> QED
    BY <2>1, TextEmpty, ReadEmpty, WithoutEmpty
<1>2. ASSUME NEW s \in Symbol, NEW x \in Text, x \in P, ~Occurs(Mark, <<s>> \o x)
      PROVE  Spell(<<s>> \o x) = Without(<<s>> \o x, White) /\ Counts(<<s>> \o x)
  <2> DEFINE t == <<s>> \o x
  <2>1. PICK L \in Nat : L = Len(x) /\ DOMAIN x = 1 .. L
    BY DEF Text
  <2>2. /\ t \in Text /\ Len(t) = L + 1 /\ DOMAIN t = 1 .. L + 1 /\ t[1] = s
        /\ \A k \in 1 .. L + 1 : k # 1 => t[k] = x[k - 1]
    BY <2>1, OneBefore DEF Text
  <2>3. Without(t, White) = IF s \in White THEN Without(x, White) ELSE <<s>> \o Without(x, White)
    BY WithoutFirst
  <2> HIDE DEF t
  <2>4. ~Occurs(Mark, t)
    BY <1>2 DEF t
  <2>5. ~Occurs(Mark, x)
    <3> SUFFICES ASSUME NEW i \in 1 .. L, StandsAt(Mark, i, x)
                 PROVE  FALSE
      BY <2>1 DEF Occurs
    <3>1. i + 3 <= L /\ \A k \in 0 .. 3 : x[i + k] = "@"
      BY <2>1, MarkAt
    <3>2. (i + 1) + 3 <= L + 1 /\ i + 1 \in Nat /\ i + 1 \in 1 .. L + 1
      BY <2>1, <3>1
    <3>3. ASSUME NEW k \in 0 .. 3
          PROVE  t[(i + 1) + k] = "@"
      <4>1. (i + 1) + k \in 1 .. L + 1 /\ (i + 1) + k # 1 /\ ((i + 1) + k) - 1 = i + k
        BY <2>1, <3>1
      <4> QED
        BY <2>2, <3>1, <4>1
    <3>4. StandsAt(Mark, i + 1, t)
      BY <2>2, <3>2, <3>3, MarkAt
    <3> QED
      BY <2>2, <2>4, <3>2, <3>4 DEF Occurs
  <2>6. Spell(x) = Without(x, White) /\ Counts(x)
    BY <1>2, <2>5
  <2>7. CASE s = "@"
    <3>1. Reading(x) \in Readings /\ Reading(x).run \in 0 .. 3
      BY ReadingIs, SpelledIsText
    <3>2. PICK n \in 0 .. 3 : n = Reading(x).run /\ n <= L /\ \A k \in 1 .. n : x[k] = "@"
      BY <2>1, <2>6, <3>1
    <3>3. ASSUME NEW k \in 1 .. n + 1
          PROVE  t[k] = "@"
      <4>1. CASE k = 1
        BY <2>2, <2>7, <4>1
      <4>2. CASE k # 1
        <5>1. k - 1 \in 1 .. n /\ k \in 1 .. L + 1
          BY <2>1, <3>2, <4>2
        <5> QED
          BY <2>2, <3>2, <4>2, <5>1
      <4> QED
        BY <4>1, <4>2
    <3>4. n # 3
      <4> SUFFICES ASSUME n = 3
                   PROVE  FALSE
        OBVIOUS
      <4>1. 1 + 3 <= L + 1 /\ 1 \in 1 .. L + 1 /\ 1 \in Nat
        BY <2>1, <3>2
      <4>2. \A k \in 0 .. 3 : t[1 + k] = "@"
        BY <3>3
      <4>3. StandsAt(Mark, 1, t)
        BY <2>2, <4>1, <4>2, MarkAt
      <4> QED
        BY <2>2, <2>4, <4>1, <4>3 DEF Occurs
    <3>5. /\ Reading(t).run = n + 1 /\ Spell(t) = <<s>> \o Spell(x)
      BY <2>7, <3>2, <3>4, SpellAt DEF t
    <3>6. s \notin White
      BY <2>7 DEF White
    <3>7. n + 1 <= L + 1
      BY <2>1, <3>2
    <3> QED
      BY <2>2, <2>3, <2>6, <3>3, <3>5, <3>6, <3>7 DEF t
  <2>8. CASE s \in White
    <3>1. Reading(t) = [run |-> 0, rest |-> Spell(x)] /\ Spell(t) = Spell(x)
      BY <2>8, ReadWhite DEF t
    <3>2. Reading(t).run = 0 /\ 0 <= L + 1
      BY <2>1, <3>1
    <3> QED
      BY <2>2, <2>3, <2>6, <2>8, <3>1, <3>2 DEF t
  <2>9. CASE s # "@" /\ s \notin White
    <3>1. s \in Symbol \ (White \cup {"@"})
      BY <2>9
    <3>2. Reading(t) = [run |-> 0, rest |-> <<s>> \o Spell(x)] /\ Spell(t) = <<s>> \o Spell(x)
      BY <3>1, SpellInk DEF t
    <3>3. Reading(t).run = 0 /\ 0 <= L + 1
      BY <2>1, <3>2
    <3> QED
      <4>1. Counts(t)
        BY <2>2, <3>3
      <4>2. Spell(t) = Without(t, White)
        BY <2>3, <2>6, <2>9, <3>2, Zenon
      <4> QED
        BY <4>1, <4>2 DEF t
  <2> QED
    BY <2>7, <2>8, <2>9
<1>3. ASSUME NEW s \in Symbol, NEW x \in Text, x \in P
      PROVE  <<s>> \o x \in P
  <2>1. <<s>> \o x \in Text
    BY FirstAgain
  <2>2. ~Occurs(Mark, <<s>> \o x) =>
          Spell(<<s>> \o x) = Without(<<s>> \o x, White) /\ Counts(<<s>> \o x)
    BY <1>2, <1>3
  <2> HIDE DEF Counts
  <2> QED
    BY <2>1, <2>2
<1>4. \A t \in Text : t \in P
  <2> HIDE DEF P
  <2> QED
    BY <1>1, <1>3, TextInduction
<1> QED
  BY <1>4

-----------------------------------------------------------------------------
(* The rules keep the reading of a text.                                   *)

KeepsReading(rule) == \A t \in Text : Reading(Replaced(rule, t)) = Reading(t)

LEMMA ReplacedReads ==
  ASSUME NEW rule, IsRule(rule), NEW t \in Text,
         \A i \in 1 .. Len(t) : MatchAt(rule, i, t) # 0 =>
           LET match == SubSeq(t, i, i + MatchAt(rule, i, t) - 1)
           IN \A x \in Text : Reading(Replacement(rule, match) \o x) = Reading(match \o x)
  PROVE  Reading(Replaced(rule, t)) = Reading(t)
<1>1. PICK L \in Nat : L = Len(t)
  BY DEF Text
<1> DEFINE n(i) == MatchAt(rule, i, t)
           match(i) == SubSeq(t, i, i + n(i) - 1)
           next == [i \in 1 .. L |-> IF n(i) = 0 THEN i + 1 ELSE i + n(i)]
<1>2. PICK f : /\ ReplacesFrom(f, rule, t) /\ Replaced(rule, t) = f[1]
               /\ \A i \in 1 .. L + 1 : f[i] \in Text
  BY <1>1, ReplacedScans
<1>3. \A i \in 1 .. L : n(i) \in Nat /\ i + n(i) <= L + 1
  BY <1>1, MatchInText
<1>4. \A i \in 1 .. L + 1 : f[i] = IF i > L THEN <<>>
                                   ELSE IF n(i) = 0 THEN <<t[i]>> \o f[i + 1]
                                   ELSE Replacement(rule, match(i)) \o f[i + n(i)]
  BY <1>1, <1>2 DEF ReplacesFrom
<1>5. \A i \in 1 .. L : n(i) # 0 =>
        \A x \in Text : Reading(Replacement(rule, match(i)) \o x) = Reading(match(i) \o x)
  BY <1>1
<1>6. \A i \in 1 .. L : /\ match(i) \in Text
                        /\ Rest(t, i) = match(i) \o Rest(t, i + n(i))
  BY <1>1, <1>3, RestFrom
<1> HIDE DEF n, match
<1>7. Jumps(next, L)
  BY <1>3 DEF Jumps
<1> DEFINE P == {i \in 1 .. L + 1 : Reading(f[i]) = Reading(Rest(t, i))}
<1>8. L + 1 \in P
  <2>1. L + 1 \in 1 .. L + 1 /\ L + 1 > L
    BY <1>1
  <2>2. f[L + 1] = <<>>
    BY <1>4, <2>1, Zenon
  <2>3. Rest(t, L + 1) = <<>>
    BY <1>1, RestIs
  <2> QED
    BY <2>1, <2>2, <2>3
<1>9. ASSUME NEW i \in 1 .. L, next[i] \in P
      PROVE  i \in P
  <2>1. i \in 1 .. L + 1 /\ ~(i > L)
    OBVIOUS
  <2>2. CASE n(i) = 0
    <3>1. next[i] = i + 1 /\ i + 1 \in 1 .. L + 1
      BY <2>2
    <3>2. Reading(f[i + 1]) = Reading(Rest(t, i + 1))
      BY <1>9, <3>1
    <3>3. f[i + 1] \in Text /\ Rest(t, i + 1) \in Text
      BY <1>1, <1>2, <3>1, RestIs
    <3>4. t[i] \in Symbol /\ Rest(t, i) = <<t[i]>> \o Rest(t, i + 1)
      BY <1>1, RestIs
    <3>5. f[i] = <<t[i]>> \o f[i + 1]
      BY <1>4, <2>1, <2>2, Zenon
    <3>6. Reading(f[i]) = Reading(Rest(t, i))
      BY <3>2, <3>3, <3>4, <3>5, ReadFirst
    <3> QED
      BY <2>1, <3>6
  <2>3. CASE n(i) # 0
    <3>1. next[i] = i + n(i) /\ i + n(i) \in 1 .. L + 1
      BY <1>3, <2>3
    <3>2. Reading(f[i + n(i)]) = Reading(Rest(t, i + n(i)))
      BY <1>9, <3>1
    <3>3. f[i + n(i)] \in Text /\ Rest(t, i + n(i)) \in Text
      BY <1>1, <1>2, <3>1, RestIs
    <3>4. f[i] = Replacement(rule, match(i)) \o f[i + n(i)]
      BY <1>4, <2>1, <2>3, Zenon
    <3>5. Reading(f[i]) = Reading(match(i) \o f[i + n(i)])
      BY <1>5, <2>3, <3>3, <3>4, Zenon
    <3>6. Reading(match(i) \o f[i + n(i)]) = Reading(match(i) \o Rest(t, i + n(i)))
      BY <1>6, <3>2, <3>3, ReadAlike
    <3>7. Reading(f[i]) = Reading(Rest(t, i))
      BY <1>6, <3>5, <3>6, Zenon
    <3> QED
      BY <2>1, <3>7
  <2> QED
    BY <2>2, <2>3
<1>10. \A i \in 1 .. L + 1 : i \in P
  <2> HIDE DEF P, next
  <2> QED
    BY <1>7, <1>8, <1>9, Downwards
<1>11. Reading(f[1]) = Reading(Rest(t, 1))
  BY <1>10
<1> QED
  BY <1>2, <1>11, RestIs

LEMMA LiteralKeeps ==
  ASSUME NEW from \in Text, NEW to \in Text,
         \A x \in Text : Reading(to \o x) = Reading(from \o x)
  PROVE  KeepsReading(Literal(from, to))
<1> DEFINE rule == Literal(from, to)
<1>1. IsRule(rule)
  BY LiteralIsRule
<1>2. /\ rule.kind = "literal" /\ rule.from = from /\ rule.to = to
      /\ \A match : Replacement(rule, match) = to
  BY DEF Literal, Replacement
<1>3. \A t, i : MatchAt(rule, i, t) = IF StandsAt(from, i, t) THEN Len(from) ELSE 0
  BY DEF Literal, MatchAt
<1> HIDE DEF rule
<1>4. SUFFICES ASSUME NEW t \in Text
               PROVE  Reading(Replaced(rule, t)) = Reading(t)
  BY DEF KeepsReading, rule
<1>5. PICK m \in Nat : m = Len(from) /\ DOMAIN from = 1 .. m /\ from \in Seq(Symbol)
  BY DEF Text
<1>6. ASSUME NEW i \in 1 .. Len(t), MatchAt(rule, i, t) # 0
      PROVE  SubSeq(t, i, i + MatchAt(rule, i, t) - 1) = from
  <2>1. MatchAt(rule, i, t) = m /\ StandsAt(from, i, t)
    BY <1>3, <1>5, <1>6, Zenon
  <2>2. i + m - 1 <= Len(t) /\ \A k \in 1 .. m : t[i + k - 1] = from[k]
    BY <1>5, <2>1 DEF StandsAt
  <2>3. PICK e \in Int : e = i + m - 1
    BY <1>5
  <2>4. \A k \in i .. e : t[k] \in Symbol
    BY <2>2, <2>3 DEF Text
  <2>5. e - i + 1 = m /\ (i <= e <=> 1 <= m) /\ i \in Int
    BY <1>5, <2>3
  <2> DEFINE w == SubSeq(t, i, e)
  <2>6. w \in Seq(Symbol) /\ Len(w) = m /\ \A k \in 1 .. m : w[k] = t[i + k - 1]
    BY <1>5, <2>4, <2>5, SubSeqProperties
  <2> HIDE DEF w
  <2>7. w = from
    BY <1>5, <2>2, <2>6, SeqEqual
  <2> QED
    BY <2>1, <2>3, <2>7 DEF w
<1>7. \A i \in 1 .. Len(t) : MatchAt(rule, i, t) # 0 =>
        LET match == SubSeq(t, i, i + MatchAt(rule, i, t) - 1)
        IN \A x \in Text : Reading(Replacement(rule, match) \o x) = Reading(match \o x)
  BY <1>2, <1>6
<1> QED
  BY <1>1, <1>7, ReplacedReads

LEMMA ReadMark == \A x \in Text : Reading(Mark \o x) = Reading(x)
<1> SUFFICES ASSUME NEW x \in Text
             PROVE  Reading(Mark \o x) = Reading(x)
  OBVIOUS
<1> DEFINE x1 == <<"@">> \o x
           x2 == <<"@">> \o x1
           x3 == <<"@">> \o x2
           x4 == <<"@">> \o x3
<1>1. "@" \in Symbol /\ <<"@">> \in Text
  BY Marks, TextSymbol
<1>2. x1 \in Text /\ x2 \in Text /\ x3 \in Text
  BY <1>1, JoinedTexts
<1>3. Mark \o x = x4
  <2> DEFINE a == <<"@">>
             a2 == <<"@", "@">>
             a3 == <<"@", "@", "@">>
  <2>1. a2 = a \o a /\ a3 = a \o a2 /\ Mark = a \o a3
    BY DEF Mark
  <2>2. a \in Text
    BY <1>1
  <2> HIDE DEF a, a2, a3
  <2>3. a2 \in Text /\ a3 \in Text
    BY <2>1, <2>2, JoinedTexts
  <2>4. a3 \o x \in Text /\ a2 \o x \in Text /\ a \o x \in Text
    BY <2>2, <2>3, JoinedTexts
  <2>5. /\ (a \o a) \o x = a \o (a \o x) /\ (a \o a2) \o x = a \o (a2 \o x)
        /\ (a \o a3) \o x = a \o (a3 \o x)
    BY <2>2, <2>3, TextAgain, Zenon
  <2>6. Mark \o x = a \o (a \o (a \o (a \o x)))
    BY <2>1, <2>5, Zenon
  <2> QED
    BY <2>6, Zenon DEF a
<1>4. Reading(x) \in Readings /\ Reading(x).run \in 0 .. 3 /\ Reading(x4) \in Readings
  BY <1>2, ReadingIs, SpelledIsText, SpellAt
<1>5. /\ Reading(x1).rest = Reading(x).rest
      /\ Reading(x1).run = IF Reading(x).run = 3 THEN 0 ELSE Reading(x).run + 1
  BY SpellAt
<1>6. /\ Reading(x2).rest = Reading(x1).rest
      /\ Reading(x2).run = IF Reading(x1).run = 3 THEN 0 ELSE Reading(x1).run + 1
  BY <1>2, SpellAt
<1>7. /\ Reading(x3).rest = Reading(x2).rest
      /\ Reading(x3).run = IF Reading(x2).run = 3 THEN 0 ELSE Reading(x2).run + 1
  BY <1>2, SpellAt
<1>8. /\ Reading(x4).rest = Reading(x3).rest
      /\ Reading(x4).run = IF Reading(x3).run = 3 THEN 0 ELSE Reading(x3).run + 1
  BY <1>2, SpellAt
<1> HIDE DEF x1, x2, x3, x4
<1>9. Reading(x4).run = Reading(x).run /\ Reading(x4).rest = Reading(x).rest
  BY <1>4, <1>5, <1>6, <1>7, <1>8
<1>10. Reading(x4) = Reading(x)
  BY <1>4, <1>9 DEF Readings
<1> QED
  BY <1>3, <1>10

Ink == Symbol \ (White \cup {"@"})

\* The same spelling behind ink reads the same.
LEMMA ReadInk ==
  ASSUME NEW s \in Ink, NEW a \in Text, NEW b \in Text, Spell(a) = Spell(b)
  PROVE  Reading(<<s>> \o a) = Reading(<<s>> \o b)
BY SpellInk DEF Ink

LEMMA BlankIs == Blank \in Text /\ \A x \in Text : Spell(Blank \o x) = Spell(x)
                               /\ Reading(Blank \o x) = [run |-> 0, rest |-> Spell(x)]
<1> DEFINE w == <<"nl">>
<1>1. "nl" \in White /\ "nl" \in Symbol
  BY DEF White, Symbol
<1>2. w \in Text /\ Blank \in Text
  BY <1>1, TextSymbol, Marks
<1>3. Blank = w \o w
  BY DEF Blank
<1> SUFFICES ASSUME NEW x \in Text
             PROVE  /\ Spell(Blank \o x) = Spell(x)
                    /\ Reading(Blank \o x) = [run |-> 0, rest |-> Spell(x)]
  BY <1>2
<1>4. Blank \o x = w \o (w \o x) /\ w \o x \in Text
  BY <1>1, <1>2, <1>3, FirstAgain, Zenon
<1>5. Spell(w \o x) = Spell(x)
  BY <1>1, ReadWhite
<1>6. /\ Spell(w \o (w \o x)) = Spell(w \o x)
      /\ Reading(w \o (w \o x)) = [run |-> 0, rest |-> Spell(w \o x)]
  BY <1>1, <1>4, ReadWhite
<1> QED
  BY <1>4, <1>5, <1>6, Zenon

LEMMA BlankBeforeKeeps ==
  ASSUME NEW s \in Ink, NEW p \in Text
  PROVE  KeepsReading(Literal(<<s>> \o p, Blank \o (<<s>> \o p)))
<1> DEFINE q == <<s>> \o p
<1>1. s \in Symbol /\ q \in Text /\ Blank \in Text
  BY FirstAgain, BlankIs DEF Ink
<1>2. Blank \o q \in Text
  BY <1>1, JoinedTexts
<1>3. ASSUME NEW x \in Text
      PROVE  Reading((Blank \o q) \o x) = Reading(q \o x)
  <2>1. (Blank \o q) \o x = Blank \o (q \o x)
    BY <1>1, TextAgain
  <2>2. q \o x = <<s>> \o (p \o x) /\ p \o x \in Text
    BY <1>1, FirstAgain, Zenon
  <2>3. q \o x \in Text
    BY <1>1, JoinedTexts
  <2>4. /\ Reading(<<s>> \o (p \o x)) = [run |-> 0, rest |-> <<s>> \o Spell(p \o x)]
        /\ Spell(<<s>> \o (p \o x)) = <<s>> \o Spell(p \o x)
    BY <2>2, SpellInk DEF Ink
  <2>5. Reading(Blank \o (q \o x)) = [run |-> 0, rest |-> Spell(q \o x)]
    BY <2>3, BlankIs
  <2> QED
    BY <2>1, <2>2, <2>4, <2>5, Zenon
<1> QED
  BY <1>1, <1>2, <1>3, LiteralKeeps

LEMMA BlankAfterKeeps ==
  ASSUME NEW s \in Ink, NEW p \in Text
  PROVE  KeepsReading(Literal(p \o <<s>>, (p \o <<s>>) \o Blank))
<1> DEFINE q == p \o <<s>>
<1>1. s \in Symbol /\ <<s>> \in Text /\ Blank \in Text
  BY TextSymbol, BlankIs DEF Ink
<1>2. q \in Text
  BY <1>1, JoinedTexts
<1>3. q \o Blank \in Text
  BY <1>1, <1>2, JoinedTexts
<1>4. ASSUME NEW x \in Text
      PROVE  Reading((q \o Blank) \o x) = Reading(q \o x)
  <2>1. Blank \o x \in Text /\ <<s>> \o x \in Text
    BY <1>1, JoinedTexts
  <2>2. <<s>> \o (Blank \o x) \in Text
    BY <1>1, <2>1, JoinedTexts
  <2>3. (q \o Blank) \o x = q \o (Blank \o x)
    BY <1>1, <1>2, TextAgain
  <2>4. q \o (Blank \o x) = p \o (<<s>> \o (Blank \o x))
    BY <1>1, <2>1, TextAgain
  <2>5. q \o x = p \o (<<s>> \o x)
    BY <1>1, TextAgain
  <2>6. Reading(<<s>> \o (Blank \o x)) = Reading(<<s>> \o x)
    BY <2>1, BlankIs, ReadInk
  <2>7. Reading(p \o (<<s>> \o (Blank \o x))) = Reading(p \o (<<s>> \o x))
    BY <2>1, <2>2, <2>6, ReadAlike
  <2> QED
    BY <2>3, <2>4, <2>5, <2>7, Zenon
<1> QED
  BY <1>2, <1>3, <1>4, LiteralKeeps

LEMMA MarkBeforeKeeps ==
  ASSUME NEW p \in Text
  PROVE  KeepsReading(Literal(p, Mark \o p))
<1>1. Mark \in Text /\ Mark \o p \in Text
  BY Marks, JoinedTexts
<1>2. ASSUME NEW x \in Text
      PROVE  Reading((Mark \o p) \o x) = Reading(p \o x)
  <2>1. (Mark \o p) \o x = Mark \o (p \o x)
    BY <1>1, TextAgain
  <2>2. p \o x \in Text
    BY JoinedTexts
  <2> QED
    BY <2>1, <2>2, ReadMark
<1> QED
  BY <1>1, <1>2, LiteralKeeps

LEMMA MarkAfterKeeps ==
  ASSUME NEW p \in Text
  PROVE  KeepsReading(Literal(p, p \o Mark)) /\ KeepsReading(Literal(p \o Mark, p))
<1>1. Mark \in Text /\ p \o Mark \in Text
  BY Marks, JoinedTexts
<1>2. ASSUME NEW x \in Text
      PROVE  Reading((p \o Mark) \o x) = Reading(p \o x)
  <2>1. (p \o Mark) \o x = p \o (Mark \o x)
    BY <1>1, TextAgain
  <2>2. Mark \o x \in Text
    BY <1>1, JoinedTexts
  <2>3. Reading(Mark \o x) = Reading(x)
    BY ReadMark
  <2>4. Reading(p \o (Mark \o x)) = Reading(p \o x)
    BY <2>2, <2>3, ReadAlike
  <2> QED
    BY <2>1, <2>4
<1> QED
  BY <1>1, <1>2, LiteralKeeps

\* The space behind a sentence's last symbol gives way to the mark.
LEMMA ReadSpaceMarked ==
  ASSUME NEW s \in Ink, NEW x \in Text
  PROVE  /\ <<s>> \o Mark \in Text /\ <<s, "sp">> \in Text
         /\ Reading((<<s>> \o Mark) \o x) = Reading(<<s, "sp">> \o x)
<1> DEFINE w == <<"sp">>
<1>1. s \in Symbol /\ "sp" \in White /\ "sp" \in Symbol
  BY DEF Ink, White, Symbol
<1>2. w \in Text /\ <<s>> \in Text /\ Mark \in Text
  BY <1>1, TextSymbol, Marks
<1>3. <<s, "sp">> = <<s>> \o w
  OBVIOUS
<1>4. <<s>> \o Mark \in Text /\ <<s>> \o w \in Text /\ Mark \o x \in Text /\ w \o x \in Text
  BY <1>2, JoinedTexts
<1>5. (<<s>> \o Mark) \o x = <<s>> \o (Mark \o x)
  BY <1>2, TextAgain
<1>6. (<<s>> \o w) \o x = <<s>> \o (w \o x)
  BY <1>2, TextAgain
<1>7. Spell(Mark \o x) = Spell(x)
  BY ReadMark DEF Spell
<1>8. Spell(w \o x) = Spell(x)
  BY <1>1, ReadWhite
<1>9. Reading(<<s>> \o (Mark \o x)) = Reading(<<s>> \o (w \o x))
  BY <1>4, <1>7, <1>8, ReadInk
<1> HIDE DEF w
<1> QED
  BY <1>3, <1>4, <1>5, <1>6, <1>9, Zenon

LEMMA SpaceMarkedKeeps ==
  ASSUME NEW s \in Ink
  PROVE  KeepsReading(Literal(<<s, "sp">>, <<s>> \o Mark))
<1>1. <<s>> \o Mark \in Text /\ <<s, "sp">> \in Text
  BY TextEmpty, ReadSpaceMarked
<1>2. \A x \in Text : Reading((<<s>> \o Mark) \o x) = Reading(<<s, "sp">> \o x)
  BY ReadSpaceMarked
<1> QED
  BY <1>1, <1>2, LiteralKeeps

LEMMA SplitTwo == \A p, q \in Symbol : <<p, q>> = <<p>> \o <<q>>
<1> SUFFICES ASSUME NEW p \in Symbol, NEW q \in Symbol
             PROVE  <<p, q>> = <<p>> \o <<q>>
  OBVIOUS
<1> DEFINE a == <<p, q>>
           w == <<q>>
           b == <<p>> \o w
<1>1. a \in Seq(Symbol) /\ Len(a) = 2 /\ a[1] = p /\ a[2] = q
  OBVIOUS
<1>2. w \in Seq(Symbol) /\ Len(w) = 1 /\ w[1] = q
  OBVIOUS
<1> HIDE DEF w
<1>3. \A v \in Seq(Symbol) : /\ <<p>> \o v \in Seq(Symbol)
                               /\ Len(<<p>> \o v) = Len(v) + 1 /\ (<<p>> \o v)[1] = p
                               /\ \A k \in 1 .. Len(v) + 1 : k # 1 => (<<p>> \o v)[k] = v[k - 1]
  BY OneBefore
<1> HIDE DEF a, b
<1>4. b \in Seq(Symbol) /\ b[1] = p /\ b[2] = q /\ Len(b) = 2
  BY <1>2, <1>3, SMTT(30) DEF b
<1>5. \A k \in 1 .. 2 : a[k] = b[k]
  BY <1>1, <1>4
<1>6. a = b
  BY <1>1, <1>4, <1>5, SeqEqual
<1> QED
  BY <1>6 DEF a, b, w

\* The rules that put blank lines before or behind a tag.
LEMMA TwoTagKeeps ==
  \A p, q \in Ink : /\ KeepsReading(Literal(<<p, q>>, Blank \o <<p, q>>))
                    /\ KeepsReading(Literal(<<p, q>>, <<p, q>> \o Blank))
<1> SUFFICES ASSUME NEW p \in Ink, NEW q \in Ink
             PROVE  /\ KeepsReading(Literal(<<p, q>>, Blank \o <<p, q>>))
                    /\ KeepsReading(Literal(<<p, q>>, <<p, q>> \o Blank))
  OBVIOUS
<1>1. <<p, q>> = <<p>> \o <<q>> /\ <<p>> \in Text /\ <<q>> \in Text
  BY SplitTwo, TextSymbol DEF Ink
<1>2. KeepsReading(Literal(<<p>> \o <<q>>, Blank \o (<<p>> \o <<q>>)))
  BY <1>1, BlankBeforeKeeps
<1>3. KeepsReading(Literal(<<p>> \o <<q>>, (<<p>> \o <<q>>) \o Blank))
  BY <1>1, BlankAfterKeeps
<1> QED
  BY <1>1, <1>2, <1>3, Zenon

LEMMA ThreeTagKeeps ==
  \A p \in Ink : \A q, r \in Symbol : KeepsReading(Literal(<<p, q, r>>, Blank \o <<p, q, r>>))
<1> SUFFICES ASSUME NEW p \in Ink, NEW q \in Symbol, NEW r \in Symbol
             PROVE  KeepsReading(Literal(<<p, q, r>>, Blank \o <<p, q, r>>))
  OBVIOUS
<1>1. <<p, q, r>> = <<p>> \o <<q, r>>
  BY DEF Ink
<1>2. <<q, r>> \in Text
  BY FewSymbols
<1>3. KeepsReading(Literal(<<p>> \o <<q, r>>, Blank \o (<<p>> \o <<q, r>>)))
  BY <1>2, BlankBeforeKeeps
<1> QED
  BY <1>1, <1>3, Zenon

LEMMA FourTagKeeps ==
  \A p, q, r \in Symbol : \A s \in Ink :
    KeepsReading(Literal(<<p, q, r, s>>, <<p, q, r, s>> \o Blank))
<1> SUFFICES ASSUME NEW p \in Symbol, NEW q \in Symbol, NEW r \in Symbol, NEW s \in Ink
             PROVE  KeepsReading(Literal(<<p, q, r, s>>, <<p, q, r, s>> \o Blank))
  OBVIOUS
<1>1. <<p, q, r, s>> = <<p, q, r>> \o <<s>>
  BY DEF Ink
<1>2. <<p, q, r>> \in Text
  BY FewSymbols
<1>3. KeepsReading(Literal(<<p, q, r>> \o <<s>>, (<<p, q, r>> \o <<s>>) \o Blank))
  BY <1>2, BlankAfterKeeps
<1> QED
  BY <1>1, <1>3, Zenon

LEMMA DotKeeps == KeepsReading(RegexDot)
<1> DEFINE rule == RegexDot
<1>1. IsRule(rule) /\ rule.kind = "dot"
  BY DEF IsRule, RegexDot
<1>2. \A match : Replacement(rule, match) = <<".">> \o Mark
  BY <1>1 DEF Replacement
<1>3. \A t, i : MatchAt(rule, i, t) # 0 =>
        MatchAt(rule, i, t) = 2 /\ StandsAt(<<".", "sp">>, i, t)
  BY <1>1 DEF MatchAt
<1> HIDE DEF rule
<1> SUFFICES ASSUME NEW t \in Text
             PROVE  Reading(Replaced(rule, t)) = Reading(t)
  BY DEF KeepsReading, rule
<1>4. "." \in Ink /\ "." \in Symbol /\ "sp" \in Symbol
  BY DEF Ink, White, Symbol, Punctuation
<1>5. ASSUME NEW i \in 1 .. Len(t), MatchAt(rule, i, t) # 0
      PROVE  SubSeq(t, i, i + MatchAt(rule, i, t) - 1) = <<".", "sp">>
  <2>1. MatchAt(rule, i, t) = 2 /\ StandsAt(<<".", "sp">>, i, t)
    BY <1>3, <1>5
  <2>2. i + 2 - 1 = i + 1 /\ i + 1 <= Len(t) /\ t[i] = "." /\ t[i + 1] = "sp"
    <3> DEFINE d == <<".", "sp">>
    <3>1. Len(d) = 2 /\ DOMAIN d = 1 .. 2 /\ d[1] = "." /\ d[2] = "sp"
      OBVIOUS
    <3> HIDE DEF d
    <3>2. i + 2 - 1 <= Len(t) /\ \A k \in 1 .. 2 : t[i + k - 1] = d[k]
      BY <2>1, <3>1 DEF StandsAt, d
    <3>3. 1 \in 1 .. 2 /\ 2 \in 1 .. 2 /\ i + 1 - 1 = i /\ i + 2 - 1 = i + 1
      OBVIOUS
    <3> QED
      BY <3>1, <3>2, <3>3
  <2>3. SubSeq(t, i, i + 1) = <<t[i], t[i + 1]>>
    <3>1. i \in 1 .. Len(t) /\ i + 1 \in i .. Len(t) /\ i + 1 \in 1 .. Len(t) /\ i + 1 \in i + 1 .. Len(t)
      BY <2>2
    <3>2. t \in Seq(Symbol)
      BY DEF Text
    <3>3. SubSeq(t, i, i + 1) = <<t[i]>> \o SubSeq(t, i + 1, i + 1)
      BY <3>1, <3>2, SubSeqRecursiveFirst
    <3>4. SubSeq(t, i + 1, i + 1) = <<t[i + 1]>> \o SubSeq(t, (i + 1) + 1, i + 1)
      BY <3>1, <3>2, SubSeqRecursiveFirst
    <3>5. SubSeq(t, (i + 1) + 1, i + 1) = <<>>
      BY <3>1, SubSeqEmpty
    <3>6. t[i] \in Symbol /\ t[i + 1] \in Symbol
      BY <1>4, <2>2
    <3>7. <<t[i + 1]>> \o <<>> = <<t[i + 1]>> /\ <<t[i], t[i + 1]>> = <<t[i]>> \o <<t[i + 1]>>
      BY <3>6, TextSymbol, TextAlone, SplitTwo, Zenon
    <3> QED
      BY <3>3, <3>4, <3>5, <3>7, Zenon
  <2> QED
    BY <2>1, <2>2, <2>3, Zenon
<1>6. \A i \in 1 .. Len(t) : MatchAt(rule, i, t) # 0 =>
        LET match == SubSeq(t, i, i + MatchAt(rule, i, t) - 1)
        IN \A x \in Text : Reading(Replacement(rule, match) \o x) = Reading(match \o x)
  BY <1>2, <1>4, <1>5, ReadSpaceMarked
<1> QED
  BY <1>1, <1>6, ReplacedReads

LEMMA UrlKeeps == KeepsReading(RegexUrl)
<1> DEFINE rule == RegexUrl
<1>1. IsRule(rule) /\ rule.kind = "url"
  BY DEF IsRule, RegexUrl
<1>2. \A match : Replacement(rule, match) = (Mark \o match) \o Mark
  BY <1>1 DEF Replacement
<1> HIDE DEF rule
<1> SUFFICES ASSUME NEW t \in Text
             PROVE  Reading(Replaced(rule, t)) = Reading(t)
  BY DEF KeepsReading, rule
<1>3. ASSUME NEW m \in Text, NEW x \in Text
      PROVE  Reading(((Mark \o m) \o Mark) \o x) = Reading(m \o x)
  <2>1. Mark \in Text /\ Mark \o m \in Text /\ Mark \o x \in Text
    BY Marks, JoinedTexts
  <2>2. m \o (Mark \o x) \in Text
    BY <2>1, JoinedTexts
  <2>3. ((Mark \o m) \o Mark) \o x = (Mark \o m) \o (Mark \o x)
    BY <2>1, TextAgain, ZenonT(40)
  <2>4. (Mark \o m) \o (Mark \o x) = Mark \o (m \o (Mark \o x))
    <3>1. \A y \in Text : (Mark \o m) \o y = Mark \o (m \o y)
      BY <2>1, TextAgain
    <3> QED
      BY <2>1, <3>1, Zenon
  <2>5. Reading(Mark \o (m \o (Mark \o x))) = Reading(m \o (Mark \o x))
    BY <2>2, ReadMark
  <2>6. Reading(Mark \o x) = Reading(x)
    BY ReadMark
  <2>7. Reading(m \o (Mark \o x)) = Reading(m \o x)
    BY <2>1, <2>6, ReadAlike
  <2> QED
    BY <2>3, <2>4, <2>5, <2>7, Zenon
<1>4. \A i \in 1 .. Len(t) : SubSeq(t, i, i + MatchAt(rule, i, t) - 1) \in Text
  BY <1>1, MatchInText, PartOfText
<1>5. \A i \in 1 .. Len(t) : MatchAt(rule, i, t) # 0 =>
        LET match == SubSeq(t, i, i + MatchAt(rule, i, t) - 1)
        IN \A x \in Text : Reading(Replacement(rule, match) \o x) = Reading(match \o x)
  BY <1>2, <1>3, <1>4
<1> QED
  BY <1>1, <1>5, ReplacedReads

LEMMA LineEndsKeep ==
  /\ KeepsReading(Literal(<<"cr", "nl">>, <<"nl">>))
  /\ KeepsReading(Literal(<<"cr">>, <<"nl">>))
<1> DEFINE c == <<"cr">>
           w == <<"nl">>
           d == <<"cr", "nl">>
<1>1. "cr" \in White /\ "nl" \in White /\ "cr" \in Symbol /\ "nl" \in Symbol
  BY DEF White, Symbol
<1>2. c \in Text /\ w \in Text /\ d = c \o w
  BY <1>1, TextSymbol
<1>3. d \in Text
  BY <1>2, JoinedTexts
<1>4. \A x \in Text : Reading(w \o x) = Reading(c \o x)
  BY <1>1, ReadWhite
<1>5. ASSUME NEW x \in Text
      PROVE  Reading(w \o x) = Reading(d \o x)
  <2>1. w \o x \in Text /\ (c \o w) \o x = c \o (w \o x)
    BY <1>1, <1>2, FirstAgain, Zenon
  <2>2. /\ Reading(c \o (w \o x)) = [run |-> 0, rest |-> Spell(w \o x)]
        /\ Spell(w \o x) = Spell(x) /\ Reading(w \o x) = [run |-> 0, rest |-> Spell(x)]
    BY <1>1, <2>1, ReadWhite
  <2> HIDE DEF c, d, w
  <2> QED
    BY <1>2, <2>1, <2>2, Zenon
<1> HIDE DEF c, d, w
<1>6. KeepsReading(Literal(c, w)) /\ KeepsReading(Literal(d, w))
  BY <1>2, <1>3, <1>4, <1>5, LiteralKeeps
<1> QED
  BY <1>6 DEF c, d, w

LEMMA ParagraphRulesKeep ==
  \A k \in 1 .. Len(ParagraphRules) : KeepsReading(ParagraphRules[k])
<1>ink. /\ "<" \in Ink /\ ">" \in Ink /\ "{" \in Ink /\ "}" \in Ink /\ "|" \in Ink
        /\ \A s \in Ink : s \in Symbol
  BY DEF Ink, White, Symbol, Punctuation
<1> DEFINE
  r1 == Literal(<<"cr", "nl">>, <<"nl">>)
  r2 == Literal(<<"cr">>, <<"nl">>)
  r3 == Literal(<<"<", "table", ">">>, Blank \o <<"<", "table", ">">>)
  r4 == Literal(<<"<", "/", "table", ">">>, <<"<", "/", "table", ">">> \o Blank)
  r5 == Literal(<<"<", "tr", ">">>, Blank \o <<"<", "tr", ">">>)
  r6 == Literal(<<"<", "/", "tr", ">">>, <<"<", "/", "tr", ">">> \o Blank)
  r7 == Literal(<<"{", "|">>, Blank \o <<"{", "|">>)
  r8 == Literal(<<"|", "}">>, <<"|", "}">> \o Blank)
  r9 == Literal(<<"|", "-", "nl">>, Blank \o <<"|", "-", "nl">>)
<1>1. KeepsReading(r1) /\ KeepsReading(r2)
  BY LineEndsKeep
<1>3. KeepsReading(r3) /\ KeepsReading(r5) /\ KeepsReading(r9)
  BY <1>ink, SymbolsAre, ThreeTagKeeps, Zenon
<1>4. KeepsReading(r4) /\ KeepsReading(r6)
  BY <1>ink, SymbolsAre, FourTagKeeps, Zenon
<1>5. KeepsReading(r7) /\ KeepsReading(r8)
  BY <1>ink, TwoTagKeeps, Zenon
<1>10. ParagraphRules = <<r1, r2, r3, r4, r5, r6, r7, r8, r9>>
  BY DEF ParagraphRules
<1> HIDE DEF r1, r2, r3, r4, r5, r6, r7, r8, r9
<1>11. Len(<<r1, r2, r3, r4, r5, r6, r7, r8, r9>>) = 9
  OBVIOUS
<1>12. ASSUME NEW k \in 1 .. 9
     PROVE  KeepsReading(<<r1, r2, r3, r4, r5, r6, r7, r8, r9>>[k])
  <2>1. k = 1 \/ k = 2 \/ k = 3 \/ k = 4 \/ k = 5 \/ k = 6 \/ k = 7 \/ k = 8 \/ k = 9
    OBVIOUS
  <2> QED
    BY <1>1, <1>3, <1>4, <1>5, <2>1
<1> QED
  BY <1>10, <1>11, <1>12

LEMMA SentenceRulesKeep ==
  \A k \in 1 .. Len(SentenceRules) : KeepsReading(SentenceRules[k])
<1> DEFINE
  r1 == Literal(<<"nl">>, <<"nl">> \o Mark)
  r2 == RegexDot
  r3 == Literal(<<";", "sp">>, <<";">> \o Mark)
  r4 == Literal(<<"?", "sp">>, <<"?">> \o Mark)
  r5 == Literal(<<"!", "sp">>, <<"!">> \o Mark)
  r6 == Literal(<<":", "sp">>, <<":">> \o Mark)
  r7 == Literal(<<"tab">>, <<"tab">> \o Mark)
  r8 == Literal(<<"<", "!", "-", "-">>, Mark \o <<"<", "!", "-", "-">>)
  r9 == Literal(<<"-", "-", ">">>, <<"-", "-", ">">> \o Mark)
  r10 == Literal(<<"<", "ref">>, Mark \o <<"<", "ref">>)
  r11 == Literal(<<"/", "ref", ">">>, <<"/", "ref", ">">> \o Mark)
  r12 == RegexUrl
<1>0. /\ <<"nl">> \in Text /\ <<"tab">> \in Text /\ <<"-", "-", ">">> \in Text
      /\ <<"/", "ref", ">">> \in Text /\ <<"<", "!", "-", "-">> \in Text
      /\ <<"<", "ref">> \in Text
  BY SymbolsAre, FewSymbols, ZenonT(40)
<1>1. KeepsReading(r1) /\ KeepsReading(r7) /\ KeepsReading(r9) /\ KeepsReading(r11)
  BY <1>0, MarkAfterKeeps
<1>2. KeepsReading(r8) /\ KeepsReading(r10)
  BY <1>0, MarkBeforeKeeps
<1>3. KeepsReading(r3) /\ KeepsReading(r4) /\ KeepsReading(r5) /\ KeepsReading(r6)
  <2>1. ";" \in Ink /\ "?" \in Ink /\ "!" \in Ink /\ ":" \in Ink
    BY DEF Ink, White, Symbol, Punctuation
  <2> QED
    BY <2>1, SpaceMarkedKeeps
<1>4. KeepsReading(r2) /\ KeepsReading(r12)
  BY DotKeeps, UrlKeeps
<1>13. SentenceRules = <<r1, r2, r3, r4, r5, r6, r7, r8, r9, r10, r11, r12>>
  BY DEF SentenceRules
<1> HIDE DEF r1, r2, r3, r4, r5, r6, r7, r8, r9, r10, r11, r12
<1>14. Len(<<r1, r2, r3, r4, r5, r6, r7, r8, r9, r10, r11, r12>>) = 12
  OBVIOUS
<1>15. ASSUME NEW k \in 1 .. 12
     PROVE  KeepsReading(<<r1, r2, r3, r4, r5, r6, r7, r8, r9, r10, r11, r12>>[k])
  <2>1. k = 1 \/ k = 2 \/ k = 3 \/ k = 4 \/ k = 5 \/ k = 6 \/ k = 7 \/ k = 8 \/ k = 9 \/ k = 10 \/ k = 11 \/ k = 12
    OBVIOUS
  <2> QED
    BY <1>1, <1>2, <1>3, <1>4, <2>1
<1> QED
  BY <1>13, <1>14, <1>15

LEMMA RewrittenReads ==
  ASSUME NEW rules, AreRules(rules), \A k \in 1 .. Len(rules) : KeepsReading(rules[k]),
         NEW t \in Text
  PROVE  Reading(RewrittenBy(rules, t)) = Reading(t)
<1>1. PICK n \in Nat : n = Len(rules)
  BY DEF AreRules
<1>2. PICK f : /\ Rewrites(f, rules, t) /\ RewrittenBy(rules, t) = f[n]
               /\ \A k \in 0 .. n : f[k] \in Text
  BY <1>1, RewrittenChain
<1>3. \A k \in 0 .. n : f[k] = IF k = 0 THEN t ELSE Replaced(rules[k], f[k - 1])
  BY <1>1, <1>2 DEF Rewrites
<1> DEFINE P == {k \in 0 .. n : Reading(f[k]) = Reading(t)}
<1>4. 0 \in P
  BY <1>3
<1>5. ASSUME NEW k \in 0 .. n - 1, k \in P
      PROVE  k + 1 \in P
  <2>1. k + 1 \in 0 .. n /\ k + 1 \in 1 .. n /\ k + 1 # 0 /\ (k + 1) - 1 = k /\ k \in 0 .. n
    OBVIOUS
  <2>2. f[k + 1] = Replaced(rules[k + 1], f[k])
    BY <1>3, <2>1
  <2>3. Reading(Replaced(rules[k + 1], f[k])) = Reading(f[k])
    BY <1>1, <1>2, <2>1 DEF KeepsReading
  <2> QED
    BY <1>5, <2>1, <2>2, <2>3
<1>6. n \in P
  <2> HIDE DEF P
  <2>1. \A k \in 0 .. n : k \in P
    BY <1>4, <1>5, Upwards
  <2> QED
    BY <2>1
<1> QED
  BY <1>2, <1>6

LEMMA MergeKeeps == KeepsReading(MergeMarks)
BY Marks, MarkAfterKeeps DEF MergeMarks

-----------------------------------------------------------------------------
(* The parts a text is cut into spell what the text spells.                *)

Spelling == [t \in Text |-> Spell(t)]
FlatSpell(parts) == Flat(Spelling, parts)

LEMMA SpellingIs == Spelling \in [Text -> Text] /\ \A t \in Text : Spelling[t] = Spell(t)
BY ReadingIs DEF Spelling

LEMMA FlatSpellIs ==
  /\ FlatSpell(<<>>) = <<>>
  /\ \A s \in Seq(Text) : FlatSpell(s) \in Text
  /\ \A x \in Text : FlatSpell(<<x>>) = Spell(x)
  /\ \A s, t \in Seq(Text) : FlatSpell(s \o t) = FlatSpell(s) \o FlatSpell(t)
<1>1. PICK G \in [Text -> Text] : G = Spelling
  BY SpellingIs
<1>2. \A x \in Text : G[x] = Spell(x)
  BY <1>1, SpellingIs
<1>3. G \in [Text -> Seq(Symbol)]
  BY <1>1 DEF Text
<1>4. \A s : FlatSpell(s) = Flat(G, s)
  BY <1>1 DEF FlatSpell
<1>5. Flat(G, <<>>) = <<>>
  BY FlatEmpty
<1>6. \A s \in Seq(Text) : Flat(G, s) \in Seq(Symbol)
  BY <1>3, FlatType
<1>7. \A x \in Text : Flat(G, <<x>>) = G[x]
  BY <1>3, FlatOne
<1>8. \A s, t \in Seq(Text) : Flat(G, s \o t) = Flat(G, s) \o Flat(G, t)
  BY <1>3, FlatJoin
<1>9. \A s \in Seq(Text) : FlatSpell(s) \in Text
  BY <1>4, <1>6 DEF Text
<1> QED
  BY <1>2, <1>4, <1>5, <1>7, <1>8, <1>9, Zenon

LEMMA FlatSpellFirst ==
  ASSUME NEW x \in Text, NEW s \in Seq(Text)
  PROVE  FlatSpell(<<x>> \o s) = Spell(x) \o FlatSpell(s)
<1>1. <<x>> \in Seq(Text)
  OBVIOUS
<1> QED
  BY <1>1, FlatSpellIs, Zenon

\* A text that reads as its parts do, one after the other.
ReadsAs(parts, t) == Reading(t) = Before(Reading(parts[1]), FlatSpell(Tail(parts)))

LEMMA PieceIs ==
  ASSUME NEW rest \in Parts, NEW s \in Symbol
  PROVE  /\ rest[1] \in Text /\ Tail(rest) \in Seq(Text) /\ rest \in Seq(Text)
         /\ rest = <<rest[1]>> \o Tail(rest)
         /\ Piece(rest, TRUE, s)[1] = <<>> /\ Tail(Piece(rest, TRUE, s)) = rest
         /\ Piece(rest, FALSE, s)[1] = <<s>> \o rest[1]
         /\ Tail(Piece(rest, FALSE, s)) = Tail(rest)
<1>1. rest \in Seq(Text) /\ rest # <<>>
  BY DEF Parts
<1>2. rest[1] \in Text /\ Tail(rest) \in Seq(Text)
  <2>1. Len(rest) \in Nat \ {0} /\ 1 \in 1 .. Len(rest)
    BY <1>1, EmptySeq
  <2> QED
    BY <1>1, <2>1, ElementOfSeq, HeadTailProperties
<1>3. \A x \in Text : \A w \in Seq(Text) :
        (<<x>> \o w)[1] = x /\ Tail(<<x>> \o w) = w
  <2> TAKE x \in Text
  <2> TAKE w \in Seq(Text)
  <2>1. PICK m \in Nat : m = Len(w) /\ w \in [1 .. m -> Text]
    OBVIOUS
  <2> DEFINE v == <<x>> \o w
  <2>2. /\ v \in Seq(Text) /\ Len(v) = m + 1 /\ v[1] = x
        /\ \A k \in 1 .. m + 1 : k # 1 => v[k] = w[k - 1]
    BY <2>1, OneBefore
  <2> HIDE DEF v
  <2>3. Tail(v) \in Seq(Text) /\ Len(Tail(v)) = m /\ \A k \in 1 .. m : Tail(v)[k] = v[k + 1]
    BY <2>2
  <2>4. \A k \in 1 .. m : Tail(v)[k] = w[k]
    BY <2>2, <2>3
  <2>5. Tail(v) = w
    BY <2>1, <2>3, <2>4, SeqEqual
  <2> QED
    BY <2>2, <2>5 DEF v
<1>4. rest = <<rest[1]>> \o Tail(rest)
  <2>1. PICK m \in Nat \ {0} : m = Len(rest) /\ rest \in [1 .. m -> Text]
    BY <1>1, EmptySeq
  <2>2. PICK w \in Seq(Text), x \in Text : w = Tail(rest) /\ x = rest[1]
    BY <1>2
  <2>3. Len(w) = m - 1 /\ \A k \in 1 .. m - 1 : w[k] = rest[k + 1]
    BY <2>1, <2>2
  <2> DEFINE v == <<x>> \o w
  <2>4. /\ v \in Seq(Text) /\ Len(v) = Len(w) + 1 /\ v[1] = x
        /\ \A k \in 1 .. Len(w) + 1 : k # 1 => v[k] = w[k - 1]
    BY OneBefore
  <2> HIDE DEF v
  <2>5. Len(v) = m /\ \A k \in 1 .. m : v[k] = rest[k]
    BY <2>1, <2>2, <2>3, <2>4
  <2>6. v = rest
    BY <1>1, <2>1, <2>4, <2>5, SeqEqual
  <2> QED
    BY <2>2, <2>6 DEF v
<1>5. Piece(rest, TRUE, s) = <<<<>>>> \o rest
  BY DEF Piece
<1>6. Piece(rest, FALSE, s) = <<<<s>> \o rest[1]>> \o Tail(rest)
  BY DEF Piece
<1>7. <<>> \in Text /\ <<s>> \o rest[1] \in Text
  BY <1>2, TextEmpty, FirstAgain
<1>8. Piece(rest, TRUE, s)[1] = <<>> /\ Tail(Piece(rest, TRUE, s)) = rest
  BY <1>1, <1>3, <1>5, <1>7, Zenon
<1>9. PICK x \in Text, w \in Seq(Text) : x = <<s>> \o rest[1] /\ w = Tail(rest)
  BY <1>2, <1>7
<1>10. Piece(rest, FALSE, s) = <<x>> \o w
  BY <1>6, <1>9
<1>11. Piece(rest, FALSE, s)[1] = x /\ Tail(Piece(rest, FALSE, s)) = w
  BY <1>3, <1>10, Zenon
<1> QED
  BY <1>1, <1>2, <1>4, <1>8, <1>9, <1>11, Zenon

LEMMA ReadsAsSpells ==
  ASSUME NEW parts \in Parts, NEW t \in Text, ReadsAs(parts, t)
  PROVE  FlatSpell(parts) = Spell(t)
<1>1. PICK p \in Text, w \in Seq(Text) : p = parts[1] /\ w = Tail(parts) /\ parts = <<p>> \o w
  BY PieceIs, Marks, ZenonT(40)
<1>2. FlatSpell(parts) = Spell(p) \o FlatSpell(w) /\ FlatSpell(w) \in Text
  BY <1>1, FlatSpellFirst, FlatSpellIs
<1>3. Spelled(Before(Reading(p), FlatSpell(w))) = Spelled(Reading(p)) \o FlatSpell(w)
  BY <1>2, ReadingIs, BeforeIs
<1>4. Reading(t) = Before(Reading(p), FlatSpell(w))
  BY <1>1 DEF ReadsAs
<1> QED
  BY <1>2, <1>3, <1>4, Zenon DEF Spell

LEMMA ReadsAsNext ==
  ASSUME NEW rest \in Parts, NEW x \in Text, NEW s \in Symbol,
         ReadsAs(rest, x) \/ (s # "@" /\ FlatSpell(rest) = Spell(x))
  PROVE  ReadsAs(Piece(rest, FALSE, s), <<s>> \o x)
<1>1. PICK p \in Text, w \in Seq(Text) : p = rest[1] /\ w = Tail(rest) /\ rest = <<p>> \o w
  BY PieceIs
<1> DEFINE z == FlatSpell(w)
<1>2. z \in Text
  BY FlatSpellIs
<1>3. Piece(rest, FALSE, s)[1] = <<s>> \o p /\ Tail(Piece(rest, FALSE, s)) = w
  BY <1>1, PieceIs
<1>4. SUFFICES Reading(<<s>> \o x) = Before(Reading(<<s>> \o p), z)
  BY <1>3, Zenon DEF ReadsAs
<1>5. CASE ReadsAs(rest, x)
  <2>1. Reading(x) = Before(Reading(p), z)
    BY <1>1, <1>5 DEF ReadsAs
  <2>2. ReadSymbol(s, Before(Reading(p), z)) = Before(ReadSymbol(s, Reading(p)), z)
    BY <1>2, ReadingIs, BeforeIs
  <2>3. Reading(<<s>> \o x) = ReadSymbol(s, Reading(x)) /\ Reading(<<s>> \o p) = ReadSymbol(s, Reading(p))
    BY ReadFirst
  <2> QED
    BY <2>1, <2>2, <2>3, Zenon
<1>6. CASE s # "@" /\ FlatSpell(rest) = Spell(x)
  <2>1. Spell(x) = Spell(p) \o z /\ Spell(p) \in Text
    BY <1>1, <1>6, FlatSpellFirst, ReadingIs
  <2>2. CASE s \in White
    <3>1. Reading(<<s>> \o x) = [run |-> 0, rest |-> Spell(x)]
      BY <2>2, ReadWhite
    <3>2. Reading(<<s>> \o p) = [run |-> 0, rest |-> Spell(p)]
      BY <2>2, ReadWhite
    <3>3. Before([run |-> 0, rest |-> Spell(p)], z) = [run |-> 0, rest |-> Spell(p) \o z]
      BY DEF Before
    <3> QED
      BY <2>1, <3>1, <3>2, <3>3, Zenon
  <2>3. CASE s \notin White
    <3>1. s \in Symbol \ (White \cup {"@"})
      BY <1>6, <2>3
    <3>2. Reading(<<s>> \o x) = [run |-> 0, rest |-> <<s>> \o Spell(x)]
      BY <3>1, SpellInk
    <3>3. Reading(<<s>> \o p) = [run |-> 0, rest |-> <<s>> \o Spell(p)]
      BY <3>1, SpellInk
    <3>4. <<s>> \o (Spell(p) \o z) = (<<s>> \o Spell(p)) \o z
      BY <1>2, <2>1, FirstAgain, Zenon
    <3>5. \A r : Before([run |-> 0, rest |-> r], z) = [run |-> 0, rest |-> r \o z]
      BY DEF Before
    <3> QED
      BY <2>1, <3>2, <3>3, <3>4, <3>5, Zenon
  <2> QED
    BY <2>2, <2>3
<1> QED
  BY <1>5, <1>6

LEMMA StandingIs ==
  ASSUME NEW t \in Text, NEW part \in Text, NEW i \in 1 .. Len(t), StandsAt(part, i, t)
  PROVE  /\ i + Len(part) <= Len(t) + 1
         /\ SubSeq(t, i, i + Len(part) - 1) = part
         /\ Rest(t, i) = part \o Rest(t, i + Len(part))
<1>1. PICK m \in Nat : m = Len(part) /\ DOMAIN part = 1 .. m /\ part \in Seq(Symbol)
  BY DEF Text
<1>2. i + m - 1 <= Len(t) /\ \A k \in 1 .. m : t[i + k - 1] = part[k]
  BY <1>1 DEF StandsAt
<1>3. PICK e \in Int : e = i + m - 1
  BY <1>1
<1>4. \A k \in i .. e : t[k] \in Symbol
  BY <1>2, <1>3 DEF Text
<1>5. e - i + 1 = m /\ (i <= e <=> 1 <= m) /\ i \in Int
  BY <1>1, <1>3
<1> DEFINE w == SubSeq(t, i, e)
<1>6. w \in Seq(Symbol) /\ Len(w) = m /\ \A k \in 1 .. m : w[k] = t[i + k - 1]
  BY <1>1, <1>4, <1>5, SubSeqProperties
<1> HIDE DEF w
<1>7. w = part
  BY <1>1, <1>2, <1>6, SeqEqual
<1>8. i + m <= Len(t) + 1
  <2>1. Len(t) \in Nat
    BY DEF Text
  <2> QED
    BY <1>1, <1>2, <2>1
<1>9. Rest(t, i) = SubSeq(t, i, i + m - 1) \o Rest(t, i + m)
  BY <1>1, <1>8, RestFrom
<1> QED
  BY <1>1, <1>3, <1>7, <1>8, <1>9 DEF w

LEMMA MarkShifts ==
  ASSUME NEW t \in Text, NEW i \in 1 .. Len(t), t[i] = "@", StandsAt(Mark, i + 1, t)
  PROVE  StandsAt(Mark, i, t)
<1>1. PICK L \in Nat : L = Len(t)
  BY DEF Text
<1>2. (i + 1) + 3 <= L /\ \A k \in 0 .. 3 : t[(i + 1) + k] = "@"
  <2>1. i + 1 \in Nat
    BY <1>1
  <2> QED
    BY <1>1, <2>1, MarkAt
<1>3. ASSUME NEW k \in 0 .. 3
      PROVE  t[i + k] = "@"
  <2>1. CASE k = 0
    <3>1. i + k = i
      BY <1>1, <2>1
    <3> QED
      BY <3>1
  <2>2. CASE k # 0
    <3>1. k - 1 \in 0 .. 3 /\ (i + 1) + (k - 1) = i + k
      BY <1>1, <2>2
    <3> QED
      BY <1>2, <3>1
  <2> QED
    BY <2>1, <2>2
<1>4. i + 3 <= L /\ i \in Nat
  BY <1>1, <1>2
<1> QED
  BY <1>1, <1>3, <1>4, MarkAt

LEMMA CutSpells ==
  ASSUME NEW t \in Text, NEW separator \in {Blank, Mark}
  PROVE  FlatSpell(Cut(t, separator)) = Spell(t)
<1>1. PICK L \in Nat : L = Len(t)
  BY DEF Text
<1>2. PICK m \in Nat \ {0} : m = Len(separator)
  <2>1. Len(Blank) = 2 /\ Len(Mark) = 4
    BY DEF Blank, Mark
  <2>2. Len(separator) = 2 \/ Len(separator) = 4
    BY <2>1, Zenon
  <2>3. Len(separator) \in Nat \ {0}
    <3>1. \A n : n = 2 \/ n = 4 => n \in Nat \ {0}
      OBVIOUS
    <3> QED
      BY <2>2, <3>1, Zenon
  <2> QED
    BY <2>3
<1>3. separator \in Text /\ separator # <<>>
  <2>1. Len(<<>>) = 0
    OBVIOUS
  <2> QED
    BY <1>2, <2>1, Marks
<1>4. PICK f : /\ CutsFrom(f, t, separator) /\ Cut(t, separator) = f[1]
               /\ \A i \in 1 .. L + 1 : f[i] \in Parts
  BY <1>1, <1>3, CutScans
<1> DEFINE st(i) == StandsAt(separator, i, t)
           next == [i \in 1 .. L |-> IF st(i) THEN i + m ELSE i + 1]
<1>5. \A i \in 1 .. L + 1 :
        f[i] = IF i > L THEN <<<<>>>>
               ELSE Piece(f[IF st(i) THEN i + m ELSE i + 1], st(i), t[i])
  BY <1>1, <1>2, <1>4 DEF CutsFrom
<1>6. \A i \in 1 .. L : st(i) => i + m <= L + 1 /\ Rest(t, i) = separator \o Rest(t, i + m)
  BY <1>1, <1>2, <1>3, StandingIs
<1>7. \A i \in 1 .. L : st(i) \in BOOLEAN
  BY DEF StandsAt
<1> DEFINE Marked(i) == separator = Mark /\ i <= L /\ st(i) /\ FlatSpell(f[i]) = Spell(Rest(t, i))
           P == {i \in 1 .. L + 1 : ReadsAs(f[i], Rest(t, i)) \/ Marked(i)}
<1>8. \A i \in P : i \in 1 .. L + 1 /\ FlatSpell(f[i]) = Spell(Rest(t, i))
  BY <1>1, <1>4, RestIs, ReadsAsSpells
<1>9. \A y : Before(Unread, y) = [run |-> 0, rest |-> <<>> \o y]
  BY DEF Before, Unread
<1>10. L + 1 \in P
  <2>1. L + 1 \in 1 .. L + 1 /\ L + 1 > L
    BY <1>1
  <2>2. f[L + 1] = <<<<>>>> /\ Rest(t, L + 1) = <<>>
    BY <1>1, <1>5, <2>1, RestIs
  <2>3. f[L + 1][1] = <<>> /\ Tail(f[L + 1]) = <<>>
    BY <2>2
  <2>4. Before(Unread, <<>>) = Unread
    BY <1>9, TextEmpty, TextAlone, Zenon DEF Unread
  <2>5. ReadsAs(f[L + 1], Rest(t, L + 1))
    BY <2>2, <2>3, <2>4, ReadEmpty, FlatSpellIs, Zenon DEF ReadsAs
  <2> QED
    BY <2>1, <2>5
<1> HIDE DEF st
<1>11. ASSUME NEW i \in 1 .. L, next[i] \in P
       PROVE  i \in P
  <2>0. t[i] \in Symbol
    BY <1>1, RestIs
  <2>1. i \in 1 .. L + 1 /\ ~(i > L) /\ i <= L /\ t[i] \in Symbol
    BY <2>0
  <2>2. CASE st(i)
    <3>1. next[i] = i + m
      BY <2>2
    <3>2. PICK r \in Parts : r = f[i + m] /\ f[i] = Piece(r, TRUE, t[i])
      <4>1. f[i + m] \in Parts
        BY <1>4, <1>8, <1>11, <3>1
      <4>2. st(i) = TRUE
        BY <1>7, <2>2
      <4> QED
        BY <1>5, <2>1, <2>2, <4>1, <4>2
    <3>3. PICK y \in Text : y = Rest(t, i + m) /\ Rest(t, i) = separator \o y
      BY <1>1, <1>6, <1>8, <1>11, <2>2, <3>1, RestIs
    <3>4. FlatSpell(r) = Spell(y)
      BY <1>8, <1>11, <3>1, <3>2, <3>3
    <3>5. f[i][1] = <<>> /\ Tail(f[i]) = r /\ r \in Seq(Text)
      <4>1. Piece(r, TRUE, t[i])[1] = <<>> /\ Tail(Piece(r, TRUE, t[i])) = r /\ r \in Seq(Text)
        BY <2>1, PieceIs
      <4> QED
        BY <3>2, <4>1
    <3>6. Spell(y) \in Text
      BY ReadingIs
    <3>7. CASE separator = Blank
      <4>1. Reading(Rest(t, i)) = [run |-> 0, rest |-> Spell(y)]
        BY <3>3, <3>7, BlankIs
      <4>2. Before(Reading(f[i][1]), FlatSpell(Tail(f[i]))) = [run |-> 0, rest |-> <<>> \o Spell(y)]
        BY <1>9, <3>4, <3>5, ReadEmpty, Zenon
      <4>3. ReadsAs(f[i], Rest(t, i))
        BY <3>6, <4>1, <4>2, TextAlone, Zenon DEF ReadsAs
      <4> QED
        BY <2>1, <4>3
    <3>8. CASE separator = Mark
      <4>1. Spell(Rest(t, i)) = Spell(y)
        BY <3>3, <3>8, ReadMark, Zenon DEF Spell
      <4>2. f[i] = <<<<>>>> \o r
        BY <3>2 DEF Piece
      <4>3. FlatSpell(f[i]) = Spell(<<>>) \o FlatSpell(r)
        BY <3>5, <4>2, TextEmpty, FlatSpellFirst
      <4>4. FlatSpell(f[i]) = Spell(y)
        BY <3>4, <3>6, <4>3, ReadEmpty, TextAlone, Zenon
      <4> QED
        BY <2>1, <2>2, <3>8, <4>1, <4>4
    <3> QED
      BY <3>7, <3>8
  <2>3. CASE ~st(i)
    <3>1. next[i] = i + 1
      BY <2>3
    <3>2. PICK r \in Parts : r = f[i + 1] /\ f[i] = Piece(r, FALSE, t[i])
      <4>1. f[i + 1] \in Parts
        BY <1>4, <1>8, <1>11, <3>1
      <4>2. st(i) = FALSE
        BY <1>7, <2>3
      <4> QED
        BY <1>5, <2>1, <2>3, <4>1, <4>2
    <3>3. PICK y \in Text : y = Rest(t, i + 1) /\ Rest(t, i) = <<t[i]>> \o y
      <4>1. i + 1 \in 1 .. L + 1
        BY <1>1
      <4>2. Rest(t, i + 1) \in Text /\ Rest(t, i) = <<t[i]>> \o Rest(t, i + 1)
        BY <1>1, <4>1, RestIs
      <4> QED
        BY <4>2
    <3>4. ReadsAs(r, y) \/ Marked(i + 1)
      BY <1>11, <3>1, <3>2, <3>3
    <3>5. Marked(i + 1) => t[i] # "@" /\ FlatSpell(r) = Spell(y)
      <4>1. ASSUME Marked(i + 1)
            PROVE  t[i] # "@"
        <5>1. StandsAt(Mark, i + 1, t) /\ ~StandsAt(Mark, i, t)
          BY <2>3, <4>1 DEF st
        <5> QED
          BY <1>1, <5>1, MarkShifts
      <4> QED
        BY <3>2, <3>3, <4>1
    <3>6. ReadsAs(f[i], Rest(t, i))
      <4> HIDE DEF Marked
      <4> QED
        BY <2>1, <3>2, <3>3, <3>4, <3>5, ReadsAsNext
    <3> QED
      BY <2>1, <3>6
  <2> QED
    BY <2>2, <2>3
<1>12. Jumps(next, L)
  BY <1>1, <1>2, <1>6 DEF Jumps
<1>13. \A i \in 1 .. L + 1 : i \in P
  <2> HIDE DEF P, next
  <2> QED
    BY <1>1, <1>10, <1>11, <1>12, Downwards
<1>14. FlatSpell(f[1]) = Spell(Rest(t, 1))
  <2>1. 1 \in 1 .. L + 1
    BY <1>1
  <2> HIDE DEF P
  <2> QED
    BY <1>8, <1>13, <2>1
<1> QED
  BY <1>4, <1>14, RestIs

-----------------------------------------------------------------------------
(* What the parts of a text are made of.                                   *)

LEMMA CutSymbols ==
  ASSUME NEW S \in SUBSET Symbol, NEW t \in Seq(S), NEW separator \in Text, separator # <<>>
  PROVE  Cut(t, separator) \in Seq(Seq(S)) /\ Cut(t, separator) \in Parts
<1>0. t \in Text
  BY DEF Text
<1>1. PICK L \in Nat : L = Len(t) /\ t \in [1 .. L -> S]
  OBVIOUS
<1>2. PICK m \in Nat \ {0} : m = Len(separator)
  BY EmptySeq DEF Text
<1>3. PICK f : /\ CutsFrom(f, t, separator) /\ Cut(t, separator) = f[1]
               /\ \A i \in 1 .. L + 1 : f[i] \in Parts
  BY <1>0, <1>1, CutScans
<1> DEFINE st(i) == StandsAt(separator, i, t)
           next == [i \in 1 .. L |-> IF st(i) THEN i + m ELSE i + 1]
           Q == Seq(Seq(S))
           P == {i \in 1 .. L + 1 : f[i] \in Q}
<1>4. \A i \in 1 .. L + 1 :
        f[i] = IF i > L THEN <<<<>>>>
               ELSE Piece(f[IF st(i) THEN i + m ELSE i + 1], st(i), t[i])
  BY <1>1, <1>2, <1>3 DEF CutsFrom
<1>5. \A i \in 1 .. L : st(i) => i + m <= L + 1
  BY <1>1, <1>2 DEF StandsAt
<1>6. Jumps(next, L)
  BY <1>1, <1>2, <1>5 DEF Jumps
<1>7. L + 1 \in P
  <2>1. <<>> \in Seq(S) /\ L + 1 \in 1 .. L + 1 /\ L + 1 > L
    OBVIOUS
  <2>2. <<<<>>>> \in Q
    BY <2>1
  <2> HIDE DEF Q
  <2> QED
    BY <1>4, <2>1, <2>2
<1> HIDE DEF st
<1>8. ASSUME NEW i \in 1 .. L, next[i] \in P
      PROVE  i \in P
  <2>1. t[i] \in S /\ i \in 1 .. L + 1 /\ ~(i > L)
    BY <1>1
  <2>2. PICK r \in Parts : r = f[next[i]] /\ r \in Q /\ f[i] = Piece(r, st(i), t[i])
    <3>1. f[next[i]] \in Parts /\ f[next[i]] \in Q
      BY <1>3, <1>8
    <3>2. next[i] = IF st(i) THEN i + m ELSE i + 1
      OBVIOUS
    <3> HIDE DEF next, Q
    <3>3. f[i] = Piece(f[next[i]], st(i), t[i])
      BY <1>4, <2>1, <3>2, Zenon
    <3> QED
      BY <3>1, <3>3
  <2>3. /\ <<<<>>>> \o r \in Q
        /\ <<<<t[i]>> \o r[1]>> \o Tail(r) \in Q
    <3>1. r # <<>> /\ Len(r) \in Nat \ {0} /\ 1 \in 1 .. Len(r)
      BY <2>2, EmptySeq DEF Parts
    <3>2. r[1] \in Seq(S) /\ Tail(r) \in Q
      BY <2>2, <3>1, ElementOfSeq, HeadTailProperties
    <3>3. <<t[i]>> \o r[1] \in Seq(S) /\ <<>> \in Seq(S)
      BY <2>1, <3>2
    <3>4. <<<<t[i]>> \o r[1]>> \in Q /\ <<<<>>>> \in Q
      BY <3>3
    <3> QED
      BY <2>2, <3>2, <3>4, ConcatProperties
  <2>4. f[i] \in Q
    <3> HIDE DEF Q
    <3> QED
      BY <2>2, <2>3 DEF Piece
  <2> QED
    BY <2>1, <2>4
<1>9. \A i \in 1 .. L + 1 : i \in P
  <2> HIDE DEF P, next
  <2> QED
    BY <1>1, <1>6, <1>7, <1>8, Downwards
<1>10. 1 \in 1 .. L + 1
  BY <1>1
<1> QED
  BY <1>3, <1>9, <1>10

\* Behind every tab a sentence ends.
TabMarked(t) == \A i \in 1 .. Len(t) : t[i] = "tab" => StandsAt(Mark, i + 1, t)
TabLast(p) == \A k \in 1 .. Len(p) : p[k] = "tab" => k = Len(p)

\* What is cut at the marks has no mark in it, and no tab but as its last
\* symbol.
LEMMA CutSentences ==
  ASSUME NEW t \in Text, TabMarked(t)
  PROVE  \A k \in 1 .. Len(Cut(t, Mark)) :
           ~Occurs(Mark, Cut(t, Mark)[k]) /\ TabLast(Cut(t, Mark)[k])
<1>1. PICK L \in Nat : L = Len(t)
  BY DEF Text
<1>2. Len(Mark) = 4 /\ Mark \in Text /\ Mark # <<>>
  <2>1. Len(Mark) = 4 /\ Len(<<>>) = 0
    BY DEF Mark
  <2> QED
    BY <2>1, Marks
<1>3. PICK f : /\ CutsFrom(f, t, Mark) /\ Cut(t, Mark) = f[1]
               /\ \A i \in 1 .. L + 1 : f[i] \in Parts
  BY <1>1, <1>2, CutScans
<1> DEFINE st(i) == StandsAt(Mark, i, t)
           next == [i \in 1 .. L |-> IF st(i) THEN i + 4 ELSE i + 1]
           Good(p) == ~Occurs(Mark, p) /\ TabLast(p)
           Ahead(p, i) == Len(p) <= L + 1 - i /\ \A k \in 1 .. Len(p) : p[k] = t[i + k - 1]
           P == {i \in 1 .. L + 1 : /\ Ahead(f[i][1], i)
                                    /\ \A k \in 1 .. Len(f[i]) : Good(f[i][k])}
<1>4. \A i \in 1 .. L + 1 :
        f[i] = IF i > L THEN <<<<>>>>
               ELSE Piece(f[IF st(i) THEN i + 4 ELSE i + 1], st(i), t[i])
  BY <1>1, <1>2, <1>3 DEF CutsFrom
<1>5. \A i \in 1 .. L : st(i) => i + 4 <= L + 1
  BY <1>1, <1>2 DEF StandsAt
<1>6. Jumps(next, L)
  BY <1>1, <1>5 DEF Jumps
<1>7. Good(<<>>) /\ \A i \in 1 .. L + 1 : Ahead(<<>>, i)
  BY DEF Occurs, TabLast
<1>8. L + 1 \in P
  <2>1. L + 1 \in 1 .. L + 1 /\ L + 1 > L
    OBVIOUS
  <2>2. f[L + 1] = <<<<>>>>
    BY <1>4, <2>1
  <2>3. f[L + 1][1] = <<>> /\ \A k \in 1 .. Len(f[L + 1]) : f[L + 1][k] = <<>>
    BY <2>2
  <2> HIDE DEF Good, Ahead
  <2> QED
    BY <1>7, <2>1, <2>3
<1> HIDE DEF st
<1>9. ASSUME NEW i \in 1 .. L, next[i] \in P
      PROVE  i \in P
  <2>1. t[i] \in Symbol /\ i \in 1 .. L + 1 /\ ~(i > L)
    <3>1. t[i] \in Symbol
      BY <1>1 DEF Text
    <3> QED
      BY <3>1
  <2>2. PICK r \in Parts : /\ r = f[next[i]] /\ f[i] = Piece(r, st(i), t[i])
                           /\ \A k \in 1 .. Len(r) : Good(r[k])
                           /\ Ahead(r[1], next[i])
    <3>1. f[next[i]] \in Parts
      BY <1>3, <1>9
    <3>2. next[i] = IF st(i) THEN i + 4 ELSE i + 1
      OBVIOUS
    <3>3. Ahead(f[next[i]][1], next[i]) /\ \A k \in 1 .. Len(f[next[i]]) : Good(f[next[i]][k])
      BY <1>9
    <3> HIDE DEF next, Good, Ahead
    <3>4. f[i] = Piece(f[next[i]], st(i), t[i])
      BY <1>4, <2>1, <3>2, Zenon
    <3> QED
      BY <3>1, <3>3, <3>4
  <2>3. PICK n \in Nat \ {0} : n = Len(r) /\ r \in [1 .. n -> Text]
    BY <2>2, EmptySeq DEF Parts
  <2>4. CASE st(i)
    <3>1. f[i] = <<<<>>>> \o r
      BY <2>2, <2>4 DEF Piece
    <3>2. r \in Seq(Text) /\ <<>> \in Text
      BY TextEmpty DEF Parts
    <3>3. /\ Len(<<<<>>>> \o r) = n + 1 /\ (<<<<>>>> \o r)[1] = <<>>
          /\ \A k \in 1 .. n + 1 : k # 1 => (<<<<>>>> \o r)[k] = r[k - 1]
      BY <2>3, <3>2, OneBefore
    <3> HIDE DEF Good, Ahead
    <3>4. ASSUME NEW k \in 1 .. n + 1
          PROVE  Good(f[i][k])
      <4>1. CASE k = 1
        BY <1>7, <3>1, <3>3, <4>1
      <4>2. CASE k # 1
        <5>1. k - 1 \in 1 .. n
          BY <4>2
        <5> QED
          BY <2>2, <2>3, <3>1, <3>3, <4>2, <5>1
      <4> QED
        BY <4>1, <4>2
    <3> QED
      BY <1>7, <2>1, <3>1, <3>3, <3>4
  <2>5. CASE ~st(i)
    <3>1. next[i] = i + 1
      BY <2>5
    <3>2. f[i] = <<<<t[i]>> \o r[1]>> \o Tail(r)
      BY <2>2, <2>5 DEF Piece
    <3>3. PICK p \in Text, w \in Seq(Text) : p = r[1] /\ w = Tail(r)
      BY <2>1, PieceIs
    <3>4. PICK N \in Nat : N = Len(p) /\ DOMAIN p = 1 .. N
      BY DEF Text
    <3>5. Good(p) /\ N <= L + 1 - (i + 1) /\ \A k \in 1 .. N : p[k] = t[(i + 1) + k - 1]
      <4>1. 1 \in 1 .. n
        BY <2>3
      <4>2. Ahead(p, i + 1)
        BY <2>2, <3>1, <3>3
      <4>3. Good(p)
        BY <2>2, <2>3, <3>3, <4>1
      <4> QED
        BY <3>4, <4>2, <4>3
    <3> DEFINE q == <<t[i]>> \o p
    <3>6. /\ q \in Text /\ Len(q) = N + 1 /\ DOMAIN q = 1 .. N + 1 /\ q[1] = t[i]
          /\ \A k \in 1 .. N + 1 : k # 1 => q[k] = p[k - 1]
      BY <2>1, <3>4, OneBefore DEF Text
    <3> HIDE DEF q
    <3>7. Ahead(q, i)
      <4>1. N + 1 <= L + 1 - i
        BY <1>1, <3>5
      <4>2. ASSUME NEW k \in 1 .. N + 1
            PROVE  q[k] = t[i + k - 1]
        <5>1. CASE k = 1
          <6>1. i + k - 1 = i
            BY <5>1
          <6> QED
            BY <3>6, <5>1, <6>1
        <5>2. CASE k # 1
          <6>1. k - 1 \in 1 .. N /\ (i + 1) + (k - 1) - 1 = i + k - 1
            BY <5>2
          <6> QED
            BY <3>5, <3>6, <5>2, <6>1
        <5> QED
          BY <5>1, <5>2
      <4> QED
        BY <3>6, <4>1, <4>2
    <3>8. ~Occurs(Mark, q)
      <4> SUFFICES ASSUME NEW j \in 1 .. N + 1, StandsAt(Mark, j, q)
                   PROVE  FALSE
        BY <3>6 DEF Occurs
      <4>1. j + 3 <= N + 1 /\ \A k \in 0 .. 3 : q[j + k] = "@"
        BY <3>6, MarkAt
      <4>2. CASE j = 1
        <5>1. i + 3 <= L
          BY <3>5, <4>1, <4>2
        <5>2. ASSUME NEW k \in 0 .. 3
              PROVE  t[i + k] = "@"
          <6>1. 1 + k \in 1 .. N + 1 /\ i + (1 + k) - 1 = i + k
            BY <4>1, <4>2
          <6>2. q[1 + k] = t[i + (1 + k) - 1]
            BY <3>6, <3>7, <6>1
          <6> QED
            BY <4>1, <4>2, <6>1, <6>2
        <5>3. StandsAt(Mark, i, t)
          <6>1. i \in Nat
            OBVIOUS
          <6> QED
            BY <1>1, <5>1, <5>2, <6>1, MarkAt
        <5> QED
          BY <2>5, <5>3 DEF st
      <4>3. CASE j # 1
        <5>1. j - 1 \in 1 .. N /\ (j - 1) + 3 <= N /\ j - 1 \in Nat
          BY <4>1, <4>3
        <5>2. ASSUME NEW k \in 0 .. 3
              PROVE  p[(j - 1) + k] = "@"
          <6>1. j + k \in 1 .. N + 1 /\ j + k # 1 /\ (j + k) - 1 = (j - 1) + k
            BY <4>1, <4>3
          <6> QED
            BY <3>6, <4>1, <6>1
        <5>3. StandsAt(Mark, j - 1, p)
          BY <3>4, <5>1, <5>2, MarkAt
        <5> QED
          BY <3>4, <3>5, <5>1, <5>3 DEF Occurs
      <4> QED
        BY <4>2, <4>3
    <3>9. TabLast(q)
      <4> SUFFICES ASSUME NEW k \in 1 .. N + 1, q[k] = "tab"
                   PROVE  k = N + 1
        BY <3>6 DEF TabLast
      <4>1. CASE k = 1
        <5>1. StandsAt(Mark, i + 1, t)
          BY <1>1, <3>6, <4>1 DEF TabMarked
        <5>2. i + 1 \in 1 .. L /\ i + 1 \in 1 .. L + 1 /\ ~(i + 1 > L)
          BY <1>1, <1>2, <5>1 DEF StandsAt
        <5>3. PICK v : f[i + 1] = <<<<>>>> \o v /\ v \in Seq(Text)
          <6>1. st(i + 1)
            BY <5>1 DEF st
          <6>2. f[i + 1] = Piece(f[(i + 1) + 4], st(i + 1), t[i + 1])
            BY <1>4, <5>2, <6>1
          <6>3. f[i + 1] = <<<<>>>> \o f[(i + 1) + 4]
            BY <6>1, <6>2 DEF Piece
          <6>4. (i + 1) + 4 \in 1 .. L + 1
            BY <1>5, <5>2, <6>1
          <6> QED
            BY <1>3, <6>3, <6>4 DEF Parts
        <5>4. (<<<<>>>> \o v)[1] = <<>>
          BY <5>3, TextEmpty, OneBefore
        <5>5. p = <<>>
          BY <2>2, <3>1, <3>3, <5>3, <5>4
        <5> QED
          BY <3>4, <4>1, <5>5
      <4>2. CASE k # 1
        <5>1. k - 1 \in 1 .. N /\ p[k - 1] = "tab"
          BY <3>6, <4>2
        <5>2. k - 1 = N
          BY <3>4, <3>5, <5>1 DEF TabLast
        <5> QED
          BY <5>2
      <4> QED
        BY <4>1, <4>2
    <3>10. f[i] = <<q>> \o w
      BY <3>2, <3>3 DEF q
    <3>11. PICK M \in Nat : M = Len(w) /\ M = n - 1 /\ \A k \in 1 .. M : w[k] = r[k + 1]
      <4>1. Len(Tail(r)) = n - 1 /\ \A k \in 1 .. n - 1 : Tail(r)[k] = r[k + 1]
        BY <2>3
      <4>2. n - 1 \in Nat
        BY <2>3
      <4> QED
        BY <3>3, <4>1, <4>2
    <3>12. /\ Len(<<q>> \o w) = M + 1 /\ (<<q>> \o w)[1] = q
           /\ \A k \in 1 .. M + 1 : k # 1 => (<<q>> \o w)[k] = w[k - 1]
      <4>1. \A x \in Text : \A s \in Seq(Text) :
              /\ Len(<<x>> \o s) = Len(s) + 1 /\ (<<x>> \o s)[1] = x
              /\ \A k \in 1 .. Len(s) + 1 : k # 1 => (<<x>> \o s)[k] = s[k - 1]
        BY OneBefore
      <4>2. q \in Text /\ Len(w) = M
        BY <3>6, <3>11
      <4>3. /\ Len(<<q>> \o w) = Len(w) + 1 /\ (<<q>> \o w)[1] = q
            /\ \A k \in 1 .. Len(w) + 1 : k # 1 => (<<q>> \o w)[k] = w[k - 1]
        BY <4>1, <4>2, Zenon
      <4> QED
        BY <4>2, <4>3, Zenon
    <3>13. Good(q)
      BY <3>8, <3>9
    <3> HIDE DEF Good, Ahead
    <3>14. ASSUME NEW k \in 1 .. M + 1
           PROVE  Good(f[i][k])
      <4>1. CASE k = 1
        BY <3>10, <3>12, <3>13, <4>1
      <4>2. CASE k # 1
        <5>1. k - 1 \in 1 .. M /\ (k - 1) + 1 \in 1 .. n
          BY <3>11, <4>2
        <5>2. f[i][k] = r[(k - 1) + 1]
          BY <3>10, <3>11, <3>12, <4>2, <5>1
        <5> QED
          BY <2>2, <2>3, <5>1, <5>2
      <4> QED
        BY <4>1, <4>2
    <3>15. f[i][1] = q /\ Len(f[i]) = M + 1
      BY <3>10, <3>12
    <3> QED
      BY <2>1, <3>7, <3>14, <3>15
  <2> QED
    BY <2>4, <2>5
<1>10. \A i \in 1 .. L + 1 : i \in P
  <2> HIDE DEF P, next
  <2> QED
    BY <1>1, <1>6, <1>8, <1>9, Downwards
<1>11. 1 \in 1 .. L + 1
  BY <1>1
<1> QED
  BY <1>3, <1>10, <1>11

LEMMA JoinIs ==
  ASSUME NEW a \in Text, NEW b \in Text
  PROVE  /\ a \o b \in Text /\ Len(a) \in Nat /\ Len(b) \in Nat /\ Len(a \o b) = Len(a) + Len(b)
         /\ \A k \in 1 .. Len(a) : (a \o b)[k] = a[k]
         /\ \A k \in 1 .. Len(b) : (a \o b)[Len(a) + k] = b[k]
<1>1. PICK m \in Nat, n \in Nat : /\ m = Len(a) /\ DOMAIN a = 1 .. m /\ a \in Seq(Symbol)
                                  /\ n = Len(b) /\ DOMAIN b = 1 .. n /\ b \in Seq(Symbol)
  BY DEF Text
<1>2. /\ Len(a \o b) = m + n /\ \A k \in 1 .. m + n : (a \o b)[k] = IF k <= m THEN a[k] ELSE b[k - m]
  BY <1>1
<1>3. \A k \in 1 .. m : (a \o b)[k] = a[k]
  BY <1>2
<1>4. ASSUME NEW k \in 1 .. n
      PROVE  (a \o b)[m + k] = b[k]
  <2>1. m + k \in 1 .. m + n /\ ~(m + k <= m) /\ (m + k) - m = k
    OBVIOUS
  <2> QED
    BY <1>2, <2>1
<1> QED
  BY <1>1, <1>2, <1>3, <1>4, JoinedTexts

LEMMA TabMarkedJoin ==
  ASSUME NEW a \in Text, NEW b \in Text, TabMarked(a), TabMarked(b)
  PROVE  TabMarked(a \o b)
<1>1. PICK m \in Nat, n \in Nat, t \in Text : m = Len(a) /\ n = Len(b) /\ t = a \o b
  BY JoinIs
<1>2. /\ Len(t) = m + n /\ \A k \in 1 .. m : t[k] = a[k]
      /\ \A k \in 1 .. n : t[m + k] = b[k]
  BY <1>1, JoinIs
<1>3. SUFFICES ASSUME NEW i \in 1 .. m + n, t[i] = "tab"
               PROVE  StandsAt(Mark, i + 1, t)
  BY <1>1, <1>2 DEF TabMarked
<1>4. CASE i <= m
  <2>1. i \in 1 .. m /\ a[i] = "tab" /\ i + 1 \in Nat
    BY <1>2, <1>3, <1>4
  <2>2. StandsAt(Mark, i + 1, a)
    BY <1>1, <2>1 DEF TabMarked
  <2>3. (i + 1) + 3 <= m /\ \A k \in 0 .. 3 : a[(i + 1) + k] = "@"
    BY <1>1, <2>1, <2>2, MarkAt
  <2>4. ASSUME NEW k \in 0 .. 3
        PROVE  t[(i + 1) + k] = "@"
    <3>1. (i + 1) + k \in 1 .. m
      BY <2>3
    <3> QED
      BY <1>2, <2>3, <3>1
  <2>5. (i + 1) + 3 <= m + n
    BY <2>3
  <2> QED
    BY <1>2, <2>1, <2>4, <2>5, MarkAt
<1>5. CASE ~(i <= m)
  <2>1. PICK j \in 1 .. n : i = m + j
    <3>1. i - m \in 1 .. n /\ i = m + (i - m)
      BY <1>5
    <3> QED
      BY <3>1
  <2>2. b[j] = "tab" /\ j + 1 \in Nat /\ i + 1 \in Nat
    BY <1>2, <1>3, <2>1
  <2>3. StandsAt(Mark, j + 1, b)
    BY <1>1, <2>2 DEF TabMarked
  <2>4. (j + 1) + 3 <= n /\ \A k \in 0 .. 3 : b[(j + 1) + k] = "@"
    BY <1>1, <2>2, <2>3, MarkAt
  <2>5. ASSUME NEW k \in 0 .. 3
        PROVE  t[(i + 1) + k] = "@"
    <3>1. (j + 1) + k \in 1 .. n /\ m + ((j + 1) + k) = (i + 1) + k
      BY <2>1, <2>4
    <3>2. t[m + ((j + 1) + k)] = b[(j + 1) + k]
      BY <1>2, <3>1
    <3> QED
      BY <2>4, <3>1, <3>2
  <2>6. (i + 1) + 3 <= m + n
    BY <2>1, <2>4
  <2> QED
    BY <1>2, <2>2, <2>5, <2>6, MarkAt
<1> QED
  BY <1>4, <1>5

\* A rule that replaces no mark by less, and leaves no tab unmarked.
LEMMA ReplacedTabs ==
  ASSUME NEW t \in Text, NEW rule, IsRule(rule),
         \A i \in 1 .. Len(t) :
           MatchAt(rule, i, t) = 0 /\ t[i] = "tab" => StandsAt(Mark, i + 1, t),
         \A i \in 1 .. Len(t) : MatchAt(rule, i, t) # 0 =>
           LET new == Replacement(rule, SubSeq(t, i, i + MatchAt(rule, i, t) - 1))
           IN TabMarked(new) /\ (t[i] = "@" => StandsAt(Mark, 1, new))
  PROVE  TabMarked(Replaced(rule, t))
<1>1. PICK L \in Nat : L = Len(t)
  BY DEF Text
<1> DEFINE n(i) == MatchAt(rule, i, t)
           match(i) == SubSeq(t, i, i + n(i) - 1)
           next == [i \in 1 .. L |-> IF n(i) = 0 THEN i + 1 ELSE i + n(i)]
           First(k, x) == k <= Len(x) /\ \A j \in 1 .. k : x[j] = "@"
           Ats4(k, i) == i + k <= L + 1 /\ \A j \in 0 .. k - 1 : t[i + j] = "@"
<1>2. PICK f : /\ ReplacesFrom(f, rule, t) /\ Replaced(rule, t) = f[1]
               /\ \A i \in 1 .. L + 1 : f[i] \in Text
  BY <1>1, ReplacedScans
<1>3. \A i \in 1 .. L : n(i) \in Nat /\ i + n(i) <= L + 1
  BY <1>1, MatchInText
<1>4. \A i \in 1 .. L + 1 : f[i] = IF i > L THEN <<>>
                                   ELSE IF n(i) = 0 THEN <<t[i]>> \o f[i + 1]
                                   ELSE Replacement(rule, match(i)) \o f[i + n(i)]
  BY <1>1, <1>2 DEF ReplacesFrom
<1>5. \A i \in 1 .. L : n(i) # 0 =>
        /\ TabMarked(Replacement(rule, match(i)))
        /\ t[i] = "@" => StandsAt(Mark, 1, Replacement(rule, match(i)))
  BY <1>1
<1>6. \A i \in 1 .. L : n(i) = 0 /\ t[i] = "tab" => StandsAt(Mark, i + 1, t)
  BY <1>1
<1>7. \A i \in 1 .. L : match(i) \in Text /\ Replacement(rule, match(i)) \in Text
  <2> TAKE i \in 1 .. L
  <2>1. match(i) \in Text
    BY <1>1, <1>3, PartOfText
  <2> QED
    BY <2>1, ReplacementIsText
<1> HIDE DEF n, match
<1>8. Jumps(next, L)
  BY <1>3 DEF Jumps
<1> DEFINE P == {i \in 1 .. L + 1 :
                   TabMarked(f[i]) /\ \A k \in 0 .. 4 : Ats4(k, i) => First(k, f[i])}
<1>9. L + 1 \in P
  <2>1. L + 1 \in 1 .. L + 1 /\ L + 1 > L
    BY <1>1
  <2>2. f[L + 1] = <<>>
    BY <1>4, <2>1, Zenon
  <2>3. TabMarked(<<>>)
    BY DEF TabMarked
  <2>4. ASSUME NEW k \in 0 .. 4, Ats4(k, L + 1)
        PROVE  First(k, <<>>)
    <3>1. k = 0
      BY <2>4
    <3> QED
      BY <3>1
  <2> HIDE DEF Ats4, First
  <2> QED
    BY <2>1, <2>2, <2>3, <2>4
<1>10. ASSUME NEW i \in 1 .. L, next[i] \in P
       PROVE  i \in P
  <2>0. t[i] \in Symbol
    BY <1>1 DEF Text
  <2>1. i \in 1 .. L + 1 /\ ~(i > L)
    OBVIOUS
  <2>2. CASE n(i) = 0
    <3>1. next[i] = i + 1 /\ i + 1 \in 1 .. L + 1
      BY <2>2
    <3>2. PICK x \in Text : x = f[i + 1] /\ TabMarked(x) /\ \A k \in 0 .. 4 : Ats4(k, i + 1) => First(k, x)
      <4>1. f[i + 1] \in Text
        BY <1>2, <3>1
      <4>2. i + 1 \in P
        BY <1>10, <3>1
      <4> HIDE DEF Ats4, First, next
      <4> QED
        BY <4>1, <4>2
    <3>3. f[i] = <<t[i]>> \o x
      BY <1>4, <2>1, <2>2, <3>2, Zenon
    <3>4. PICK N \in Nat : N = Len(x) /\ x \in Seq(Symbol)
      BY DEF Text
    <3> DEFINE y == <<t[i]>> \o x
    <3>5. /\ y \in Text /\ Len(y) = N + 1 /\ y[1] = t[i]
          /\ \A k \in 1 .. N + 1 : k # 1 => y[k] = x[k - 1]
      BY <2>0, <3>4, OneBefore DEF Text
    <3> HIDE DEF y
    <3>6. TabMarked(y)
      <4> SUFFICES ASSUME NEW j \in 1 .. N + 1, y[j] = "tab"
                   PROVE  StandsAt(Mark, j + 1, y)
        BY <3>5 DEF TabMarked
      <4>1. CASE j = 1
        <5>1. StandsAt(Mark, i + 1, t)
          BY <1>6, <2>2, <3>5, <4>1
        <5>2. (i + 1) + 3 <= L /\ \A k \in 0 .. 3 : t[(i + 1) + k] = "@"
          <6>1. i + 1 \in Nat
            OBVIOUS
          <6> QED
            BY <1>1, <5>1, <6>1, MarkAt
        <5>3. Ats4(4, i + 1)
          <6>1. (i + 1) + 4 <= L + 1
            BY <5>2
          <6>2. 4 - 1 = 3
            OBVIOUS
          <6> QED
            BY <5>2, <6>1, <6>2
        <5>4. 4 <= N /\ \A k \in 1 .. 4 : x[k] = "@"
          BY <3>2, <3>4, <5>3
        <5>5. ASSUME NEW k \in 0 .. 3
              PROVE  y[(j + 1) + k] = "@"
          <6>1. (1 + 1) + k \in 1 .. N + 1 /\ (1 + 1) + k # 1 /\ ((1 + 1) + k) - 1 \in 1 .. 4
            BY <5>4
          <6> QED
            BY <3>5, <4>1, <5>4, <6>1
        <5>6. (j + 1) + 3 <= N + 1 /\ j + 1 \in Nat
          BY <4>1, <5>4
        <5> QED
          BY <3>5, <5>5, <5>6, MarkAt
      <4>2. CASE j # 1
        <5>1. j - 1 \in 1 .. N /\ x[j - 1] = "tab" /\ (j - 1) + 1 = j /\ j \in Nat /\ j + 1 \in Nat
          BY <3>5, <4>2
        <5>2. StandsAt(Mark, j, x)
          BY <3>2, <3>4, <5>1 DEF TabMarked
        <5>3. j + 3 <= N /\ \A k \in 0 .. 3 : x[j + k] = "@"
          BY <3>4, <5>1, <5>2, MarkAt
        <5>4. ASSUME NEW k \in 0 .. 3
              PROVE  y[(j + 1) + k] = "@"
          <6>1. (j + 1) + k \in 1 .. N + 1 /\ (j + 1) + k # 1 /\ ((j + 1) + k) - 1 = j + k
            BY <5>3
          <6> QED
            BY <3>5, <5>3, <6>1
        <5>5. (j + 1) + 3 <= N + 1
          BY <5>3
        <5> QED
          BY <3>5, <5>1, <5>4, <5>5, MarkAt
      <4> QED
        BY <4>1, <4>2
    <3>7. ASSUME NEW k \in 0 .. 4, Ats4(k, i)
          PROVE  First(k, y)
      <4>1. CASE k = 0
        BY <3>5, <4>1
      <4>2. CASE k # 0
        <5>1. t[i] = "@"
          <6>1. 0 \in 0 .. k - 1 /\ i + 0 = i
            BY <4>2
          <6> QED
            BY <3>7, <6>1
        <5>2. Ats4(k - 1, i + 1)
          <6>1. (i + 1) + (k - 1) <= L + 1
            BY <3>7
          <6>2. ASSUME NEW j \in 0 .. (k - 1) - 1
                PROVE  t[(i + 1) + j] = "@"
            <7>1. j + 1 \in 0 .. k - 1 /\ i + (j + 1) = (i + 1) + j
              OBVIOUS
            <7> QED
              BY <3>7, <7>1
          <6> QED
            BY <6>1, <6>2
        <5>3. k - 1 <= N /\ \A j \in 1 .. k - 1 : x[j] = "@"
          <6>1. k - 1 \in 0 .. 4
            BY <4>2
          <6>2. First(k - 1, x)
            BY <3>2, <5>2, <6>1
          <6> QED
            BY <3>4, <6>2
        <5>4. ASSUME NEW j \in 1 .. k
              PROVE  y[j] = "@"
          <6>1. CASE j = 1
            BY <3>5, <5>1, <6>1
          <6>2. CASE j # 1
            <7>1. j - 1 \in 1 .. k - 1 /\ j \in 1 .. N + 1
              BY <5>3, <6>2
            <7> QED
              BY <3>5, <5>3, <6>2, <7>1
          <6> QED
            BY <6>1, <6>2
        <5>5. k <= N + 1
          BY <5>3
        <5> QED
          BY <3>5, <5>4, <5>5
      <4> QED
        BY <4>1, <4>2
    <3> HIDE DEF Ats4, First
    <3> QED
      BY <2>1, <3>3, <3>6, <3>7 DEF y
  <2>3. CASE n(i) # 0
    <3>1. next[i] = i + n(i) /\ i + n(i) \in 1 .. L + 1
      BY <1>3, <2>3
    <3>2. PICK x \in Text : x = f[i + n(i)] /\ TabMarked(x)
      <4>1. f[i + n(i)] \in Text
        BY <1>2, <3>1
      <4>2. i + n(i) \in P
        BY <1>10, <3>1
      <4> HIDE DEF Ats4, First, next
      <4> QED
        BY <4>1, <4>2
    <3>3. PICK a \in Text : /\ a = Replacement(rule, match(i)) /\ TabMarked(a)
                            /\ t[i] = "@" => StandsAt(Mark, 1, a)
      BY <1>5, <1>7, <2>3
    <3>4. f[i] = a \o x
      BY <1>4, <2>1, <2>3, <3>2, <3>3, Zenon
    <3>5. TabMarked(a \o x)
      BY <3>2, <3>3, TabMarkedJoin
    <3>6. ASSUME NEW k \in 0 .. 4, Ats4(k, i)
          PROVE  First(k, a \o x)
      <4>0. PICK y \in Text : y = a \o x
        BY JoinedTexts
      <4>1. CASE k = 0
        <5>1. Len(y) \in Nat
          BY DEF Text
        <5> QED
          BY <4>0, <4>1, <5>1
      <4>2. CASE k # 0
        <5>1. t[i] = "@"
          <6>1. 0 \in 0 .. k - 1 /\ i + 0 = i
            BY <4>2
          <6> QED
            BY <3>6, <6>1
        <5>2. 1 + 3 <= Len(a) /\ \A j \in 0 .. 3 : a[1 + j] = "@"
          <6>1. 1 \in Nat
            OBVIOUS
          <6> QED
            BY <3>3, <5>1, <6>1, MarkAt
        <5>3. /\ Len(a) \in Nat /\ Len(x) \in Nat /\ Len(y) = Len(a) + Len(x)
              /\ \A j \in 1 .. Len(a) : y[j] = a[j]
          BY <4>0, JoinIs
        <5>4. k <= Len(y)
          BY <5>2, <5>3
        <5>5. ASSUME NEW j \in 1 .. k
              PROVE  y[j] = "@"
          <6>1. j - 1 \in 0 .. 3 /\ 1 + (j - 1) = j /\ j \in 1 .. Len(a)
            BY <5>2, <5>3
          <6>2. a[1 + (j - 1)] = "@"
            BY <5>2, <6>1
          <6> QED
            BY <5>3, <6>1, <6>2
        <5> QED
          BY <4>0, <5>4, <5>5
      <4> QED
        BY <4>1, <4>2
    <3> HIDE DEF Ats4, First
    <3> QED
      BY <2>1, <3>4, <3>5, <3>6
  <2> QED
    BY <2>2, <2>3
<1>11. \A i \in 1 .. L + 1 : i \in P
  <2> HIDE DEF P, next
  <2> QED
    BY <1>1, <1>8, <1>9, <1>10, Downwards
<1>12. 1 \in 1 .. L + 1
  BY <1>1
<1> HIDE DEF Ats4, First
<1> QED
  BY <1>2, <1>11, <1>12

LEMMA ReplacedSymbols ==
  ASSUME NEW S \in SUBSET Symbol, NEW t \in Text, NEW rule, IsRule(rule),
         \A i \in 1 .. Len(t) : MatchAt(rule, i, t) = 0 => t[i] \in S,
         \A i \in 1 .. Len(t) : MatchAt(rule, i, t) # 0 =>
           Replacement(rule, SubSeq(t, i, i + MatchAt(rule, i, t) - 1)) \in Seq(S)
  PROVE  Replaced(rule, t) \in Seq(S)
<1>1. PICK L \in Nat : L = Len(t)
  BY DEF Text
<1> DEFINE n(i) == MatchAt(rule, i, t)
           match(i) == SubSeq(t, i, i + n(i) - 1)
           next == [i \in 1 .. L |-> IF n(i) = 0 THEN i + 1 ELSE i + n(i)]
           Q == Seq(S)
<1>2. PICK f : ReplacesFrom(f, rule, t) /\ Replaced(rule, t) = f[1]
  BY <1>1, ReplacedScans
<1>3. \A i \in 1 .. L : n(i) \in Nat /\ i + n(i) <= L + 1
  BY <1>1, MatchInText
<1>4. \A i \in 1 .. L + 1 : f[i] = IF i > L THEN <<>>
                                   ELSE IF n(i) = 0 THEN <<t[i]>> \o f[i + 1]
                                   ELSE Replacement(rule, match(i)) \o f[i + n(i)]
  BY <1>1, <1>2 DEF ReplacesFrom
<1>5. \A i \in 1 .. L : n(i) = 0 => t[i] \in S
  BY <1>1
<1>6. \A i \in 1 .. L : n(i) # 0 => Replacement(rule, match(i)) \in Q
  BY <1>1
<1> HIDE DEF n, match
<1>7. Jumps(next, L)
  BY <1>3 DEF Jumps
<1> DEFINE P == {i \in 1 .. L + 1 : f[i] \in Q}
<1>8. L + 1 \in P
  <2>1. L + 1 \in 1 .. L + 1 /\ L + 1 > L /\ <<>> \in Q
    OBVIOUS
  <2> HIDE DEF Q
  <2>2. f[L + 1] = <<>>
    BY <1>4, <2>1, Zenon
  <2> QED
    BY <2>1, <2>2
<1>9. ASSUME NEW i \in 1 .. L, next[i] \in P
      PROVE  i \in P
  <2>1. i \in 1 .. L + 1 /\ ~(i > L)
    OBVIOUS
  <2>2. CASE n(i) = 0
    <3>1. next[i] = i + 1
      BY <2>2
    <3>2. f[i + 1] \in Seq(S) /\ t[i] \in S
      BY <1>5, <1>9, <2>2, <3>1
    <3>3. f[i] = <<t[i]>> \o f[i + 1]
      BY <1>4, <2>1, <2>2, Zenon
    <3>4. <<t[i]>> \o f[i + 1] \in Seq(S)
      BY <3>2
    <3> QED
      BY <2>1, <3>3, <3>4
  <2>3. CASE n(i) # 0
    <3>1. next[i] = i + n(i)
      BY <2>3
    <3>2. f[i + n(i)] \in Seq(S) /\ Replacement(rule, match(i)) \in Seq(S)
      BY <1>6, <1>9, <2>3, <3>1
    <3>3. f[i] = Replacement(rule, match(i)) \o f[i + n(i)]
      BY <1>4, <2>1, <2>3, Zenon
    <3>4. Replacement(rule, match(i)) \o f[i + n(i)] \in Seq(S)
      <4>1. \A a, b \in Seq(S) : a \o b \in Seq(S)
        OBVIOUS
      <4> QED
        BY <3>2, <4>1, Zenon
    <3> QED
      BY <2>1, <3>3, <3>4
  <2> QED
    BY <2>2, <2>3
<1>10. \A i \in 1 .. L + 1 : i \in P
  <2> HIDE DEF P, next
  <2> QED
    BY <1>7, <1>8, <1>9, Downwards
<1>11. 1 \in 1 .. L + 1
  BY <1>1
<1> QED
  BY <1>2, <1>10, <1>11

\* The symbols the rules write, with one exception.
Crless == Symbol \ {"cr"}
Plain == Symbol \ {"cr", "tab"}

KeepsCrless(rule) == \A t \in Seq(Crless) : Replaced(rule, t) \in Seq(Crless)
KeepsTabs(rule) == \A t \in Text : TabMarked(t) => TabMarked(Replaced(rule, t))

LEMMA PlainAre ==
  /\ "sp" \in Plain /\ "nl" \in Plain
  /\ "." \in Plain /\ ";" \in Plain /\ ":" \in Plain /\ "?" \in Plain
  /\ "!" \in Plain /\ "-" \in Plain /\ "/" \in Plain /\ "{" \in Plain
  /\ "}" \in Plain /\ "@" \in Plain /\ "<" \in Plain /\ ">" \in Plain
  /\ "|" \in Plain /\ "table" \in Plain /\ "tr" \in Plain /\ "ref" \in Plain
BY DEF Plain, Symbol, White, Punctuation, Words

LEMMA FewPlain ==
  \A p, q, r, s \in Plain :
    /\ <<p>> \in Seq(Plain) /\ <<p, q>> \in Seq(Plain) /\ <<p, q, r>> \in Seq(Plain)
    /\ <<p, q, r, s>> \in Seq(Plain)
OBVIOUS

LEMMA JoinedPlain == \A s, t \in Seq(Plain) : s \o t \in Seq(Plain)
OBVIOUS

LEMMA MarksPlain == Mark \in Seq(Plain) /\ Blank \in Seq(Plain)
BY PlainAre, FewPlain, Zenon DEF Mark, Blank

LEMMA PlainIsText ==
  /\ Crless \in SUBSET Symbol
  /\ \A t \in Seq(Plain) : t \in Seq(Crless) /\ t \in Text /\ TabMarked(t)
<1>1. Crless \in SUBSET Symbol /\ Plain \subseteq Crless /\ Plain \subseteq Symbol
  BY DEF Crless, Plain
<1>2. ASSUME NEW t \in Seq(Plain)
      PROVE  t \in Seq(Crless) /\ t \in Text /\ TabMarked(t)
  <2>1. t \in Seq(Crless) /\ t \in Text
    BY <1>1 DEF Text
  <2>2. \A i \in 1 .. Len(t) : t[i] \in Plain
    OBVIOUS
  <2>3. \A i \in 1 .. Len(t) : t[i] # "tab"
    BY <2>2 DEF Plain
  <2> QED
    BY <2>1, <2>3 DEF TabMarked
<1> QED
  BY <1>1, <1>2

LEMMA LiteralMatches ==
  ASSUME NEW from \in Text, NEW to \in Text, NEW t \in Text, NEW i \in 1 .. Len(t)
  PROVE  /\ IsRule(Literal(from, to))
         /\ \A match : Replacement(Literal(from, to), match) = to
         /\ MatchAt(Literal(from, to), i, t) = IF StandsAt(from, i, t) THEN Len(from) ELSE 0
         /\ MatchAt(Literal(from, to), i, t) # 0 => from # <<>> /\ t[i] = from[1]
<1>1. Literal(from, to).kind = "literal" /\ Literal(from, to).from = from /\ Literal(from, to).to = to
  BY DEF Literal
<1>2. MatchAt(Literal(from, to), i, t) = IF StandsAt(from, i, t) THEN Len(from) ELSE 0
  BY <1>1 DEF MatchAt
<1>3. \A match : Replacement(Literal(from, to), match) = to
  BY <1>1 DEF Replacement
<1>4. ASSUME MatchAt(Literal(from, to), i, t) # 0
      PROVE  from # <<>> /\ t[i] = from[1]
  <2>1. StandsAt(from, i, t) /\ Len(from) # 0
    BY <1>2, <1>4, Zenon
  <2>2. Len(from) \in Nat /\ DOMAIN from = 1 .. Len(from) /\ Len(<<>>) = 0
    BY DEF Text
  <2>3. 1 \in DOMAIN from /\ i + 1 - 1 = i
    BY <2>1, <2>2
  <2>4. t[i + 1 - 1] = from[1]
    BY <2>1, <2>3 DEF StandsAt
  <2> QED
    BY <2>1, <2>2, <2>3, <2>4
<1> QED
  BY <1>2, <1>3, <1>4, LiteralIsRule

LEMMA LiteralCrless ==
  ASSUME NEW from \in Text, NEW to \in Seq(Crless)
  PROVE  KeepsCrless(Literal(from, to))
<1>0. to \in Text /\ Crless \in SUBSET Symbol
  BY PlainIsText DEF Text
<1> SUFFICES ASSUME NEW t \in Seq(Crless)
             PROVE  Replaced(Literal(from, to), t) \in Seq(Crless)
  BY DEF KeepsCrless
<1>1. t \in Text
  BY <1>0 DEF Text
<1> DEFINE rule == Literal(from, to)
<1>2. IsRule(rule)
  BY <1>0, LiteralIsRule
<1>3. \A i \in 1 .. Len(t) : MatchAt(rule, i, t) = 0 => t[i] \in Crless
  OBVIOUS
<1>4. \A match : Replacement(rule, match) = to
  BY DEF Literal, Replacement
<1> HIDE DEF rule
<1>5. \A i \in 1 .. Len(t) : MatchAt(rule, i, t) # 0 =>
        Replacement(rule, SubSeq(t, i, i + MatchAt(rule, i, t) - 1)) \in Seq(Crless)
  BY <1>4
<1>6. Replaced(rule, t) \in Seq(Crless)
  BY <1>0, <1>1, <1>2, <1>3, <1>5, ReplacedSymbols
<1> QED
  BY <1>6 DEF rule

\* Once this rule has been applied no carriage return is left.
LEMMA CrReplaced ==
  \A t \in Text : Replaced(Literal(<<"cr">>, <<"nl">>), t) \in Seq(Crless)
<1> SUFFICES ASSUME NEW t \in Text
             PROVE  Replaced(Literal(<<"cr">>, <<"nl">>), t) \in Seq(Crless)
  OBVIOUS
<1> DEFINE from == <<"cr">>
           to == <<"nl">>
           rule == Literal(from, to)
<1>1. from \in Text /\ to \in Text /\ to \in Seq(Crless) /\ Crless \in SUBSET Symbol
  <2>1. from \in Text
    BY SymbolsAre, FewSymbols, Zenon
  <2>2. to \in Seq(Plain)
    BY PlainAre, FewPlain, Zenon
  <2> HIDE DEF from, to
  <2> QED
    BY <2>1, <2>2, PlainIsText
<1>2. from[1] = "cr" /\ Len(from) = 1 /\ DOMAIN from = 1 .. 1
  OBVIOUS
<1> HIDE DEF from, to
<1>3. IsRule(rule) /\ \A match : Replacement(rule, match) = to
  <2>1. rule.kind = "literal" /\ rule.to = to
    BY DEF Literal
  <2> QED
    BY <1>1, <2>1, LiteralIsRule DEF Replacement
<1>4. ASSUME NEW i \in 1 .. Len(t), MatchAt(rule, i, t) = 0
      PROVE  t[i] \in Crless
  <2>1. MatchAt(rule, i, t) = IF StandsAt(from, i, t) THEN Len(from) ELSE 0
    BY <1>1, LiteralMatches
  <2>2. ~StandsAt(from, i, t)
    BY <1>2, <1>4, <2>1
  <2>3. Len(t) \in Nat /\ t[i] \in Symbol
    BY DEF Text
  <2>4. i + 1 - 1 = i /\ i + 1 - 1 <= Len(t)
    BY <2>3
  <2>5. \A k \in 1 .. 1 : k = 1
    OBVIOUS
  <2>6. t[i] # "cr"
    BY <1>2, <2>2, <2>4, <2>5 DEF StandsAt
  <2> QED
    BY <2>3, <2>6 DEF Crless
<1> HIDE DEF rule
<1>5. \A i \in 1 .. Len(t) : MatchAt(rule, i, t) # 0 =>
        Replacement(rule, SubSeq(t, i, i + MatchAt(rule, i, t) - 1)) \in Seq(Crless)
  BY <1>1, <1>3
<1>6. Replaced(rule, t) \in Seq(Crless)
  BY <1>1, <1>3, <1>4, <1>5, ReplacedSymbols
<1> QED
  BY <1>6 DEF rule, from, to

\* What is put in for a match of RegexDot or RegexUrl.
LEMMA DotCrless == KeepsCrless(RegexDot)
<1> DEFINE rule == RegexDot
<1>1. IsRule(rule) /\ \A match : Replacement(rule, match) = <<".">> \o Mark
  BY DEF IsRule, RegexDot, Replacement
<1> HIDE DEF rule
<1>2. <<".">> \o Mark \in Seq(Crless) /\ Crless \in SUBSET Symbol
  <2>1. <<".">> \in Seq(Plain)
    BY PlainAre, FewPlain, ZenonT(40)
  <2> QED
    BY <2>1, MarksPlain, JoinedPlain, PlainIsText, Zenon
<1> SUFFICES ASSUME NEW t \in Seq(Crless)
             PROVE  Replaced(rule, t) \in Seq(Crless)
  BY DEF KeepsCrless, rule
<1>3. t \in Text
  BY <1>2 DEF Text
<1>4. \A i \in 1 .. Len(t) : MatchAt(rule, i, t) = 0 => t[i] \in Crless
  OBVIOUS
<1>5. \A i \in 1 .. Len(t) : MatchAt(rule, i, t) # 0 =>
        Replacement(rule, SubSeq(t, i, i + MatchAt(rule, i, t) - 1)) \in Seq(Crless)
  BY <1>1, <1>2, Zenon
<1> QED
  BY <1>1, <1>2, <1>3, <1>4, <1>5, ReplacedSymbols

LEMMA UrlCrless == KeepsCrless(RegexUrl)
<1> DEFINE rule == RegexUrl
<1>1. IsRule(rule) /\ \A match : Replacement(rule, match) = (Mark \o match) \o Mark
  BY DEF IsRule, RegexUrl, Replacement
<1> HIDE DEF rule
<1>2. Mark \in Seq(Crless) /\ Crless \in SUBSET Symbol
  BY MarksPlain, PlainIsText
<1> SUFFICES ASSUME NEW t \in Seq(Crless)
             PROVE  Replaced(rule, t) \in Seq(Crless)
  BY DEF KeepsCrless, rule
<1>3. t \in Text
  BY <1>2 DEF Text
<1>4. \A i \in 1 .. Len(t) : MatchAt(rule, i, t) = 0 => t[i] \in Crless
  OBVIOUS
<1>5. ASSUME NEW i \in 1 .. Len(t)
      PROVE  Replacement(rule, SubSeq(t, i, i + MatchAt(rule, i, t) - 1)) \in Seq(Crless)
  <2>1. PICK m \in Nat : m = MatchAt(rule, i, t) /\ i + m <= Len(t) + 1
    BY <1>1, <1>3, MatchInText
  <2>2. PICK e \in Int : e = i + m - 1 /\ e <= Len(t)
    <3>1. Len(t) \in Nat
      OBVIOUS
    <3> QED
      BY <2>1, <3>1
  <2>3. \A k \in i .. e : t[k] \in Crless
    BY <2>2
  <2>4. SubSeq(t, i, e) \in Seq(Crless)
    <3>1. i \in Int
      OBVIOUS
    <3> QED
      BY <2>3, <3>1, SubSeqProperties
  <2>5. (Mark \o SubSeq(t, i, e)) \o Mark \in Seq(Crless)
    BY <1>2, <2>4
  <2> QED
    BY <1>1, <2>1, <2>2, <2>5, Zenon
<1>6. \A i \in 1 .. Len(t) : MatchAt(rule, i, t) # 0 =>
        Replacement(rule, SubSeq(t, i, i + MatchAt(rule, i, t) - 1)) \in Seq(Crless)
  BY <1>5, Zenon
<1> QED
  BY <1>1, <1>2, <1>3, <1>4, <1>6, ReplacedSymbols

LEMMA LiteralTabs ==
  ASSUME NEW from \in Text, NEW to \in Text, TabMarked(to),
         \/ from # <<>> /\ from[1] # "@"
         \/ StandsAt(Mark, 1, to)
  PROVE  KeepsTabs(Literal(from, to))
<1> DEFINE rule == Literal(from, to)
<1>1. IsRule(rule) /\ \A match : Replacement(rule, match) = to
  <2>1. rule.kind = "literal" /\ rule.to = to
    BY DEF Literal
  <2> QED
    BY <2>1, LiteralIsRule DEF Replacement
<1> SUFFICES ASSUME NEW t \in Text, TabMarked(t)
             PROVE  TabMarked(Replaced(rule, t))
  BY DEF KeepsTabs
<1>2. \A i \in 1 .. Len(t) : MatchAt(rule, i, t) # 0 => from # <<>> /\ t[i] = from[1]
  BY LiteralMatches
<1> HIDE DEF rule
<1>3. \A i \in 1 .. Len(t) : MatchAt(rule, i, t) = 0 /\ t[i] = "tab" => StandsAt(Mark, i + 1, t)
  BY DEF TabMarked
<1>4. \A i \in 1 .. Len(t) : MatchAt(rule, i, t) # 0 =>
        LET new == Replacement(rule, SubSeq(t, i, i + MatchAt(rule, i, t) - 1))
        IN TabMarked(new) /\ (t[i] = "@" => StandsAt(Mark, 1, new))
  BY <1>1, <1>2
<1> QED
  BY <1>1, <1>3, <1>4, ReplacedTabs

\* The rule for tabs, whatever it is applied to.
LEMMA TabReplaced ==
  \A t \in Text : TabMarked(Replaced(Literal(<<"tab">>, <<"tab">> \o Mark), t))
<1> SUFFICES ASSUME NEW t \in Text
             PROVE  TabMarked(Replaced(Literal(<<"tab">>, <<"tab">> \o Mark), t))
  OBVIOUS
<1> DEFINE from == <<"tab">>
           to == <<"tab">> \o Mark
           rule == Literal(from, to)
<1>1. from \in Text /\ Mark \in Text
  BY SymbolsAre, FewSymbols, Marks, Zenon
<1>2. to \in Text
  BY <1>1, JoinedTexts
<1>3. from[1] = "tab" /\ Len(from) = 1 /\ DOMAIN from = 1 .. 1
  OBVIOUS
<1>4. TabMarked(to)
  <2>1. /\ Len(to) = 1 + 4
        /\ \A k \in 1 .. 4 : to[1 + k] = Mark[k]
    <3> HIDE DEF from
    <3>1. Len(from \o Mark) = Len(from) + Len(Mark) /\ \A k \in 1 .. Len(Mark) : (from \o Mark)[Len(from) + k] = Mark[k]
      BY <1>1, JoinIs
    <3>2. Len(Mark) = 4
      BY DEF Mark
    <3> QED
      BY <1>3, <3>1, <3>2 DEF from
  <2>2. \A k \in 1 .. 4 : to[1 + k] = "@"
    <3>1. \A k \in 1 .. 4 : Mark[k] = "@"
      BY DEF Mark
    <3> QED
      BY <2>1, <3>1
  <2> HIDE DEF to
  <2>3. StandsAt(Mark, 1 + 1, to)
    <3>1. (1 + 1) + 3 <= Len(to) /\ 1 + 1 \in Nat
      BY <2>1
    <3>2. ASSUME NEW k \in 0 .. 3
          PROVE  to[(1 + 1) + k] = "@"
      <4>1. k + 1 \in 1 .. 4 /\ 1 + (k + 1) = (1 + 1) + k
        OBVIOUS
      <4> QED
        BY <2>2, <4>1
    <3> QED
      BY <1>2, <3>1, <3>2, MarkAt
  <2>4. ASSUME NEW i \in 1 .. Len(to), to[i] = "tab"
        PROVE  StandsAt(Mark, i + 1, to)
    <3>1. i \in 1 .. 5
      BY <2>1
    <3>2. i # 1 => i - 1 \in 1 .. 4 /\ 1 + (i - 1) = i
      BY <3>1
    <3>3. i = 1
      BY <2>2, <2>4, <3>2
    <3> QED
      BY <2>3, <3>3
  <2> QED
    BY <2>4 DEF TabMarked
<1> HIDE DEF from, to
<1>5. IsRule(rule) /\ \A match : Replacement(rule, match) = to
  <2>1. rule.kind = "literal" /\ rule.to = to
    BY DEF Literal
  <2> QED
    BY <1>1, <1>2, <2>1, LiteralIsRule DEF Replacement
<1>6. ASSUME NEW i \in 1 .. Len(t)
      PROVE  /\ MatchAt(rule, i, t) = 0 => t[i] # "tab"
             /\ MatchAt(rule, i, t) # 0 => t[i] = "tab"
  <2>1. /\ MatchAt(rule, i, t) = IF StandsAt(from, i, t) THEN Len(from) ELSE 0
        /\ MatchAt(rule, i, t) # 0 => t[i] = from[1]
    BY <1>1, <1>2, LiteralMatches
  <2>2. Len(t) \in Nat
    BY DEF Text
  <2>3. i + 1 - 1 = i /\ i + 1 - 1 <= Len(t)
    BY <2>2
  <2>4. \A k \in 1 .. 1 : k = 1
    OBVIOUS
  <2>5. t[i] = "tab" => StandsAt(from, i, t)
    BY <1>3, <2>3, <2>4 DEF StandsAt
  <2> QED
    BY <1>3, <2>1, <2>5
<1> HIDE DEF rule
<1>7. \A i \in 1 .. Len(t) : MatchAt(rule, i, t) = 0 /\ t[i] = "tab" => StandsAt(Mark, i + 1, t)
  BY <1>6
<1>8. \A i \in 1 .. Len(t) : MatchAt(rule, i, t) # 0 =>
        LET new == Replacement(rule, SubSeq(t, i, i + MatchAt(rule, i, t) - 1))
        IN TabMarked(new) /\ (t[i] = "@" => StandsAt(Mark, 1, new))
  BY <1>4, <1>5, <1>6
<1>9. TabMarked(Replaced(rule, t))
  BY <1>5, <1>7, <1>8, ReplacedTabs
<1> QED
  BY <1>9 DEF rule, from, to

\* An address ends behind the marks of the tabs in it.
LEMMA UrlTabs == KeepsTabs(RegexUrl)
<1> DEFINE rule == RegexUrl
<1>1. /\ IsRule(rule) /\ \A match : Replacement(rule, match) = (Mark \o match) \o Mark
      /\ \A i, t : MatchAt(rule, i, t) = IF UrlEnds(i, t) = {} THEN 0 ELSE Min(UrlEnds(i, t)) + 1 - i
  BY DEF IsRule, RegexUrl, Replacement, MatchAt
<1> HIDE DEF rule
<1> SUFFICES ASSUME NEW t \in Text, TabMarked(t)
             PROVE  TabMarked(Replaced(rule, t))
  BY DEF KeepsTabs, rule
<1>2. PICK L \in Nat : L = Len(t)
  BY DEF Text
<1>3. \A i \in 1 .. L : MatchAt(rule, i, t) = 0 /\ t[i] = "tab" => StandsAt(Mark, i + 1, t)
  BY <1>2 DEF TabMarked
<1>4. Mark \in Text /\ TabMarked(Mark)
  BY MarksPlain, PlainIsText
<1>5. ASSUME NEW i \in 1 .. L, MatchAt(rule, i, t) # 0
      PROVE  LET new == Replacement(rule, SubSeq(t, i, i + MatchAt(rule, i, t) - 1))
             IN TabMarked(new) /\ (t[i] = "@" => StandsAt(Mark, 1, new))
  <2>1. UrlEnds(i, t) # {} /\ MatchAt(rule, i, t) = Min(UrlEnds(i, t)) + 1 - i
    BY <1>1, <1>5, Zenon
  <2>2. UrlEnds(i, t) \in SUBSET Nat
    BY <1>2 DEF UrlEnds
  <2>3. PICK e \in UrlEnds(i, t) : e = Min(UrlEnds(i, t))
    BY <2>1, <2>2, MinIs
  <2>4. /\ e \in i + 4 .. L /\ t[i] = "http" /\ t[e] \in {"sp", "|", "<", ">", "nl", "cr"}
    BY <1>2, <2>3 DEF UrlEnds
  <2>5. t[e] # "@" /\ t[e] # "tab" /\ t[i] # "@"
    BY <2>4
  <2> DEFINE m == e + 1 - i
             w == SubSeq(t, i, i + m - 1)
  <2>6. m \in Nat /\ i + m - 1 = e /\ i + m <= L + 1 /\ MatchAt(rule, i, t) = m
    BY <2>1, <2>3, <2>4
  <2>7. w \in Text
    BY <1>2, <2>6, PartOfText
  <2>8. Len(w) = m /\ \A k \in 1 .. m : w[k] = t[i + k - 1]
    <3>1. \A k \in i .. e : t[k] \in Symbol
      BY <1>2, <2>4 DEF Text
    <3>2. i \in Int /\ e \in Int /\ e - i + 1 = m /\ i <= e
      BY <2>4
    <3>3. Len(SubSeq(t, i, e)) = m /\ \A k \in 1 .. m : SubSeq(t, i, e)[k] = t[i + k - 1]
      BY <3>1, <3>2, SubSeqProperties
    <3> QED
      BY <2>6, <3>3
  <2> HIDE DEF w
  <2>9. TabMarked(w)
    <3> SUFFICES ASSUME NEW j \in 1 .. m, w[j] = "tab"
                 PROVE  StandsAt(Mark, j + 1, w)
      BY <2>8 DEF TabMarked
    <3>1. PICK p \in Nat : p = i + j - 1 /\ p <= e /\ p >= i
      <4>1. i + j - 1 \in Nat /\ i + j - 1 <= e /\ i + j - 1 >= i
        BY <2>4
      <4> QED
        BY <4>1
    <3>2. t[p] = "tab"
      BY <2>8, <3>1
    <3>3. StandsAt(Mark, p + 1, t)
      <4>1. p \in 1 .. L
        BY <2>4, <3>1
      <4> QED
        BY <1>2, <3>2, <4>1 DEF TabMarked
    <3>4. (p + 1) + 3 <= L /\ \A k \in 0 .. 3 : t[(p + 1) + k] = "@"
      <4>1. p + 1 \in Nat
        OBVIOUS
      <4> QED
        BY <1>2, <3>3, <4>1, MarkAt
    <3>5. (p + 1) + 3 < e
      <4>1. e # p
        BY <2>5, <3>2
      <4>2. \A k \in 0 .. 3 : e # (p + 1) + k
        BY <2>5, <3>4
      <4>3. e # (p + 1) + 0 /\ e # (p + 1) + 1 /\ e # (p + 1) + 2 /\ e # (p + 1) + 3
        BY <4>2
      <4> QED
        BY <2>4, <3>1, <4>1, <4>3
    <3>6. (j + 1) + 3 <= m /\ j + 1 \in Nat
      BY <2>4, <3>1, <3>5
    <3>7. ASSUME NEW k \in 0 .. 3
          PROVE  w[(j + 1) + k] = "@"
      <4>1. (j + 1) + k \in 1 .. m /\ i + ((j + 1) + k) - 1 = (p + 1) + k
        BY <2>4, <3>1, <3>6
      <4>2. w[(j + 1) + k] = t[i + ((j + 1) + k) - 1]
        BY <2>8, <4>1
      <4> QED
        BY <3>4, <4>1, <4>2
    <3> QED
      BY <2>7, <2>8, <3>6, <3>7, MarkAt
  <2> HIDE DEF m
  <2>10. TabMarked((Mark \o w) \o Mark)
    <3>1. Mark \o w \in Text /\ TabMarked(Mark \o w)
      BY <1>4, <2>7, <2>9, JoinedTexts, TabMarkedJoin
    <3> QED
      BY <1>4, <3>1, TabMarkedJoin
  <2>11. Replacement(rule, SubSeq(t, i, i + MatchAt(rule, i, t) - 1)) = (Mark \o w) \o Mark
    BY <1>1, <2>6, Zenon DEF w
  <2> QED
    BY <2>5, <2>10, <2>11, Zenon
<1> QED
  BY <1>1, <1>2, <1>3, <1>5, ReplacedTabs

\* What a rule establishes and the rules behind it keep.
LEMMA RewrittenIn ==
  ASSUME NEW rules, AreRules(rules), NEW t \in Text, NEW P, NEW j \in 0 .. Len(rules),
         j = 0 => t \in P,
         j # 0 => \A x \in Text : Replaced(rules[j], x) \in P,
         \A k \in j + 1 .. Len(rules) : \A x \in Text : x \in P => Replaced(rules[k], x) \in P
  PROVE  RewrittenBy(rules, t) \in P
<1>1. PICK n \in Nat : n = Len(rules)
  BY DEF AreRules
<1>2. PICK f : /\ Rewrites(f, rules, t) /\ RewrittenBy(rules, t) = f[n]
               /\ \A k \in 0 .. n : f[k] \in Text
  BY <1>1, RewrittenChain
<1>3. \A k \in 0 .. n : f[k] = IF k = 0 THEN t ELSE Replaced(rules[k], f[k - 1])
  BY <1>1, <1>2 DEF Rewrites
<1> DEFINE Q == {k \in 0 .. n : k >= j => f[k] \in P}
<1>4. f[j] \in P
  <2>1. CASE j = 0
    BY <1>3, <2>1
  <2>2. CASE j # 0
    <3>1. j - 1 \in 0 .. n /\ j \in 0 .. n
      BY <1>1, <2>2
    <3>2. f[j] = Replaced(rules[j], f[j - 1])
      BY <1>3, <2>2, <3>1
    <3>3. f[j - 1] \in Text
      BY <1>2, <3>1
    <3> QED
      BY <2>2, <3>2, <3>3
  <2> QED
    BY <2>1, <2>2
<1>5. 0 \in Q
  BY <1>4
<1>6. ASSUME NEW k \in 0 .. n - 1, k \in Q
      PROVE  k + 1 \in Q
  <2>1. k + 1 \in 0 .. n /\ k + 1 # 0 /\ (k + 1) - 1 = k /\ k \in 0 .. n
    OBVIOUS
  <2>2. CASE k + 1 = j
    BY <1>4, <2>1, <2>2
  <2>3. CASE k >= j
    <3>1. f[k] \in P /\ f[k] \in Text
      BY <1>2, <1>6, <2>1, <2>3
    <3>2. k + 1 \in j + 1 .. n
      BY <2>3
    <3>3. f[k + 1] = Replaced(rules[k + 1], f[k])
      BY <1>3, <2>1
    <3>4. Replaced(rules[k + 1], f[k]) \in P
      BY <1>1, <3>1, <3>2
    <3> QED
      BY <2>1, <3>3, <3>4
  <2>4. CASE k + 1 < j
    BY <2>1, <2>4
  <2> QED
    BY <2>2, <2>3, <2>4
<1>7. n \in Q
  <2> HIDE DEF Q
  <2>1. \A k \in 0 .. n : k \in Q
    BY <1>5, <1>6, Upwards
  <2> QED
    BY <2>1
<1> QED
  BY <1>1, <1>2, <1>7

LEMMA PlainRule ==
  \A from \in Text : \A to \in Seq(Plain) :
    /\ KeepsCrless(Literal(from, to))
    /\ from # <<>> /\ from[1] # "@" => KeepsTabs(Literal(from, to))
BY PlainIsText, LiteralCrless, LiteralTabs

LEMMA ParagraphRulesCrless ==
  \A k \in 3 .. Len(ParagraphRules) : KeepsCrless(ParagraphRules[k])
<1> DEFINE
  r1 == Literal(<<"cr", "nl">>, <<"nl">>)
  r2 == Literal(<<"cr">>, <<"nl">>)
  r3 == Literal(<<"<", "table", ">">>, Blank \o <<"<", "table", ">">>)
  r4 == Literal(<<"<", "/", "table", ">">>, <<"<", "/", "table", ">">> \o Blank)
  r5 == Literal(<<"<", "tr", ">">>, Blank \o <<"<", "tr", ">">>)
  r6 == Literal(<<"<", "/", "tr", ">">>, <<"<", "/", "tr", ">">> \o Blank)
  r7 == Literal(<<"{", "|">>, Blank \o <<"{", "|">>)
  r8 == Literal(<<"|", "}">>, <<"|", "}">> \o Blank)
  r9 == Literal(<<"|", "-", "nl">>, Blank \o <<"|", "-", "nl">>)
<1>1. \A from \in Seq(Plain) : /\ KeepsCrless(Literal(from, Blank \o from))
                               /\ KeepsCrless(Literal(from, from \o Blank))
  <2> TAKE from \in Seq(Plain)
  <2>1. from \in Text /\ Blank \o from \in Seq(Plain) /\ from \o Blank \in Seq(Plain)
    BY MarksPlain, JoinedPlain, PlainIsText
  <2> QED
    BY <2>1, PlainRule
<1>2. /\ <<"<", "table", ">">> \in Seq(Plain) /\ <<"<", "/", "table", ">">> \in Seq(Plain)
      /\ <<"<", "tr", ">">> \in Seq(Plain) /\ <<"<", "/", "tr", ">">> \in Seq(Plain)
      /\ <<"{", "|">> \in Seq(Plain) /\ <<"|", "}">> \in Seq(Plain)
      /\ <<"|", "-", "nl">> \in Seq(Plain)
  BY PlainAre, FewPlain, Zenon
<1>3. KeepsCrless(r3) /\ KeepsCrless(r4) /\ KeepsCrless(r5) /\ KeepsCrless(r6)
  BY <1>1, <1>2, Zenon
<1>4. KeepsCrless(r7) /\ KeepsCrless(r8) /\ KeepsCrless(r9)
  BY <1>1, <1>2, Zenon
<1>5. ParagraphRules = <<r1, r2, r3, r4, r5, r6, r7, r8, r9>>
  BY DEF ParagraphRules
<1> HIDE DEF r1, r2, r3, r4, r5, r6, r7, r8, r9
<1>6. Len(<<r1, r2, r3, r4, r5, r6, r7, r8, r9>>) = 9
  OBVIOUS
<1>7. ASSUME NEW k \in 3 .. 9
      PROVE  KeepsCrless(<<r1, r2, r3, r4, r5, r6, r7, r8, r9>>[k])
  <2>1. k = 3 \/ k = 4 \/ k = 5 \/ k = 6 \/ k = 7 \/ k = 8 \/ k = 9
    OBVIOUS
  <2> QED
    BY <1>3, <1>4, <2>1
<1> QED
  BY <1>5, <1>6, <1>7

LEMMA SentenceRulesCrless ==
  /\ \A k \in 1 .. Len(SentenceRules) : KeepsCrless(SentenceRules[k])
  /\ \A k \in 8 .. Len(SentenceRules) : KeepsTabs(SentenceRules[k])
<1> DEFINE
  r1 == Literal(<<"nl">>, <<"nl">> \o Mark)
  r2 == RegexDot
  r3 == Literal(<<";", "sp">>, <<";">> \o Mark)
  r4 == Literal(<<"?", "sp">>, <<"?">> \o Mark)
  r5 == Literal(<<"!", "sp">>, <<"!">> \o Mark)
  r6 == Literal(<<":", "sp">>, <<":">> \o Mark)
  r7 == Literal(<<"tab">>, <<"tab">> \o Mark)
  r8 == Literal(<<"<", "!", "-", "-">>, Mark \o <<"<", "!", "-", "-">>)
  r9 == Literal(<<"-", "-", ">">>, <<"-", "-", ">">> \o Mark)
  r10 == Literal(<<"<", "ref">>, Mark \o <<"<", "ref">>)
  r11 == Literal(<<"/", "ref", ">">>, <<"/", "ref", ">">> \o Mark)
  r12 == RegexUrl
<1>1. \A from \in Text : \A to \in Seq(Plain) :
        /\ KeepsCrless(Literal(from, to \o Mark)) /\ KeepsCrless(Literal(from, Mark \o to))
        /\ from # <<>> /\ from[1] # "@" =>
             KeepsTabs(Literal(from, to \o Mark)) /\ KeepsTabs(Literal(from, Mark \o to))
  <2> TAKE from \in Text
  <2> TAKE to \in Seq(Plain)
  <2>1. Mark \o to \in Seq(Plain) /\ to \o Mark \in Seq(Plain)
    BY MarksPlain, JoinedPlain
  <2> QED
    BY <2>1, PlainRule
<1>2. /\ <<"nl">> \in Seq(Plain) /\ <<";">> \in Seq(Plain) /\ <<"?">> \in Seq(Plain)
      /\ <<"!">> \in Seq(Plain) /\ <<":">> \in Seq(Plain)
  <2>1. \A p \in Plain : <<p>> \in Seq(Plain)
    BY FewPlain
  <2> QED
    BY PlainAre, <2>1, Zenon
<1>21. /\ <<";", "sp">> \in Seq(Plain) /\ <<"?", "sp">> \in Seq(Plain)
       /\ <<"!", "sp">> \in Seq(Plain) /\ <<":", "sp">> \in Seq(Plain)
  BY PlainAre, FewPlain, Zenon
<1>22. /\ <<"<", "!", "-", "-">> \in Seq(Plain) /\ <<"-", "-", ">">> \in Seq(Plain)
       /\ <<"<", "ref">> \in Seq(Plain) /\ <<"/", "ref", ">">> \in Seq(Plain)
  BY PlainAre, FewPlain, Zenon
<1>3. KeepsCrless(r1) /\ KeepsCrless(r3) /\ KeepsCrless(r4) /\ KeepsCrless(r5) /\ KeepsCrless(r6)
  BY <1>1, <1>2, <1>21, PlainIsText, Zenon
<1>4. KeepsCrless(r8) /\ KeepsCrless(r9) /\ KeepsCrless(r10) /\ KeepsCrless(r11)
  BY <1>1, <1>22, PlainIsText, Zenon
<1>5. KeepsCrless(r2) /\ KeepsCrless(r12) /\ KeepsTabs(r12)
  BY DotCrless, UrlCrless, UrlTabs
<1>6. KeepsCrless(r7)
  <2> DEFINE from == <<"tab">>
  <2>1. "tab" \in Crless
    BY DEF Crless, Symbol, White
  <2>6. \A s \in Crless : <<s>> \in Text /\ <<s>> \in Seq(Crless)
    BY PlainIsText, TextSymbol DEF Text
  <2>2. from \in Text /\ from \in Seq(Crless)
    BY <2>1, <2>6, Zenon
  <2> HIDE DEF from
  <2>3. Mark \in Seq(Crless)
    BY MarksPlain, PlainIsText
  <2>4. from \o Mark \in Seq(Crless)
    BY <2>2, <2>3
  <2>5. KeepsCrless(Literal(from, from \o Mark))
    BY <2>2, <2>4, LiteralCrless
  <2> QED
    BY <2>5 DEF from
<1>7. KeepsTabs(r8) /\ KeepsTabs(r9) /\ KeepsTabs(r10) /\ KeepsTabs(r11)
  <2>1. \A p, q, r, s : /\ <<p, q>> # <<>> /\ <<p, q, r>> # <<>> /\ <<p, q, r, s>> # <<>>
                        /\ <<p, q>>[1] = p /\ <<p, q, r>>[1] = p /\ <<p, q, r, s>>[1] = p
    OBVIOUS
  <2>2. /\ <<"<", "!", "-", "-">>[1] # "@" /\ <<"-", "-", ">">>[1] # "@"
        /\ <<"<", "ref">>[1] # "@" /\ <<"/", "ref", ">">>[1] # "@"
    OBVIOUS
  <2>3. /\ <<"<", "!", "-", "-">> # <<>> /\ <<"-", "-", ">">> # <<>>
        /\ <<"<", "ref">> # <<>> /\ <<"/", "ref", ">">> # <<>>
    BY <2>1, Zenon
  <2> QED
    BY <1>1, <1>22, <2>2, <2>3, PlainIsText, Zenon
<1>8. SentenceRules = <<r1, r2, r3, r4, r5, r6, r7, r8, r9, r10, r11, r12>>
  BY DEF SentenceRules
<1> HIDE DEF r1, r2, r3, r4, r5, r6, r7, r8, r9, r10, r11, r12
<1>9. Len(<<r1, r2, r3, r4, r5, r6, r7, r8, r9, r10, r11, r12>>) = 12
  OBVIOUS
<1>10. ASSUME NEW k \in 1 .. 12
       PROVE  KeepsCrless(<<r1, r2, r3, r4, r5, r6, r7, r8, r9, r10, r11, r12>>[k])
  <2>1. k = 1 \/ k = 2 \/ k = 3 \/ k = 4 \/ k = 5 \/ k = 6 \/ k = 7 \/ k = 8 \/ k = 9 \/ k = 10 \/ k = 11 \/ k = 12
    OBVIOUS
  <2> QED
    BY <1>3, <1>4, <1>5, <1>6, <2>1
<1>11. ASSUME NEW k \in 8 .. 12
       PROVE  KeepsTabs(<<r1, r2, r3, r4, r5, r6, r7, r8, r9, r10, r11, r12>>[k])
  <2>1. k = 8 \/ k = 9 \/ k = 10 \/ k = 11 \/ k = 12
    OBVIOUS
  <2> QED
    BY <1>5, <1>7, <2>1
<1> QED
  BY <1>8, <1>9, <1>10, <1>11

LEMMA MergeMarksClean == KeepsCrless(MergeMarks) /\ KeepsTabs(MergeMarks)
<1>1. Mark \in Text /\ Mark \in Seq(Crless) /\ TabMarked(Mark) /\ Mark \o Mark \in Text
  BY MarksPlain, PlainIsText, JoinedTexts
<1>2. StandsAt(Mark, 1, Mark)
  <2>1. Len(Mark) = 4 /\ DOMAIN Mark = 1 .. 4
    BY DEF Mark
  <2>2. \A k \in 1 .. 4 : 1 + k - 1 = k
    OBVIOUS
  <2> QED
    BY <2>1, <2>2 DEF StandsAt
<1> QED
  BY <1>1, <1>2, LiteralCrless, LiteralTabs DEF MergeMarks

LEMMA ParagraphsClean ==
  ASSUME NEW t \in Text
  PROVE  /\ ParagraphsNaive(t) \in Seq(Seq(Crless)) /\ ParagraphsNaive(t) \in Seq(Text)
         /\ FlatSpell(ParagraphsNaive(t)) = Spell(t)
<1> DEFINE whole == RewrittenBy(ParagraphRules, t)
<1>1. whole \in Text /\ Reading(whole) = Reading(t)
  BY ParagraphRulesAre, RewrittenIsText, ParagraphRulesKeep, RewrittenReads
<1>2. Len(ParagraphRules) = 9
  BY DEF ParagraphRules
<1>3. ParagraphRules[2] = Literal(<<"cr">>, <<"nl">>)
  BY DEF ParagraphRules
<1>4. \A x \in Text : Replaced(ParagraphRules[2], x) \in Seq(Crless)
  BY <1>3, CrReplaced
<1>5. \A k \in 2 + 1 .. 9 : \A x \in Text :
        x \in Seq(Crless) => Replaced(ParagraphRules[k], x) \in Seq(Crless)
  BY <1>2, ParagraphRulesCrless DEF KeepsCrless
<1>6. whole \in Seq(Crless)
  <2>1. 2 \in 0 .. Len(ParagraphRules)
    BY <1>2
  <2>2. PICK rules, P, j : j \in 0 .. Len(rules) /\ rules = ParagraphRules /\ P = Seq(Crless) /\ j = 2
    BY <2>1
  <2>3. AreRules(rules)
    BY <2>2, ParagraphRulesAre
  <2>4. j = 0 => t \in P
    BY <2>2
  <2>5. j # 0 => \A x \in Text : Replaced(rules[j], x) \in P
    BY <1>4, <2>2
  <2>6. \A k \in j + 1 .. Len(rules) : \A x \in Text : x \in P => Replaced(rules[k], x) \in P
    BY <1>2, <1>5, <2>2
  <2>8. j \in 0 .. Len(rules)
    BY <2>2
  <2>7. RewrittenBy(rules, t) \in P
    BY <2>3, <2>4, <2>5, <2>6, <2>8, RewrittenIn
  <2> QED
    BY <2>2, <2>7
<1> HIDE DEF whole
<1>7. Blank \in Text /\ Blank # <<>> /\ Crless \in SUBSET Symbol
  BY Marks, PlainIsText DEF Blank
<1>8. Cut(whole, Blank) \in Seq(Seq(Crless)) /\ Cut(whole, Blank) \in Parts
  BY <1>6, <1>7, CutSymbols
<1>9. FlatSpell(Cut(whole, Blank)) = Spell(whole)
  BY <1>1, CutSpells
<1>10. ParagraphsNaive(t) = Cut(whole, Blank)
  BY DEF ParagraphsNaive, whole
<1> QED
  BY <1>1, <1>8, <1>9, <1>10 DEF Parts, Spell

LEMMA SentencesClean ==
  ASSUME NEW t \in Seq(Crless)
  PROVE  /\ SentencesNaive(t) \in Seq(Seq(Crless)) /\ SentencesNaive(t) \in Seq(Text)
         /\ FlatSpell(SentencesNaive(t)) = Spell(t)
         /\ \A k \in 1 .. Len(SentencesNaive(t)) :
              ~Occurs(Mark, SentencesNaive(t)[k]) /\ TabLast(SentencesNaive(t)[k])
<1>0. t \in Text /\ Crless \in SUBSET Symbol
  BY PlainIsText DEF Text
<1> DEFINE marked == RewrittenBy(SentenceRules, t)
<1>1. marked \in Text /\ Reading(marked) = Reading(t)
  BY <1>0, SentenceRulesAre, RewrittenIsText, SentenceRulesKeep, RewrittenReads
<1>2. Len(SentenceRules) = 12
  BY DEF SentenceRules
<1>3. SentenceRules[7] = Literal(<<"tab">>, <<"tab">> \o Mark)
  BY DEF SentenceRules
<1>4. marked \in Seq(Crless)
  <2>1. \A k \in 0 + 1 .. Len(SentenceRules) : \A x \in Text :
          x \in Seq(Crless) => Replaced(SentenceRules[k], x) \in Seq(Crless)
    BY SentenceRulesCrless DEF KeepsCrless
  <2>2. 0 \in 0 .. Len(SentenceRules)
    BY <1>2
  <2> QED
    BY <1>0, <2>1, <2>2, SentenceRulesAre, RewrittenIn
<1> DEFINE M == {x \in Text : TabMarked(x)}
<1>5. marked \in M
  <2>1. \A k \in 7 + 1 .. Len(SentenceRules) : \A x \in Text : x \in M => Replaced(SentenceRules[k], x) \in M
    <3>1. \A k \in 1 .. 12 : IsRule(SentenceRules[k])
      BY <1>2, SentenceRulesAre DEF AreRules
    <3>2. \A k \in 8 .. 12 : k \in 1 .. 12
      OBVIOUS
    <3>3. ASSUME NEW k \in 8 .. 12, NEW x \in M
          PROVE  Replaced(SentenceRules[k], x) \in M
      <4>1. PICK rule : rule = SentenceRules[k]
        OBVIOUS
      <4>2. IsRule(rule)
        BY <3>1, <3>2, <4>1
      <4>3. x \in Text /\ TabMarked(x)
        OBVIOUS
      <4>4. Replaced(rule, x) \in Text
        BY <4>2, <4>3, ReplacedIsText
      <4>5. KeepsTabs(rule)
        BY <1>2, <4>1, SentenceRulesCrless
      <4>6. TabMarked(Replaced(rule, x))
        BY <4>3, <4>5 DEF KeepsTabs
      <4> QED
        BY <4>1, <4>4, <4>6
    <3> QED
      BY <1>2, <3>3
  <2>2. \A x \in Text : Replaced(SentenceRules[7], x) \in M
    <3>1. IsRule(SentenceRules[7])
      BY <1>2, SentenceRulesAre DEF AreRules
    <3> QED
      BY <1>3, <3>1, TabReplaced, ReplacedIsText
  <2>3. 7 \in 0 .. Len(SentenceRules)
    BY <1>2
  <2> HIDE DEF M
  <2>4. PICK rules, P, j : j \in 0 .. Len(rules) /\ rules = SentenceRules /\ P = M /\ j = 7
    BY <2>3
  <2>5. AreRules(rules)
    BY <2>4, SentenceRulesAre
  <2>6. j = 0 => t \in P
    BY <2>4
  <2>7. j # 0 => \A x \in Text : Replaced(rules[j], x) \in P
    BY <2>2, <2>4
  <2>8. \A k \in j + 1 .. Len(rules) : \A x \in Text : x \in P => Replaced(rules[k], x) \in P
    BY <2>1, <2>4
  <2>10. j \in 0 .. Len(rules)
    BY <2>4
  <2>9. RewrittenBy(rules, t) \in P
    BY <1>0, <2>10, <2>5, <2>6, <2>7, <2>8, RewrittenIn
  <2> QED
    BY <2>4, <2>9
<1> HIDE DEF marked
<1>6. PICK n \in Nat : n = Rounds(marked)
  <2>1. \A l \in Nat : l \div 4 \in Nat
    OBVIOUS
  <2>2. Len(marked) \in Nat
    BY <1>1 DEF Text
  <2> QED
    BY <2>1, <2>2 DEF Rounds
<1> DEFINE merges == [k \in 1 .. n |-> MergeMarks]
           whole == RewrittenBy(merges, marked)
<1>7. AreRules(merges) /\ Len(merges) = n /\ \A k \in 1 .. n : merges[k] = MergeMarks
  BY MergeRulesAre
<1>8. SentencesNaive(t) = Cut(whole, Mark)
  BY <1>6 DEF SentencesNaive, marked
<1> HIDE DEF merges
<1>9. whole \in Text /\ Reading(whole) = Reading(marked)
  BY <1>1, <1>7, RewrittenIsText, MergeKeeps, RewrittenReads
<1>10. 0 \in 0 .. Len(merges)
  BY <1>7
<1>11. whole \in Seq(Crless)
  <2>1. \A k \in 0 + 1 .. Len(merges) : \A x \in Text :
          x \in Seq(Crless) => Replaced(merges[k], x) \in Seq(Crless)
    BY <1>7, MergeMarksClean DEF KeepsCrless
  <2> QED
    BY <1>1, <1>4, <1>7, <1>10, <2>1, RewrittenIn
<1>12. whole \in M
  <2>1. \A k \in 0 + 1 .. Len(merges) : \A x \in Text : x \in M => Replaced(merges[k], x) \in M
    <3>1. \A k \in 1 .. n : IsRule(merges[k])
      BY <1>7 DEF AreRules
    <3> QED
      BY <1>7, <3>1, MergeMarksClean, ReplacedIsText DEF KeepsTabs
  <2> HIDE DEF M
  <2> QED
    BY <1>1, <1>5, <1>7, <1>10, <2>1, RewrittenIn
<1> HIDE DEF whole
<1>13. Mark \in Text /\ Mark # <<>>
  BY Marks DEF Mark
<1>14. Cut(whole, Mark) \in Seq(Seq(Crless)) /\ Cut(whole, Mark) \in Parts
  BY <1>0, <1>11, <1>13, CutSymbols
<1>15. FlatSpell(Cut(whole, Mark)) = Spell(whole)
  BY <1>9, CutSpells
<1>16. \A k \in 1 .. Len(Cut(whole, Mark)) :
         ~Occurs(Mark, Cut(whole, Mark)[k]) /\ TabLast(Cut(whole, Mark)[k])
  BY <1>9, <1>12, CutSentences
<1>17. Spell(whole) = Spell(t)
  BY <1>1, <1>9 DEF Spell
<1> QED
  BY <1>8, <1>14, <1>15, <1>16, <1>17 DEF Parts

-----------------------------------------------------------------------------
(* Lists of texts put together.                                            *)

LEMMA OneItem ==
  ASSUME NEW A, NEW x \in A
  PROVE  <<x>> \in Seq(A) /\ Len(<<x>>) = 1 /\ DOMAIN <<x>> = 1 .. 1 /\ <<x>>[1] = x
OBVIOUS

LEMMA FlattenedTexts ==
  /\ FlattenSeq(<<>>) = <<>>
  /\ \A s \in Seq(Text) : FlattenSeq(s) \in Text
  /\ \A x \in Text : FlattenSeq(<<x>>) = x
  /\ \A s, t \in Seq(Text) : FlattenSeq(s \o t) = FlattenSeq(s) \o FlattenSeq(t)
<1>1. FlattenSeq(<<>>) = <<>>
  <2>1. Len(<<>>) = 0
    OBVIOUS
  <2> QED
    BY <2>1 DEF FlattenSeq
<1>2. ASSUME NEW s \in Seq(Text)
      PROVE  FlattenSeq(s) \in Text
  BY FlattenedType DEF Text
<1>3. ASSUME NEW x \in Text
      PROVE  FlattenSeq(<<x>>) = x
  <2>1. PICK s \in Seq(Text) : s = <<x>> /\ Len(s) = 1 /\ s[1] = x
    BY OneItem, Zenon
  <2>2. PICK f \in [0 .. 1 -> Text] : Joins(f, s) /\ FlattenSeq(s) = f[1]
    BY <2>1, Flattened DEF Text
  <2>3. 1 \in 1 .. Len(s) /\ 1 - 1 = 0
    BY <2>1
  <2>4. f[1] = <<>> \o s[1]
    BY <2>2, <2>3, Zenon DEF Joins
  <2>5. <<>> \o x = x
    BY TextAlone
  <2> QED
    BY <2>1, <2>2, <2>4, <2>5
<1>4. ASSUME NEW s \in Seq(Text), NEW t \in Seq(Text)
      PROVE  FlattenSeq(s \o t) = FlattenSeq(s) \o FlattenSeq(t)
  BY FlattenedJoin DEF Text
<1> QED
  BY <1>1, <1>2, <1>3, <1>4

LEMMA FlattenFirst ==
  ASSUME NEW x \in Text, NEW s \in Seq(Text)
  PROVE  <<x>> \o s \in Seq(Text) /\ FlattenSeq(<<x>> \o s) = x \o FlattenSeq(s)
<1>1. \A a, b \in Seq(Text) : a \o b \in Seq(Text)
  OBVIOUS
<1>2. <<x>> \in Seq(Text)
  BY OneItem, Zenon
<1>3. FlattenSeq(<<x>> \o s) = FlattenSeq(<<x>>) \o FlattenSeq(s)
  BY <1>2, FlattenedTexts, Zenon
<1> QED
  BY <1>1, <1>2, <1>3, FlattenedTexts, Zenon

\* Texts that agree up to some symbols do so when they are put together.
LEMMA WithoutFlattened ==
  ASSUME NEW symbols, NEW s \in Seq(Text), NEW u \in Seq(Text), Len(u) = Len(s),
         \A k \in 1 .. Len(s) : Without(u[k], symbols) = Without(s[k], symbols)
  PROVE  Without(FlattenSeq(u), symbols) = Without(FlattenSeq(s), symbols)
<1>1. PICK n \in Nat : /\ n = Len(s) /\ n = Len(u)
                       /\ \A k \in 1 .. n : s[k] \in Text /\ u[k] \in Text
  OBVIOUS
<1>2. PICK f \in [0 .. n -> Text] : Joins(f, s) /\ FlattenSeq(s) = f[n]
  BY <1>1, Flattened DEF Text
<1>3. PICK h \in [0 .. n -> Text] : Joins(h, u) /\ FlattenSeq(u) = h[n]
  BY <1>1, Flattened DEF Text
<1> DEFINE P == {k \in 0 .. n : Without(h[k], symbols) = Without(f[k], symbols)}
<1>4. 0 \in P
  BY <1>1, <1>2, <1>3 DEF Joins
<1>5. ASSUME NEW k \in 0 .. n - 1, k \in P
      PROVE  k + 1 \in P
  <2>1. PICK j \in 1 .. n : j = k + 1 /\ j - 1 = k /\ k \in 0 .. n /\ j \in 0 .. n
    OBVIOUS
  <2>2. f[j] = f[k] \o s[j] /\ h[j] = h[k] \o u[j]
    BY <1>1, <1>2, <1>3, <2>1 DEF Joins
  <2>3. f[k] \in Text /\ h[k] \in Text /\ s[j] \in Text /\ u[j] \in Text
    BY <1>1, <1>2, <1>3, <2>1
  <2>4. /\ Without(f[j], symbols) = Without(f[k], symbols) \o Without(s[j], symbols)
        /\ Without(h[j], symbols) = Without(h[k], symbols) \o Without(u[j], symbols)
    BY <2>2, <2>3, WithoutJoin
  <2>5. Without(h[k], symbols) = Without(f[k], symbols) /\ Without(u[j], symbols) = Without(s[j], symbols)
    BY <1>1, <1>5
  <2>6. Without(h[j], symbols) = Without(f[j], symbols)
    BY <2>4, <2>5, Zenon
  <2> QED
    BY <2>1, <2>6
<1>6. n \in P
  <2> HIDE DEF P
  <2>1. \A k \in 0 .. n : k \in P
    BY <1>4, <1>5, Upwards
  <2> QED
    BY <2>1
<1> QED
  BY <1>2, <1>3, <1>6

LEMMA WithoutNone ==
  ASSUME NEW symbols
  PROVE  \A t \in Text : (\A k \in 1 .. Len(t) : t[k] \notin symbols) => Without(t, symbols) = t
<1> DEFINE P == {t \in Text : (\A k \in 1 .. Len(t) : t[k] \notin symbols) => Without(t, symbols) = t}
<1>1. <<>> \in P
  BY TextEmpty, WithoutEmpty
<1>2. ASSUME NEW s \in Symbol, NEW x \in Text, x \in P
      PROVE  <<s>> \o x \in P
  <2>1. PICK t \in Text : t = <<s>> \o x
    BY FirstAgain
  <2>2. /\ Len(t) = Len(x) + 1 /\ Len(x) \in Nat /\ t[1] = s
        /\ \A k \in 1 .. Len(x) : t[k + 1] = x[k]
    <3>1. PICK a \in Text : a = <<s>> /\ Len(a) = 1 /\ a[1] = s
      BY TextSymbol
    <3>2. /\ Len(a \o x) = Len(a) + Len(x) /\ Len(x) \in Nat
          /\ \A k \in 1 .. Len(a) : (a \o x)[k] = a[k]
          /\ \A k \in 1 .. Len(x) : (a \o x)[Len(a) + k] = x[k]
      BY JoinIs
    <3>3. \A k \in 1 .. Len(x) : 1 + k = k + 1
      BY <3>2
    <3> QED
      BY <2>1, <3>1, <3>2, <3>3
  <2>3. ASSUME \A k \in 1 .. Len(t) : t[k] \notin symbols
        PROVE  Without(t, symbols) = t
    <3>1. s \notin symbols
      <4>1. 1 \in 1 .. Len(t)
        BY <2>2
      <4> QED
        BY <2>2, <2>3, <4>1
    <3>2. \A k \in 1 .. Len(x) : x[k] \notin symbols
      <4> TAKE k \in 1 .. Len(x)
      <4>1. k + 1 \in 1 .. Len(t)
        BY <2>2
      <4> QED
        BY <2>2, <2>3, <4>1
    <3>3. Without(x, symbols) = x
      BY <1>2, <3>2
    <3>4. Without(<<s>> \o x, symbols)
            = IF s \in symbols THEN Without(x, symbols) ELSE <<s>> \o Without(x, symbols)
      BY WithoutFirst
    <3> QED
      BY <2>1, <3>1, <3>3, <3>4
  <2> QED
    BY <2>1, <2>3
<1>3. \A t \in Text : t \in P
  <2> HIDE DEF P
  <2> QED
    BY <1>1, <1>2, TextInduction
<1> QED
  BY <1>3

LEMMA WithoutTwice ==
  ASSUME NEW few, NEW symbols, few \subseteq symbols
  PROVE  \A t \in Text : Without(Without(t, symbols), few) = Without(t, symbols)
<1> DEFINE P == {t \in Text : Without(Without(t, symbols), few) = Without(t, symbols)}
<1>1. <<>> \in P
  BY TextEmpty, WithoutEmpty
<1>2. ASSUME NEW s \in Symbol, NEW x \in Text, x \in P
      PROVE  <<s>> \o x \in P
  <2>1. PICK y \in Text : y = Without(x, symbols) /\ Without(y, few) = y
    BY <1>2, WithoutIs
  <2>2. Without(<<s>> \o x, symbols) = IF s \in symbols THEN y ELSE <<s>> \o y
    BY <2>1, WithoutFirst, ZenonT(40)
  <2>6. Without(<<s>> \o y, few) = IF s \in few THEN Without(y, few) ELSE <<s>> \o Without(y, few)
    BY WithoutFirst
  <2>3. s \notin symbols => Without(<<s>> \o y, few) = <<s>> \o y
    BY <2>1, <2>6
  <2>4. Without(Without(<<s>> \o x, symbols), few) = Without(<<s>> \o x, symbols)
    BY <2>1, <2>2, <2>3
  <2>5. <<s>> \o x \in Text
    BY FirstAgain
  <2> QED
    BY <2>4, <2>5
<1>3. \A t \in Text : t \in P
  <2> HIDE DEF P
  <2> QED
    BY <1>1, <1>2, TextInduction
<1> QED
  BY <1>3

-----------------------------------------------------------------------------
(* What tokens and words are made of.                                      *)

Solid == Symbol \ Separators

LEMMA CompositesSolid ==
  \A c \in Composites : c \in Seq(Solid) /\ c # <<>>
<1>1. \A p, q, r, s \in Solid :
        <<p, q>> \in Seq(Solid) /\ <<p, q, r>> \in Seq(Solid) /\ <<p, q, r, s>> \in Seq(Solid)
  OBVIOUS
<1>2. "<" \in Solid /\ "!" \in Solid /\ "-" \in Solid /\ ">" \in Solid
  BY SymbolsAre DEF Solid, Separators
<1>3. "[" \in Solid /\ "]" \in Solid /\ "{" \in Solid /\ "}" \in Solid
  <2>1. "[" \in Symbol /\ "]" \in Symbol
    BY Zenon DEF Symbol, Punctuation
  <2> QED
    BY <2>1, SymbolsAre DEF Solid, Separators
<1>4. <<"<", "!", "-", "-">> \in Seq(Solid) /\ <<"-", "-", ">">> \in Seq(Solid)
  BY <1>1, <1>2, Zenon
<1>5. /\ <<"[", "[">> \in Seq(Solid) /\ <<"]", "]">> \in Seq(Solid)
      /\ <<"{", "{">> \in Seq(Solid) /\ <<"}", "}">> \in Seq(Solid)
  BY <1>1, <1>3, Zenon
<1>6. \A c \in Composites : c \in Seq(Solid)
  BY <1>4, <1>5, Zenon DEF Composites
<1>7. \A c \in Composites : c # <<>>
  <2>1. Len(<<>>) = 0
    OBVIOUS
  <2> HIDE DEF Composites
  <2> QED
    BY <2>1, CompositesAre
<1> QED
  BY <1>6, <1>7, Zenon

LEMMA PatternIs ==
  ASSUME NEW t \in Text, NEW i \in 1 .. Len(t)
  PROVE  /\ t[i] \in Separators => PatternAt(i, t) = 1
         /\ t[i] \notin Separators =>
              \A j \in i .. i + PatternAt(i, t) - 1 : t[j] \notin Separators
         /\ PatternAt(i, t) = 0 => t[i] \notin Separators
<1>1. CASE \E c \in Composites : StandsAt(c, i, t)
  <2>1. PICK c \in Composites : StandsAt(c, i, t) /\ PatternAt(i, t) = Len(c)
    BY <1>1, ZenonT(40) DEF PatternAt
  <2>2. PICK n \in Nat \ {0} : n = Len(c) /\ DOMAIN c = 1 .. n /\ \A k \in 1 .. n : c[k] \notin Separators
    <3>1. c \in Seq(Solid) /\ c # <<>>
      BY CompositesSolid, Zenon
    <3> HIDE DEF Composites, Separators
    <3>2. Len(c) \in Nat \ {0} /\ DOMAIN c = 1 .. Len(c) /\ \A k \in 1 .. Len(c) : c[k] \in Solid
      BY <3>1
    <3> QED
      BY <3>2, Zenon DEF Solid
  <2>3. \A k \in 1 .. n : t[i + k - 1] = c[k]
    BY <2>1, <2>2 DEF StandsAt
  <2>4. ASSUME NEW j \in i .. i + n - 1
        PROVE  t[j] \notin Separators
    <3>1. PICK k \in 1 .. n : k = j - i + 1 /\ i + k - 1 = j
      <4>1. j - i + 1 \in 1 .. n /\ i + (j - i + 1) - 1 = j
        BY <2>2
      <4> QED
        BY <4>1
    <3> QED
      BY <2>2, <2>3, <3>1
  <2>5. i \in i .. i + n - 1
    BY <2>2
  <2> QED
    BY <2>1, <2>2, <2>4, <2>5
<1>2. CASE ~ \E c \in Composites : StandsAt(c, i, t)
  <2>1. PatternAt(i, t) = IF t[i] \in Separators \cup Punctuation \cup {"|"} THEN 1 ELSE 0
    BY <1>2, Zenon DEF PatternAt
  <2>2. PatternAt(i, t) \in {0, 1}
    BY <2>1
  <2>3. \A j \in i .. i + PatternAt(i, t) - 1 : j = i
    BY <2>2
  <2> HIDE DEF Separators
  <2> QED
    BY <2>1, <2>3
<1> QED
  BY <1>1, <1>2

LEMMA TokenIsSolid ==
  ASSUME NEW t \in Text, NEW i \in 1 .. Len(t)
  PROVE  /\ t[i] \in Separators => TokenEnd(t, i) = i + 1
         /\ t[i] \notin Separators => \A j \in i .. TokenEnd(t, i) - 1 : t[j] \notin Separators
<1>1. PICK L \in Nat : L = Len(t)
  BY DEF Text
<1>2. PICK n \in Nat : n = PatternAt(i, t)
  BY PatternInText
<1>3. CASE n > 0
  <2>1. TokenEnd(t, i) = i + n
    BY <1>2, <1>3 DEF TokenEnd
  <2> QED
    BY <1>2, <2>1, PatternIs
<1>4. CASE ~(n > 0)
  <2> DEFINE later == {j \in i .. L : PatternAt(j, t) > 0} \cup {L + 1}
  <2>1. TokenEnd(t, i) = Min(later)
    BY <1>1, <1>2, <1>4 DEF TokenEnd
  <2>2. later \in SUBSET Nat /\ later # {}
    OBVIOUS
  <2>3. PICK q \in Nat : q = TokenEnd(t, i) /\ \A y \in later : q <= y
    <3> HIDE DEF later
    <3>1. Min(later) \in later /\ \A y \in later : Min(later) <= y
      BY <2>2, MinIs
    <3> QED
      BY <2>1, <2>2, <3>1
  <2>4. ASSUME NEW j \in i .. q - 1
        PROVE  t[j] \notin Separators
    <3>1. q <= L + 1
      BY <2>3
    <3>2. j \in 1 .. L /\ j \in i .. L
      BY <1>1, <3>1
    <3>3. PICK m \in Nat : m = PatternAt(j, t)
      BY <1>1, <3>2, PatternInText
    <3>4. m = 0
      <4>1. ASSUME m > 0 PROVE FALSE
        <5>1. j \in later
          BY <3>2, <3>3, <4>1
        <5>2. q <= j
          BY <2>3, <5>1
        <5> QED
          BY <5>2
      <4> QED
        BY <3>3, <4>1
    <3> QED
      BY <1>1, <3>2, <3>3, <3>4, PatternIs
  <2>5. n = 0
    BY <1>4
  <2>6. t[i] \notin Separators
    BY <1>2, <2>5, PatternIs
  <2> QED
    BY <2>3, <2>4, <2>6
<1> QED
  BY <1>3, <1>4

LEMMA TokensFlattened ==
  ASSUME NEW t \in Text
  PROVE  FlattenSeq(TokensCorasick(t)) = Without(t, Separators)
<1>1. PICK L \in Nat : L = Len(t)
  BY DEF Text
<1>2. PICK f : /\ TokensFrom(f, t) /\ TokensCorasick(t) = f[1]
               /\ \A i \in 1 .. L + 1 : f[i] \in Seq(Text)
  BY <1>1, TokensScan
<1> DEFINE next == [i \in 1 .. L |-> TokenEnd(t, i)]
           P == {i \in 1 .. L + 1 : FlattenSeq(f[i]) = Without(Rest(t, i), Separators)}
<1>3. L + 1 \in P
  <2>1. f[L + 1] = <<>>
    BY <1>1, <1>2 DEF TokensFrom
  <2>2. Rest(t, L + 1) = <<>>
    BY <1>1, RestIs
  <2> QED
    BY <2>1, <2>2, FlattenedTexts, WithoutEmpty
<1>4. ASSUME NEW i \in 1 .. L, next[i] \in P
      PROVE  i \in P
  <2>1. PICK q \in Nat : q = TokenEnd(t, i) /\ i < q /\ q <= L + 1
    BY <1>1, TokenEnds
  <2>2. PICK n \in Nat : n = q - i /\ i + n = q /\ i + n - 1 = q - 1 /\ i + n <= Len(t) + 1
    <3>1. q - i \in Nat /\ i + (q - i) = q
      BY <2>1
    <3> QED
      BY <1>1, <2>1, <3>1
  <2>3. PICK m \in Text : m = SubSeq(t, i, q - 1) /\ Rest(t, i) = m \o Rest(t, q)
    <3>1. /\ SubSeq(t, i, i + n - 1) \in Text
          /\ Rest(t, i) = SubSeq(t, i, i + n - 1) \o Rest(t, i + n)
      BY <1>1, <2>2, RestFrom
    <3> QED
      BY <2>2, <3>1, Zenon
  <2>11. /\ Len(m) = q - i /\ \A k \in 1 .. q - i : m[k] = t[i + k - 1]
         /\ q = i + 1 => m = <<t[i]>>
    <3>1. i \in 1 .. Len(t) + 1 /\ i <= q /\ q <= Len(t) + 1
      BY <1>1, <2>1
    <3> QED
      BY <2>3, <3>1, SliceIs
  <2>4. q \in 1 .. L + 1 /\ i \in 1 .. L + 1 /\ ~(i > L)
    BY <2>1
  <2>5. f[i] = TokensHere(t, i) \o f[q] /\ f[q] \in Seq(Text)
    BY <1>1, <1>2, <2>1, <2>4 DEF TokensFrom
  <2>6. PICK rest \in Text : rest = Rest(t, q) /\ FlattenSeq(f[q]) = Without(rest, Separators)
    <3>1. q \in P
      BY <1>4, <2>1
    <3> QED
      BY <1>1, <2>4, <3>1, RestIs
  <2>7. Without(Rest(t, i), Separators) = Without(m, Separators) \o Without(rest, Separators)
    BY <2>3, <2>6, WithoutJoin, ZenonT(40)
  <2>8. Without(rest, Separators) \in Text
    BY WithoutIs
  <2>9. CASE t[i] \in Separators
    <3>1. TokensHere(t, i) = <<>>
      BY <2>9, Zenon DEF TokensHere
    <3>2. q = i + 1
      BY <1>1, <2>1, <2>9, TokenIsSolid
    <3>3. m = <<t[i]>> /\ t[i] \in Symbol
      <4>1. t[i] \in Symbol
        BY <1>1 DEF Text
      <4> QED
        BY <2>11, <3>2, <4>1
    <3>4. Without(m, Separators) = <<>>
      BY <2>9, <3>3, WithoutOne
    <3>5. \A s \in Seq(Text) : <<>> \o s = s
      OBVIOUS
    <3>6. f[i] = f[q]
      BY <2>5, <3>1, <3>5, Zenon
    <3>7. FlattenSeq(f[i]) = Without(Rest(t, i), Separators)
      BY <2>6, <2>7, <2>8, <3>4, <3>6, TextAlone, Zenon
    <3> QED
      BY <2>4, <3>7
  <2>10. CASE t[i] \notin Separators
    <3>1. TokensHere(t, i) = <<m>>
      BY <2>1, <2>3, <2>10, Zenon DEF TokensHere
    <3>2. \A k \in 1 .. Len(m) : m[k] \notin Separators
      <4>2. Len(m) = n /\ \A k \in 1 .. n : m[k] = t[i + k - 1]
        BY <2>2, <2>11
      <4>3. \A j \in i .. q - 1 : t[j] \notin Separators
        BY <1>1, <2>1, <2>10, TokenIsSolid
      <4>4. ASSUME NEW k \in 1 .. n
            PROVE  i + k - 1 \in i .. q - 1
        BY <2>2
      <4> QED
        BY <4>2, <4>3, <4>4
    <3>3. Without(m, Separators) = m
      BY <3>2, WithoutNone
    <3>4. FlattenSeq(<<m>> \o f[q]) = m \o FlattenSeq(f[q])
      BY <2>5, FlattenFirst
    <3>5. FlattenSeq(f[i]) = Without(Rest(t, i), Separators)
      BY <2>5, <2>6, <2>7, <3>1, <3>3, <3>4, Zenon
    <3> QED
      BY <2>4, <3>5
  <2> QED
    BY <2>9, <2>10
<1>5. Jumps(next, L)
  <2>1. \A i \in 1 .. L : next[i] \in Nat /\ i < next[i] /\ next[i] <= L + 1
    BY <1>1, TokenEnds
  <2>2. next \in [1 .. L -> Nat]
    BY <1>1, TokenEnds
  <2> QED
    BY <2>1, <2>2 DEF Jumps
<1>6. \A i \in 1 .. L + 1 : i \in P
  <2> HIDE DEF P, next
  <2> QED
    BY <1>3, <1>4, <1>5, Downwards
<1>7. 1 \in P
  BY <1>6
<1> QED
  BY <1>2, <1>7, RestIs

\* A cleaned sentence has the tokens' symbols.
LEMMA JoinedSpell ==
  ASSUME NEW t \in Text
  PROVE  /\ JoinedTokens(t) \in Text
         /\ Without(JoinedTokens(t), {"sp"}) = Without(t, Separators)
<1>1. PICK tokens \in Seq(Text) : tokens = TokensCorasick(t)
  BY TokensAreTexts
<1>2. PICK n \in Nat : /\ n = Len(tokens) /\ DOMAIN tokens = 1 .. n
                       /\ \A k \in 1 .. n : tokens[k] \in Text
  BY <1>1
<1> DEFINE spaced == [k \in DOMAIN tokens |-> IF k = 1 THEN tokens[k] ELSE <<"sp">> \o tokens[k]]
<1>3. JoinedTokens(t) = FlattenSeq(spaced)
  BY <1>1 DEF JoinedTokens
<1>4. "sp" \in Symbol
  BY SymbolsAre
<1>5. \A k \in 1 .. n : spaced[k] \in Text /\ Without(spaced[k], {"sp"}) = Without(tokens[k], {"sp"})
  <2> TAKE k \in 1 .. n
  <2>1. CASE k = 1
    BY <1>2, <2>1
  <2>2. CASE k # 1
    <3>1. spaced[k] = <<"sp">> \o tokens[k]
      BY <1>2, <2>2
    <3>2. <<"sp">> \o tokens[k] \in Text
      BY <1>2, <1>4, FirstAgain
    <3>3. Without(<<"sp">> \o tokens[k], {"sp"})
            = IF "sp" \in {"sp"} THEN Without(tokens[k], {"sp"}) ELSE <<"sp">> \o Without(tokens[k], {"sp"})
      BY <1>2, <1>4, WithoutFirst
    <3> HIDE DEF spaced
    <3> QED
      BY <3>1, <3>2, <3>3
  <2> QED
    BY <2>1, <2>2
<1>6. spaced = [k \in 1 .. n |-> spaced[k]]
  BY <1>2
<1> HIDE DEF spaced
<1>7. spaced \in Seq(Text) /\ Len(spaced) = n
  BY <1>5, <1>6
<1>8. Without(FlattenSeq(spaced), {"sp"}) = Without(FlattenSeq(tokens), {"sp"})
  BY <1>2, <1>5, <1>7, WithoutFlattened
<1>9. Without(Without(t, Separators), {"sp"}) = Without(t, Separators)
  <2>1. {"sp"} \subseteq Separators
    BY DEF Separators
  <2> QED
    BY <2>1, WithoutTwice
<1> QED
  BY <1>1, <1>3, <1>7, <1>8, <1>9, FlattenedTexts, TokensFlattened

LEMMA CutAtSpaces ==
  ASSUME NEW t \in Text
  PROVE  /\ Cut(t, <<"sp">>) \in Parts
         /\ FlattenSeq(Cut(t, <<"sp">>)) = Without(t, {"sp"})
<1>1. PICK L \in Nat : L = Len(t) /\ DOMAIN t = 1 .. L /\ \A i \in 1 .. L : t[i] \in Symbol
  BY DEF Text
<1>2. PICK sep \in Text : sep = <<"sp">> /\ Len(sep) = 1 /\ DOMAIN sep = 1 .. 1 /\ sep[1] = "sp" /\ sep # <<>>
  <2>1. "sp" \in Symbol
    BY SymbolsAre
  <2>2. \A s \in Symbol : /\ <<s>> \in Text /\ Len(<<s>>) = 1 /\ DOMAIN <<s>> = 1 .. 1 /\ <<s>>[1] = s
                          /\ <<s>> # <<>>
    BY DEF Text
  <2> QED
    BY <2>1, <2>2, Zenon
<1>3. PICK f : CutsFrom(f, t, sep) /\ Cut(t, sep) = f[1] /\ \A i \in 1 .. L + 1 : f[i] \in Parts
  BY <1>1, <1>2, CutScans
<1> DEFINE next == [i \in 1 .. L |-> i + 1]
           P == {i \in 1 .. L + 1 : FlattenSeq(f[i]) = Without(Rest(t, i), {"sp"})}
<1>4. L + 1 \in P
  <2>1. f[L + 1] = <<<<>>>>
    BY <1>1, <1>3 DEF CutsFrom
  <2>2. Rest(t, L + 1) = <<>>
    BY <1>1, RestIs
  <2>3. FlattenSeq(<<<<>>>>) = <<>>
    BY TextEmpty, FlattenedTexts
  <2> QED
    BY <2>1, <2>2, <2>3, WithoutEmpty
<1>5. ASSUME NEW i \in 1 .. L, next[i] \in P
      PROVE  i \in P
  <2>1. PICK j \in 1 .. L + 1 : j = i + 1
    OBVIOUS
  <2>2. PICK rest \in Parts : rest = f[j] /\ FlattenSeq(rest) = Without(Rest(t, j), {"sp"})
    BY <1>3, <1>5, <2>1
  <2>3. PICK s \in Symbol : s = t[i] /\ Rest(t, i) = <<s>> \o Rest(t, j) /\ Rest(t, j) \in Text
    BY <1>1, <2>1, RestIs
  <2>4. Without(Rest(t, i), {"sp"})
          = IF s \in {"sp"} THEN Without(Rest(t, j), {"sp"}) ELSE <<s>> \o Without(Rest(t, j), {"sp"})
    <3>1. Without(<<s>> \o Rest(t, j), {"sp"})
            = IF s \in {"sp"} THEN Without(Rest(t, j), {"sp"}) ELSE <<s>> \o Without(Rest(t, j), {"sp"})
      BY <2>3, WithoutFirst
    <3> QED
      BY <2>3, <3>1
  <2>5. i \in 1 .. L + 1 /\ ~(i > L)
    OBVIOUS
  <2>6. StandsAt(sep, i, t) <=> s = "sp"
    <3>1. i + 1 - 1 <= L /\ i + 1 - 1 = i
      OBVIOUS
    <3> QED
      BY <1>1, <1>2, <2>3, <3>1 DEF StandsAt
  <2>11. StandsAt(sep, i, t) \in BOOLEAN
    BY DEF StandsAt
  <2>7. f[i] = Piece(f[IF StandsAt(sep, i, t) THEN i + Len(sep) ELSE i + 1], StandsAt(sep, i, t), t[i])
    BY <1>1, <1>3, <2>5 DEF CutsFrom
  <2>8. /\ rest[1] \in Text /\ Tail(rest) \in Seq(Text) /\ rest \in Seq(Text)
        /\ rest = <<rest[1]>> \o Tail(rest)
    BY PieceIs
  <2>9. CASE s = "sp"
    <3>6. StandsAt(sep, i, t) = TRUE
      BY <2>6, <2>9, <2>11
    <3>1. f[i] = Piece(rest, TRUE, s)
      BY <1>2, <2>1, <2>2, <2>3, <2>7, <3>6
    <3>2. Piece(rest, TRUE, s) = <<<<>>>> \o rest
      BY DEF Piece
    <3>3. FlattenSeq(<<<<>>>> \o rest) = <<>> \o FlattenSeq(rest)
      BY <2>8, TextEmpty, FlattenFirst
    <3>4. <<>> \o FlattenSeq(rest) = FlattenSeq(rest)
      BY <2>8, FlattenedTexts, TextAlone
    <3>5. FlattenSeq(f[i]) = Without(Rest(t, i), {"sp"})
      BY <2>2, <2>4, <2>9, <3>1, <3>2, <3>3, <3>4
    <3> QED
      BY <2>5, <3>5
  <2>10. CASE s # "sp"
    <3>9. StandsAt(sep, i, t) = FALSE
      BY <2>6, <2>10, <2>11
    <3>1. f[i] = Piece(rest, FALSE, s)
      BY <2>1, <2>2, <2>3, <2>7, <3>9
    <3>2. Piece(rest, FALSE, s) = <<<<s>> \o rest[1]>> \o Tail(rest)
      BY DEF Piece
    <3>3. PICK first \in Text : first = <<s>> \o rest[1]
      BY <2>8, FirstAgain
    <3>4. FlattenSeq(<<first>> \o Tail(rest)) = first \o FlattenSeq(Tail(rest))
      BY <2>8, FlattenFirst
    <3>5. FlattenSeq(rest) = rest[1] \o FlattenSeq(Tail(rest))
      <4>1. FlattenSeq(<<rest[1]>> \o Tail(rest)) = rest[1] \o FlattenSeq(Tail(rest))
        BY <2>8, FlattenFirst
      <4> QED
        BY <2>8, <4>1, Zenon
    <3>6. (<<s>> \o rest[1]) \o FlattenSeq(Tail(rest)) = <<s>> \o (rest[1] \o FlattenSeq(Tail(rest)))
      <4>1. FlattenSeq(Tail(rest)) \in Text
        BY <2>8, FlattenedTexts
      <4> QED
        BY <2>8, <4>1, FirstAgain
    <3>7. FlattenSeq(f[i]) = <<s>> \o FlattenSeq(rest)
      BY <3>1, <3>2, <3>3, <3>4, <3>5, <3>6, Zenon
    <3>8. FlattenSeq(f[i]) = Without(Rest(t, i), {"sp"})
      BY <2>2, <2>4, <2>10, <3>7
    <3> QED
      BY <2>5, <3>8
  <2> QED
    BY <2>9, <2>10
<1>6. \A i \in 1 .. L + 1 : i \in P
  <2>1. Jumps(next, L)
    BY StepJumps
  <2> HIDE DEF P, next
  <2> QED
    BY <1>4, <1>5, <2>1, Downwards
<1>7. 1 \in P /\ 1 \in 1 .. L + 1
  BY <1>6
<1> QED
  BY <1>2, <1>3, <1>7, RestIs

-----------------------------------------------------------------------------
(* Trimming.                                                               *)

\* m is what is left of x without the white space around it.
TrimmedTo(m, x) ==
  /\ m \in Text /\ Spell(m) = Spell(x)
  /\ m # <<>> => m[1] \notin White /\ m[Len(m)] \notin White
  /\ \E a \in Nat : a + Len(m) <= Len(x) /\ \A k \in 1 .. Len(m) : m[k] = x[a + k]

LEMMA BlankTrimmed ==
  ASSUME NEW x \in Text, \A k \in 1 .. Len(x) : x[k] \in White
  PROVE  TrimmedTo(<<>>, x)
<1>1. x \in Seq(White) /\ <<>> \in Seq(White)
  <2>1. PICK n \in Nat : n = Len(x) /\ x = [k \in 1 .. n |-> x[k]]
    BY DEF Text
  <2>2. \A k \in 1 .. n : x[k] \in White
    BY <2>1
  <2>3. [k \in 1 .. n |-> x[k]] \in Seq(White)
    BY <2>2
  <2>4. <<>> \in Seq(White)
    OBVIOUS
  <2> QED
    BY <2>1, <2>3, <2>4, Zenon
<1>2. Spell(x \o (<<>> \o <<>>)) = Spell(<<>>)
  BY <1>1, TextEmpty, SpellTrimmed
<1>3. x \o (<<>> \o <<>>) = x
  BY TextEmpty, TextAlone
<1>4. Len(<<>>) = 0 /\ 0 + 0 <= Len(x)
  BY DEF Text
<1> QED
  BY <1>2, <1>3, <1>4, TextEmpty DEF TrimmedTo

LEMMA InkTrimmed ==
  ASSUME NEW x \in Text, NEW lo \in 1 .. Len(x), NEW hi \in lo .. Len(x),
         x[lo] \notin White, x[hi] \notin White,
         \A k \in 1 .. Len(x) : k < lo \/ k > hi => x[k] \in White
  PROVE  TrimmedTo(SubSeq(x, lo, hi), x) /\ StandsAt(SubSeq(x, lo, hi), lo, x)
<1>1. PICK n \in Nat : n = Len(x) /\ x \in Seq(Symbol)
  BY DEF Text
<1> DEFINE Slice(i, k) == SubSeq(x, i, k)
<1>2. ASSUME NEW i \in 1 .. n + 1, NEW k \in i - 1 .. n
      PROVE  /\ Slice(i, k) \in Text /\ Len(Slice(i, k)) = k + 1 - i
             /\ \A j \in 1 .. k + 1 - i : Slice(i, k)[j] = x[i + j - 1]
             /\ Slice(i, n) = Slice(i, k) \o Slice(k + 1, n)
  <2>1. PICK q \in Nat : q = k + 1 /\ q - 1 = k
    <3>1. k + 1 \in Nat /\ (k + 1) - 1 = k
      BY <1>1
    <3> QED
      BY <3>1
  <2>2. i \in 1 .. Len(x) + 1 /\ i <= q /\ q <= Len(x) + 1
    BY <1>1, <2>1
  <2>3. /\ SubSeq(x, i, q - 1) \in Text /\ Len(SubSeq(x, i, q - 1)) = q - i
        /\ \A j \in 1 .. q - i : SubSeq(x, i, q - 1)[j] = x[i + j - 1]
    BY <2>2, SliceIs
  <2>4. i \in 1 .. Len(x) + 1 /\ k \in i - 1 .. Len(x) /\ n \in k .. Len(x)
    BY <1>1
  <2>5. SubSeq(x, i, k) \o SubSeq(x, k + 1, n) = SubSeq(x, i, n)
    BY <1>1, <2>4, ConcatAdjacentSubSeq
  <2>6. SubSeq(x, i, q - 1) = Slice(i, k) /\ q - i = k + 1 - i
    BY <2>1
  <2> QED
    BY <2>3, <2>5, <2>6
<1>3. PICK l : l = Slice(1, lo - 1)
  OBVIOUS
<1>4. PICK m : m = Slice(lo, hi)
  OBVIOUS
<1>5. PICK r : r = Slice(hi + 1, n)
  OBVIOUS
<1>6. /\ 1 \in 1 .. n + 1 /\ lo - 1 \in 1 - 1 .. n /\ (lo - 1) + 1 = lo /\ lo \in 1 .. n + 1
      /\ hi \in lo - 1 .. n /\ hi + 1 \in 1 .. n + 1 /\ n \in (hi + 1) - 1 .. n
      /\ (lo - 1) + 1 - 1 = lo - 1 /\ n + 1 - (hi + 1) = n - hi
  BY <1>1
<1>7. l \in Text /\ Len(l) = lo - 1 /\ \A j \in 1 .. lo - 1 : l[j] = x[1 + j - 1]
  BY <1>2, <1>3, <1>6
<1>8. m \in Text /\ Len(m) = hi + 1 - lo /\ \A j \in 1 .. hi + 1 - lo : m[j] = x[lo + j - 1]
  BY <1>2, <1>4, <1>6
<1>9. r \in Text /\ Len(r) = n - hi /\ \A j \in 1 .. n - hi : r[j] = x[(hi + 1) + j - 1]
  BY <1>2, <1>5, <1>6
<1>10. x = l \o (m \o r)
  <2>1. Slice(1, n) = l \o Slice(lo, n)
    BY <1>2, <1>3, <1>6
  <2>2. Slice(lo, n) = m \o r
    BY <1>2, <1>4, <1>5, <1>6
  <2>3. Slice(1, n) = x
    BY <1>1, SubSeqFull
  <2> HIDE DEF Slice
  <2> QED
    BY <2>1, <2>2, <2>3
<1> HIDE DEF Slice
<1>11. l \in Seq(White)
  <2>1. \A j \in 1 .. lo - 1 : l[j] \in White
    <3> TAKE j \in 1 .. lo - 1
    <3>1. 1 + j - 1 \in 1 .. Len(x) /\ 1 + j - 1 < lo
      BY <1>1
    <3> QED
      BY <1>7, <3>1
  <2>2. PICK q \in Nat : q = lo - 1
    OBVIOUS
  <2>3. l = [j \in 1 .. q |-> l[j]]
    BY <1>7, <2>2 DEF Text
  <2> QED
    BY <2>1, <2>2, <2>3
<1>12. r \in Seq(White)
  <2>1. \A j \in 1 .. n - hi : r[j] \in White
    <3> TAKE j \in 1 .. n - hi
    <3>1. (hi + 1) + j - 1 \in 1 .. Len(x) /\ (hi + 1) + j - 1 > hi
      BY <1>1
    <3> QED
      BY <1>9, <3>1
  <2>4. n - hi \in Nat
    BY <1>1
  <2>2. PICK q \in Nat : q = n - hi
    BY <2>4
  <2>3. r = [j \in 1 .. q |-> r[j]]
    BY <1>9, <2>2 DEF Text
  <2> QED
    BY <2>1, <2>2, <2>3
<1>13. Spell(m) = Spell(x)
  BY <1>8, <1>10, <1>11, <1>12, SpellTrimmed
<1>14. PICK c \in Nat \ {0} : c = Len(m) /\ c = hi + 1 - lo /\ DOMAIN m = 1 .. c
  BY <1>1, <1>8 DEF Text
<1>15. m[1] \notin White /\ m[Len(m)] \notin White
  <2>1. 1 \in 1 .. c /\ c \in 1 .. c /\ lo + 1 - 1 = lo /\ lo + c - 1 = hi
    BY <1>14
  <2> QED
    BY <1>8, <1>14, <2>1
<1>16. /\ lo - 1 \in Nat /\ (lo - 1) + Len(m) <= Len(x)
       /\ \A k \in 1 .. Len(m) : m[k] = x[(lo - 1) + k]
  <2>1. \A k \in 1 .. c : (lo - 1) + k = lo + k - 1
    OBVIOUS
  <2> QED
    BY <1>1, <1>8, <1>14, <2>1
<1>17. StandsAt(m, lo, x)
  BY <1>1, <1>8, <1>14 DEF StandsAt
<1>18. TrimmedTo(m, x)
  BY <1>8, <1>13, <1>15, <1>16 DEF TrimmedTo
<1> QED
  BY <1>4, <1>17, <1>18 DEF Slice

LEMMA TrimmedShows ==
  ASSUME NEW length \in Nat, NEW cow \in Cows(length), NEW source \in Text, Shown(cow, source)
  PROVE  /\ TrimmedTo(TrimInPlace(cow).text, cow.text)
         /\ Shown(TrimInPlace(cow), source)
<1> DEFINE ink == {i \in DOMAIN cow.text : cow.text[i] \notin White}
<1>1. cow \in [owned : BOOLEAN, from : Nat, text : Text]
  BY DEF Cows
<1>2. PICK x \in Text : x = cow.text
  BY <1>1
<1>3. PICK n \in Nat : n = Len(x) /\ DOMAIN x = 1 .. n
  BY DEF Text
<1>4. ink \in SUBSET (1 .. n) /\ ink \in SUBSET Nat
  BY <1>2, <1>3
<1>5. TrimInPlace(cow) =
        IF cow.owned \/ ink = {}
        THEN [cow EXCEPT !.text = IF ink = {} THEN <<>> ELSE SubSeq(cow.text, Min(ink), Max(ink))]
        ELSE Borrowed(cow.from + Min(ink) - 1,
                      IF ink = {} THEN <<>> ELSE SubSeq(cow.text, Min(ink), Max(ink)))
  BY DEF TrimInPlace
<1>6. \A m : [cow EXCEPT !.text = m].text = m /\ [cow EXCEPT !.text = m].owned = cow.owned
             /\ [cow EXCEPT !.text = m].from = cow.from
  BY <1>1
<1>7. CASE ink = {}
  <2>1. TrimInPlace(cow) = [cow EXCEPT !.text = <<>>]
    BY <1>5, <1>7
  <2>2. \A k \in 1 .. Len(x) : x[k] \in White
    BY <1>2, <1>3, <1>7
  <2>3. TrimmedTo(<<>>, x)
    BY <2>2, BlankTrimmed
  <2>4. ASSUME ~cow.owned
        PROVE  StandsAt(<<>>, cow.from + 1, source)
    <3>1. StandsAt(x, cow.from + 1, source)
      BY <1>2, <2>4 DEF Shown
    <3>2. PICK a \in Nat : a = cow.from
      BY <1>1
    <3>3. PICK l \in Nat : l = Len(source)
      BY DEF Text
    <3>4. a + 1 + n - 1 <= l
      BY <1>3, <3>1, <3>2, <3>3 DEF StandsAt
    <3>5. Len(<<>>) = 0 /\ DOMAIN <<>> = {} /\ a + 1 + 0 - 1 <= l
      BY <3>4
    <3> QED
      BY <3>2, <3>3, <3>5 DEF StandsAt
  <2> HIDE DEF ink
  <2>5. TrimInPlace(cow).text = <<>> /\ TrimInPlace(cow).owned = cow.owned /\ TrimInPlace(cow).from = cow.from
    BY <1>6, <2>1
  <2> QED
    BY <1>2, <2>3, <2>4, <2>5 DEF Shown
<1>8. CASE ink # {}
  <2>1. /\ Min(ink) \in ink /\ \A y \in ink : Min(ink) <= y
        /\ Max(ink) \in ink /\ \A y \in ink : Max(ink) >= y
    <3> HIDE DEF ink
    <3> QED
      BY <1>4, <1>8, MinIs, MaxIs
  <2>2. PICK lo \in 1 .. n : lo = Min(ink) /\ x[lo] \notin White
    BY <1>2, <1>4, <2>1
  <2>9. \A y \in ink : y \in 1 .. n /\ x[y] \notin White
    BY <1>2, <1>3
  <2>10. Max(ink) \in ink /\ lo <= Max(ink)
    <3> HIDE DEF ink
    <3> QED
      BY <2>1, <2>2
  <2>3. PICK hi \in lo .. n : hi = Max(ink) /\ x[hi] \notin White
    <3> HIDE DEF ink
    <3>1. Max(ink) \in lo .. n /\ x[Max(ink)] \notin White
      BY <2>9, <2>10
    <3> QED
      BY <3>1
  <2>4. \A k \in 1 .. n : k < lo \/ k > hi => x[k] \in White
    <3> TAKE k \in 1 .. n
    <3>1. x[k] \notin White => k \in ink
      BY <1>2, <1>3
    <3>2. k \in ink => lo <= k /\ hi >= k
      BY <2>1, <2>2, <2>3
    <3> QED
      BY <3>1, <3>2
  <2>5. PICK m \in Text : m = SubSeq(x, lo, hi) /\ TrimmedTo(m, x) /\ StandsAt(m, lo, x)
    <3>1. TrimmedTo(SubSeq(x, lo, hi), x) /\ StandsAt(SubSeq(x, lo, hi), lo, x)
      BY <1>3, <2>2, <2>3, <2>4, InkTrimmed
    <3> QED
      BY <3>1 DEF TrimmedTo
  <2> HIDE DEF ink
  <2>6. CASE cow.owned
    <3>1. TrimInPlace(cow) = [cow EXCEPT !.text = m]
      BY <1>2, <1>5, <1>8, <2>2, <2>3, <2>5, <2>6
    <3> QED
      BY <1>2, <1>6, <2>5, <2>6, <3>1 DEF Shown
  <2>7. CASE ~cow.owned
    <3>1. PICK a \in Nat : a = cow.from
      BY <1>1
    <3>2. TrimInPlace(cow) = Borrowed(a + lo - 1, m)
      BY <1>2, <1>5, <1>8, <2>2, <2>3, <2>5, <2>7, <3>1
    <3>3. TrimInPlace(cow).text = m /\ TrimInPlace(cow).from = a + lo - 1
      BY <3>2 DEF Borrowed
    <3>4. StandsAt(x, a + 1, source)
      BY <1>2, <2>7, <3>1 DEF Shown
    <3>5. StandsAt(m, (a + lo - 1) + 1, source)
      <4>1. PICK c \in Nat : c = Len(m) /\ DOMAIN m = 1 .. c
        BY DEF Text
      <4>2. PICK l \in Nat : l = Len(source)
        BY DEF Text
      <4>3. a + 1 + n - 1 <= l /\ \A k \in 1 .. n : source[a + 1 + k - 1] = x[k]
        BY <1>3, <3>4, <4>2 DEF StandsAt
      <4>4. lo + c - 1 <= n /\ \A k \in 1 .. c : x[lo + k - 1] = m[k]
        BY <1>3, <2>5, <4>1 DEF StandsAt
      <4>5. ASSUME NEW k \in 1 .. c
            PROVE  source[(a + lo - 1) + 1 + k - 1] = m[k]
        <5>1. lo + k - 1 \in 1 .. n /\ a + 1 + (lo + k - 1) - 1 = (a + lo - 1) + 1 + k - 1
          BY <4>4
        <5>2. source[a + 1 + (lo + k - 1) - 1] = x[lo + k - 1]
          BY <4>3, <5>1
        <5> QED
          BY <4>4, <5>1, <5>2
      <4>6. (a + lo - 1) + 1 + c - 1 <= l
        BY <4>3, <4>4
      <4> QED
        BY <4>1, <4>2, <4>5, <4>6 DEF StandsAt
    <3> QED
      BY <1>2, <2>5, <3>3, <3>5 DEF Shown
  <2> QED
    BY <2>6, <2>7
<1> QED
  BY <1>7, <1>8

\* Empty texts can be left out.
LEMMA KeptFlattened ==
  ASSUME NEW u \in Seq(Text), NEW keep \in SUBSET (1 .. Len(u)),
         \A k \in 1 .. Len(u) : k \notin keep => u[k] = <<>>,
         NEW kept \in Seq(Text), Len(kept) = Cardinality(keep),
         \A i \in 1 .. Len(kept) : kept[i] = u[Ascending(keep)[i]]
  PROVE  FlattenSeq(kept) = FlattenSeq(u)
<1>1. PICK n \in Nat : n = Len(u) /\ \A k \in 1 .. n : u[k] \in Text
  OBVIOUS
<1>2. /\ IsFiniteSet(keep) /\ Cardinality(keep) \in Nat
      /\ \A i \in 1 .. Cardinality(keep) : Ascending(keep)[i] \in keep
      /\ \A k \in keep : /\ Rank(keep, k) + 1 \in 1 .. Cardinality(keep)
                         /\ Ascending(keep)[Rank(keep, k) + 1] = k
  BY <1>1, AscendingLists
<1>3. PICK c \in Nat : c = Cardinality(keep) /\ c = Len(kept)
  BY <1>2
<1>4. PICK f \in [0 .. n -> Text] : Joins(f, u) /\ FlattenSeq(u) = f[n]
  BY <1>1, Flattened DEF Text
<1>5. PICK h \in [0 .. c -> Text] : Joins(h, kept) /\ FlattenSeq(kept) = h[c]
  BY <1>3, Flattened DEF Text
<1>e. \A j \in keep : j \in Nat /\ 1 <= j /\ j <= n
  BY <1>1
<1> DEFINE rank(k) == Cardinality({j \in keep : j <= k})
           P == {k \in 0 .. n : rank(k) \in 0 .. c /\ f[k] = h[rank(k)]}
<1>6. 0 \in P
  <2>1. {j \in keep : j <= 0} = {}
    <3>1. \A j \in keep : ~(j <= 0)
      BY <1>e
    <3> QED
      BY <3>1
  <2>2. rank(0) = 0
    BY <2>1, FS_EmptySet
  <2>3. f[0] = <<>> /\ h[0] = <<>>
    BY <1>4, <1>5 DEF Joins
  <2>4. 0 \in 0 .. c /\ 0 \in 0 .. n
    OBVIOUS
  <2> HIDE DEF rank
  <2> QED
    BY <2>2, <2>3, <2>4
<1>7. ASSUME NEW k \in 0 .. n - 1, k \in P
      PROVE  k + 1 \in P
  <2>1. PICK j \in 1 .. n : j = k + 1 /\ j - 1 = k /\ j \in 0 .. n
    OBVIOUS
  <2>2. f[j] = f[k] \o u[j] /\ f[k] \in Text
    <3>1. j \in 1 .. Len(u) /\ k \in 0 .. n
      BY <1>1, <2>1
    <3>2. f[j] = f[j - 1] \o u[j]
      BY <1>4, <3>1 DEF Joins
    <3>3. f[k] \in Text
      BY <3>1
    <3> QED
      BY <2>1, <3>2, <3>3
  <2>3. PICK r \in 0 .. c : r = rank(k) /\ f[k] = h[r]
    BY <1>7
  <2>4. {i \in keep : i < j} = {i \in keep : i <= k}
    <3>1. \A i \in keep : i < j <=> i <= k
      BY <1>e, <2>1
    <3> QED
      BY <3>1
  <2>5. Rank(keep, j) = r
    BY <2>3, <2>4 DEF Rank
  <2>6. CASE j \in keep
    <3>1. rank(j) = r + 1
      <4>1. Cardinality({i \in keep : i <= j}) = Rank(keep, j) + 1
        BY <1>1, <2>6, RankIncludes
      <4> QED
        BY <2>5, <4>1
    <3>2. r + 1 \in 1 .. c /\ Ascending(keep)[r + 1] = j
      BY <1>2, <1>3, <2>5, <2>6
    <3>3. kept[r + 1] = u[j]
      BY <1>3, <3>2
    <3>4. h[r + 1] = h[r] \o kept[r + 1]
      <4>1. PICK q \in 1 .. Len(kept) : q = r + 1 /\ q - 1 = r
        BY <1>3, <3>2
      <4> QED
        BY <1>5, <4>1 DEF Joins
    <3> HIDE DEF rank
    <3>5. f[j] = h[rank(j)] /\ rank(j) \in 0 .. c
      BY <2>2, <2>3, <3>1, <3>2, <3>3, <3>4
    <3> QED
      BY <2>1, <3>5
  <2>7. CASE j \notin keep
    <3>1. {i \in keep : i <= j} = {i \in keep : i <= k}
      <4>1. \A i \in keep : i # j
        BY <2>7
      <4>2. \A i \in keep : i <= j <=> i <= k
        BY <1>e, <2>1, <4>1
      <4> QED
        BY <4>2
    <3>2. rank(j) = r
      BY <2>3, <3>1
    <3>3. f[k] \o <<>> = f[k]
      BY <2>2, TextAlone
    <3> HIDE DEF rank
    <3>4. f[j] = h[rank(j)] /\ rank(j) \in 0 .. c
      BY <1>1, <2>2, <2>3, <2>7, <3>2, <3>3
    <3> QED
      BY <2>1, <3>4
  <2> QED
    BY <2>6, <2>7
<1>8. n \in P
  <2> HIDE DEF P
  <2>1. \A k \in 0 .. n : k \in P
    BY <1>6, <1>7, Upwards
  <2> QED
    BY <2>1
<1>9. rank(n) = c
  <2>1. {j \in keep : j <= n} = keep
    BY <1>e
  <2> QED
    BY <1>3, <2>1
<1>10. f[n] = h[rank(n)]
  BY <1>8
<1> HIDE DEF rank
<1> QED
  BY <1>4, <1>5, <1>9, <1>10

TextsOf(cows) == [k \in DOMAIN cows |-> cows[k].text]
SpellsOf(s) == [k \in DOMAIN s |-> Spell(s[k])]

LEMMA SpellsOfIs ==
  ASSUME NEW s \in Seq(Text)
  PROVE  /\ SpellsOf(s) \in Seq(Text) /\ Len(SpellsOf(s)) = Len(s)
         /\ \A k \in 1 .. Len(s) : SpellsOf(s)[k] = Spell(s[k])
         /\ FlatSpell(s) = FlattenSeq(SpellsOf(s))
<1>1. PICK n \in Nat : n = Len(s) /\ DOMAIN s = 1 .. n /\ \A k \in 1 .. n : s[k] \in Text
  OBVIOUS
<1>2. \A k \in 1 .. n : Spell(s[k]) \in Text /\ Spelling[s[k]] = Spell(s[k])
  BY <1>1, ReadingIs, SpellingIs
<1>3. SpellsOf(s) = [k \in 1 .. n |-> Spell(s[k])]
  BY <1>1 DEF SpellsOf
<1>4. SpellsOf(s) \in Seq(Text) /\ Len(SpellsOf(s)) = n
  BY <1>2, <1>3
<1>5. [k \in DOMAIN s |-> Spelling[s[k]]] = SpellsOf(s)
  BY <1>1, <1>2 DEF SpellsOf
<1> QED
  BY <1>1, <1>3, <1>4, <1>5 DEF FlatSpell, Flat

LEMMA TextsOfAre ==
  ASSUME NEW length \in Nat, NEW cows \in Seq(Cows(length))
  PROVE  /\ TextsOf(cows) \in Seq(Text) /\ Len(TextsOf(cows)) = Len(cows)
         /\ \A k \in 1 .. Len(cows) : TextsOf(cows)[k] = cows[k].text /\ cows[k].text \in Text
<1>1. PICK n \in Nat : n = Len(cows) /\ DOMAIN cows = 1 .. n /\ \A k \in 1 .. n : cows[k] \in Cows(length)
  OBVIOUS
<1>2. \A k \in 1 .. n : cows[k].text \in Text
  BY <1>1 DEF Cows
<1>3. TextsOf(cows) = [k \in 1 .. n |-> cows[k].text]
  BY <1>1 DEF TextsOf
<1> QED
  BY <1>1, <1>2, <1>3

LEMMA TrimmedSpells ==
  ASSUME NEW length \in Nat, NEW cows \in Seq(Cows(length)), NEW source \in Text,
         \A k \in 1 .. Len(cows) : Shown(cows[k], source)
  PROVE  /\ \A i \in 1 .. Len(Trimmed(cows)) :
              /\ Shown(Trimmed(cows)[i], source) /\ Trimmed(cows)[i].text # <<>>
              /\ \E k \in 1 .. Len(cows) : TrimmedTo(Trimmed(cows)[i].text, cows[k].text)
         /\ FlatSpell(TextsOf(Trimmed(cows))) = FlatSpell(TextsOf(cows))
<1>1. PICK n \in Nat : n = Len(cows) /\ DOMAIN cows = 1 .. n /\ \A k \in 1 .. n : cows[k] \in Cows(length)
  OBVIOUS
<1> DEFINE trimmed == [k \in DOMAIN cows |-> TrimInPlace(cows[k])]
           keep == {k \in DOMAIN cows : trimmed[k].text # <<>>}
           new == [i \in DOMAIN Ascending(keep) |-> trimmed[Ascending(keep)[i]]]
<1>2. Trimmed(cows) = new
  BY DEF Trimmed
<1>3. \A k \in 1 .. n : /\ trimmed[k] = TrimInPlace(cows[k])
                        /\ TrimmedTo(trimmed[k].text, cows[k].text) /\ Shown(trimmed[k], source)
  BY <1>1, TrimmedShows
<1>4. keep \in SUBSET (1 .. n) /\ \A k \in 1 .. n : k \in keep <=> trimmed[k].text # <<>>
  BY <1>1
<1> HIDE DEF trimmed, keep
<1>5. PICK c \in Nat : /\ c = Cardinality(keep) /\ DOMAIN Ascending(keep) = 1 .. c
                       /\ \A i \in 1 .. c : Ascending(keep)[i] \in keep
  BY <1>4, AscendingLists
<1>6. /\ DOMAIN new = 1 .. c
      /\ \A i \in 1 .. c : Ascending(keep)[i] \in 1 .. n /\ new[i] = trimmed[Ascending(keep)[i]]
  BY <1>4, <1>5
<1> HIDE DEF new
<1>7. new \in Seq(Cows(length)) /\ Len(new) = c
  <2>1. new \in Seq(Cows(length))
    BY <1>2, TrimmedAreCows
  <2> QED
    BY <1>6, <2>1
<1>8. ASSUME NEW i \in 1 .. c
      PROVE  /\ Shown(new[i], source) /\ new[i].text # <<>>
             /\ \E k \in 1 .. n : TrimmedTo(new[i].text, cows[k].text)
  <2>1. PICK k \in 1 .. n : k = Ascending(keep)[i] /\ k \in keep /\ new[i] = trimmed[k]
    BY <1>5, <1>6
  <2> QED
    BY <1>3, <1>4, <2>1
<1>9. PICK u : u = SpellsOf(TextsOf(cows))
  OBVIOUS
<1>10. /\ u \in Seq(Text) /\ Len(u) = n /\ FlatSpell(TextsOf(cows)) = FlattenSeq(u)
       /\ \A k \in 1 .. n : u[k] = Spell(cows[k].text)
  BY <1>1, <1>9, TextsOfAre, SpellsOfIs
<1>11. PICK kept : kept = SpellsOf(TextsOf(new))
  OBVIOUS
<1>12. /\ kept \in Seq(Text) /\ Len(kept) = c /\ FlatSpell(TextsOf(new)) = FlattenSeq(kept)
       /\ \A i \in 1 .. c : kept[i] = Spell(new[i].text)
  BY <1>7, <1>11, TextsOfAre, SpellsOfIs
<1>13. \A k \in 1 .. n : u[k] = Spell(trimmed[k].text)
  BY <1>3, <1>10 DEF TrimmedTo
<1>14. \A k \in 1 .. Len(u) : k \notin keep => u[k] = <<>>
  BY <1>4, <1>10, <1>13, ReadEmpty
<1>15. \A i \in 1 .. Len(kept) : kept[i] = u[Ascending(keep)[i]]
  BY <1>6, <1>12, <1>13
<1>16. FlattenSeq(kept) = FlattenSeq(u)
  <2>1. keep \in SUBSET (1 .. Len(u)) /\ Len(kept) = Cardinality(keep)
    BY <1>4, <1>5, <1>10, <1>12
  <2> QED
    BY <1>10, <1>12, <1>14, <1>15, <2>1, KeptFlattened
<1> QED
  BY <1>1, <1>2, <1>7, <1>8, <1>10, <1>12, <1>16

-----------------------------------------------------------------------------
(* Sentences.                                                              *)

\* A sentence is what trimming leaves of a part of a paragraph.  No part has
\* a carriage return, the separator of sentences, or a tabulator but as its
\* last symbol: taking spaces and line feeds from a sentence takes all white
\* space from it.
LEMMA SentenceSpells ==
  ASSUME NEW part \in Seq(Crless), TabLast(part), ~Occurs(Mark, part),
         NEW m, TrimmedTo(m, part)
  PROVE  Without(m, Separators) = Spell(part)
<1>1. part \in Text /\ m \in Text
  BY PlainIsText DEF TrimmedTo, Text
<1>2. PICK n \in Nat : n = Len(part) /\ DOMAIN part = 1 .. n /\ \A k \in 1 .. n : part[k] \in Crless
  OBVIOUS
<1>3. PICK l \in Nat : l = Len(m) /\ DOMAIN m = 1 .. l
  BY <1>1 DEF Text
<1>4. PICK a \in Nat : a + l <= n /\ \A k \in 1 .. l : m[k] = part[a + k]
  BY <1>2, <1>3 DEF TrimmedTo
<1>5. ASSUME NEW k \in 1 .. l
      PROVE  m[k] \notin {"cr", "tab"}
  <2>1. PICK j \in 1 .. n : j = a + k /\ m[k] = part[j]
    BY <1>4
  <2>2. part[j] # "cr"
    BY <1>2 DEF Crless
  <2>3. CASE part[j] = "tab"
    <3>1. j = n
      BY <1>2, <2>3 DEF TabLast
    <3>2. k = l
      BY <1>4, <2>1, <3>1
    <3>3. m[l] \notin White
      <4>1. m # <<>>
        BY <1>3
      <4> QED
        BY <1>3, <4>1 DEF TrimmedTo
    <3> QED
      BY <2>1, <2>3, <3>2, <3>3 DEF White
  <2> QED
    BY <2>1, <2>2, <2>3
<1>6. ~Occurs(Mark, m)
  <2> SUFFICES ASSUME NEW i \in 1 .. l, StandsAt(Mark, i, m)
               PROVE  FALSE
    BY <1>3 DEF Occurs
  <2>1. i + 3 <= l /\ \A k \in 0 .. 3 : m[i + k] = "@"
    BY <1>1, <1>3, MarkAt
  <2>2. PICK j \in 1 .. n : j = a + i /\ j + 3 <= n
    BY <1>4, <2>1
  <2>3. \A k \in 0 .. 3 : part[j + k] = "@"
    <3> TAKE k \in 0 .. 3
    <3>1. PICK q \in 1 .. l : q = i + k
      BY <2>1
    <3>2. a + q = j + k
      BY <2>2, <3>1
    <3> QED
      BY <1>4, <2>1, <3>1, <3>2
  <2>4. StandsAt(Mark, j, part)
    <3>1. part \in Text
      BY <1>1
    <3>2. j \in Nat /\ j + 3 <= Len(part)
      BY <1>2, <2>2
    <3> QED
      BY <2>3, <3>1, <3>2, MarkAt
  <2> QED
    BY <1>2, <2>4 DEF Occurs
<1>7. Spell(m) = Without(m, White)
  BY <1>1, <1>6, SpellsUnmarked
<1>8. Without(m, White) = Without(m, Separators)
  <2>1. \A k \in 1 .. l : m[k] \in White <=> m[k] \in Separators
    BY <1>5 DEF White, Separators
  <2>2. [i \in DOMAIN m |-> IF m[i] \in White THEN <<>> ELSE <<m[i]>>]
          = [i \in DOMAIN m |-> IF m[i] \in Separators THEN <<>> ELSE <<m[i]>>]
    BY <1>3, <2>1
  <2> QED
    BY <2>2 DEF Without
<1> QED
  BY <1>7, <1>8 DEF TrimmedTo

\* Cleaning keeps what a sentence says, and what is still borrowed is still
\* where it was.
LEMMA CleanedShows ==
  ASSUME NEW length \in Nat, NEW cow \in Cows(length), NEW source \in Text, Shown(cow, source)
  PROVE  /\ Shown(Cleaned(cow), source)
         /\ Without(Cleaned(cow).text, {"sp"}) = Without(cow.text, Separators)
<1>1. cow.text \in Text
  BY DEF Cows
<1>2. /\ JoinedTokens(cow.text) \in Text
      /\ Without(JoinedTokens(cow.text), {"sp"}) = Without(cow.text, Separators)
  BY <1>1, JoinedSpell
<1>3. CASE JoinedTokens(cow.text) = cow.text
  BY <1>2, <1>3 DEF Cleaned
<1>4. CASE JoinedTokens(cow.text) # cow.text
  <2>1. Cleaned(cow) = Owned(JoinedTokens(cow.text))
    BY <1>4 DEF Cleaned
  <2>2. Cleaned(cow).owned /\ Cleaned(cow).text = JoinedTokens(cow.text)
    BY <2>1 DEF Owned
  <2> QED
    BY <1>2, <2>2 DEF Shown
<1> QED
  BY <1>3, <1>4

-----------------------------------------------------------------------------
(* What the entries of a page say.                                         *)

Str(strs, arc) == SubSeq(strs[arc.base], arc.from + 1, arc.to)
StringsOf(strs, arcs) == [k \in DOMAIN arcs |-> Str(strs, arcs[k])]

LEMMA StrIs ==
  ASSUME NEW strs \in Seq(Text), NEW arc \in Ranges(strs)
  PROVE  Str(strs, arc) \in Text
<1>1. /\ arc.base \in 1 .. Len(strs) /\ arc.from \in Nat /\ arc.to \in Nat
      /\ arc.from <= arc.to /\ arc.to <= Len(strs[arc.base])
  BY DEF Ranges
<1>2. PICK s \in Text : s = strs[arc.base]
  BY <1>1
<1>3. PICK L \in Nat : L = Len(s)
  BY DEF Text
<1>4. PICK i, q \in Nat : i = arc.from + 1 /\ q = arc.to + 1 /\ q - 1 = arc.to
  BY <1>1
<1>5. i \in 1 .. Len(s) + 1 /\ i <= q /\ q <= Len(s) + 1
  <2>1. PICK f, t \in Nat : f = arc.from /\ t = arc.to /\ f <= t
    BY <1>1
  <2>2. t <= L
    BY <1>1, <1>2, <1>3, <2>1
  <2>3. i \in 1 .. L + 1 /\ i <= q /\ q <= L + 1
    BY <1>4, <2>1, <2>2
  <2> QED
    BY <1>3, <2>3
<1>6. SubSeq(s, i, q - 1) \in Text
  BY <1>5, SliceIs
<1> QED
  BY <1>2, <1>4, <1>6 DEF Str

LEMMA StringsOfIs ==
  ASSUME NEW strs \in Seq(Text), NEW arcs \in Seq(Ranges(strs))
  PROVE  /\ StringsOf(strs, arcs) \in Seq(Text) /\ Len(StringsOf(strs, arcs)) = Len(arcs)
         /\ \A k \in 1 .. Len(arcs) : StringsOf(strs, arcs)[k] = Str(strs, arcs[k])
<1>1. PICK n \in Nat : n = Len(arcs) /\ DOMAIN arcs = 1 .. n /\ \A k \in 1 .. n : arcs[k] \in Ranges(strs)
  OBVIOUS
<1>2. \A k \in 1 .. n : Str(strs, arcs[k]) \in Text
  BY <1>1, StrIs
<1>3. StringsOf(strs, arcs) = [k \in 1 .. n |-> Str(strs, arcs[k])]
  BY <1>1 DEF StringsOf
<1> QED
  BY <1>1, <1>2, <1>3

\* New strings change nothing for the ranges of the old ones.
LEMMA StringsStay ==
  ASSUME NEW old \in Seq(Text), NEW new \in Seq(Text), NEW arcs \in Seq(Ranges(old))
  PROVE  StringsOf(old \o new, arcs) = StringsOf(old, arcs)
<1>1. PICK m \in Nat : m = Len(old) /\ \A k \in 1 .. m : (old \o new)[k] = old[k]
  <2>1. \A k \in 1 .. Len(old) : (old \o new)[k] = old[k]
    OBVIOUS
  <2> QED
    BY <2>1
<1>2. \A arc \in Ranges(old) : Str(old \o new, arc) = Str(old, arc)
  <2> TAKE arc \in Ranges(old)
  <2>1. arc.base \in 1 .. m
    BY <1>1 DEF Ranges
  <2> QED
    BY <1>1, <2>1 DEF Str
<1>3. \A k \in DOMAIN arcs : arcs[k] \in Ranges(old)
  OBVIOUS
<1> QED
  BY <1>2, <1>3 DEF StringsOf

LEMMA StringsJoin ==
  ASSUME NEW strs \in Seq(Text), NEW a \in Seq(Ranges(strs)), NEW b \in Seq(Ranges(strs))
  PROVE  /\ a \o b \in Seq(Ranges(strs))
         /\ StringsOf(strs, a \o b) = StringsOf(strs, a) \o StringsOf(strs, b)
<1> DEFINE R == Ranges(strs)
           F == [arc \in R |-> Str(strs, arc)]
<1>1. PICK u, v, w : u = StringsOf(strs, a) /\ v = StringsOf(strs, b) /\ w = StringsOf(strs, a \o b)
  OBVIOUS
<1>2. /\ u \in Seq(Text) /\ Len(u) = Len(a) /\ \A k \in 1 .. Len(a) : u[k] = Str(strs, a[k])
      /\ v \in Seq(Text) /\ Len(v) = Len(b) /\ \A k \in 1 .. Len(b) : v[k] = Str(strs, b[k])
  BY <1>1, StringsOfIs
<1>3. \A c \in Seq(R) : \A k \in 1 .. Len(c) : Str(strs, c[k]) = F[c[k]]
  <2> TAKE c \in Seq(R)
  <2> TAKE k \in 1 .. Len(c)
  <2>1. c[k] \in R
    <3> HIDE DEF R
    <3> QED
      OBVIOUS
  <2> QED
    BY <2>1
<1>4. a \in Seq(R) /\ b \in Seq(R)
  OBVIOUS
<1> HIDE DEF R, F
<1>5. Maps(F, a, u) /\ Maps(F, b, v)
  BY <1>2, <1>3, <1>4 DEF Maps
<1>6. a \o b \in Seq(R) /\ u \o v \in Seq(Text) /\ Maps(F, a \o b, u \o v)
  BY <1>2, <1>4, <1>5, JoinMaps
<1>7. a \o b \in Seq(Ranges(strs))
  BY <1>6 DEF R
<1>8. /\ w \in Seq(Text) /\ Len(w) = Len(a \o b)
      /\ \A k \in 1 .. Len(a \o b) : w[k] = Str(strs, (a \o b)[k])
  BY <1>1, <1>7, StringsOfIs
<1>9. PICK c \in Seq(R) : c = a \o b
  BY <1>6
<1>10. /\ Len(u \o v) = Len(c) /\ \A k \in 1 .. Len(c) : (u \o v)[k] = F[c[k]]
  BY <1>6, <1>9 DEF Maps
<1>11. \A k \in 1 .. Len(c) : w[k] = F[c[k]]
  BY <1>3, <1>8, <1>9
<1>12. w = u \o v
  <2>1. PICK x \in Seq(Text) : x = u \o v
    BY <1>6
  <2>2. w \in Seq(Text) /\ Len(w) = Len(x)
    BY <1>8, <1>9, <1>10, <2>1
  <2>3. \A k \in 1 .. Len(w) : w[k] = x[k]
    BY <1>8, <1>9, <1>10, <1>11, <2>1
  <2> QED
    BY <2>1, <2>2, <2>3, SeqEqual
<1> QED
  BY <1>1, <1>7, <1>12

\* What is reattached says what it said.
LEMMA ReattachedShows ==
  ASSUME strings \in Seq(Text), NEW parent \in Ranges(strings),
         NEW cows \in Seq(Cows(parent.to - parent.from)),
         \A k \in 1 .. Len(cows) : Shown(cows[k], AsStr(parent))
  PROVE  StringsOf(strings \o NewStrings(cows), Reattached(parent, cows)) = TextsOf(cows)
<1>1. /\ parent.base \in 1 .. Len(strings) /\ parent.from \in Nat /\ parent.to \in Nat
      /\ parent.from <= parent.to /\ parent.to <= Len(strings[parent.base])
  BY DEF Ranges
<1>2. PICK F, T, m, n \in Nat : /\ F = parent.from /\ T = parent.to /\ F <= T
                                /\ m = Len(strings) /\ n = Len(cows) /\ DOMAIN cows = 1 .. n
  BY <1>1
<1>3. PICK D \in Nat : D = T - F
  BY <1>2
<1>4. cows \in Seq(Cows(D))
  BY <1>2, <1>3
<1>5. PICK new : new = NewStrings(cows)
  OBVIOUS
<1>6. /\ new \in Seq(Text)
      /\ \A k \in 1 .. n : cows[k].owned => /\ OwnedUpTo(cows, k) \in 1 .. Len(new)
                                            /\ new[OwnedUpTo(cows, k)] = cows[k].text
  BY <1>2, <1>4, <1>5, NewStringsAre
<1>7. PICK l \in Nat : l = Len(new)
  BY <1>6
<1>8. PICK both : both = strings \o new
  OBVIOUS
<1>9. /\ \A k \in 1 .. m : both[k] = strings[k]
      /\ \A j \in 1 .. l : both[m + j] = new[j]
  BY <1>2, <1>6, <1>7, <1>8
<1>10. \A k \in 1 .. n : /\ cows[k].from \in Nat /\ cows[k].text \in Text
                         /\ Len(cows[k].text) \in Nat
  BY <1>2, <1>4 DEF Cows, Text
<1>11. ASSUME NEW k \in 1 .. n, cows[k].owned
       PROVE  Str(both, NewSource(m + OwnedUpTo(cows, k), cows[k].text)) = cows[k].text
  <2>1. PICK j \in 1 .. l : j = OwnedUpTo(cows, k) /\ new[j] = cows[k].text
    BY <1>6, <1>7, <1>11
  <2>2. PICK t \in Text : t = cows[k].text
    BY <1>10
  <2>3. both[m + j] = t
    BY <1>9, <2>1, <2>2
  <2>4. SubSeq(t, 1, Len(t)) = t
    <3>1. Rest(t, 1) = t
      BY RestIs
    <3> QED
      BY <3>1 DEF Rest
  <2>5. Str(both, [base |-> m + j, from |-> 0, to |-> Len(t)]) = SubSeq(t, 1, Len(t))
    BY <2>3 DEF Str
  <2> QED
    BY <2>1, <2>2, <2>4, <2>5 DEF NewSource, ArcSubstring
<1>12. ASSUME NEW k \in 1 .. n, ~cows[k].owned
       PROVE  Str(both, ArcSubstring(parent.base, F + cows[k].from, (F + cows[k].from) + Len(cows[k].text)))
                = cows[k].text
  <2>1. PICK s \in Text : s = strings[parent.base] /\ s = both[parent.base]
    BY <1>1, <1>2, <1>9
  <2>2. PICK t \in Text, a \in Nat : t = cows[k].text /\ a = cows[k].from
    BY <1>10
  <2>3. StandsAt(t, a + 1, AsStr(parent))
    BY <1>2, <1>12, <2>2 DEF Shown
  <2>4. AsStr(parent) = SubSeq(s, F + 1, T)
    BY <1>2, <2>1 DEF AsStr
  <2>5. StandsAt(t, a + 1, SubSeq(s, F + 1, T))
    BY <2>3, <2>4
  <2>6. T <= Len(s)
    BY <1>1, <1>2, <2>1
  <2>7. SubSeq(s, (F + a) + 1, (F + a) + Len(t)) = t
    BY <1>2, <2>5, <2>6, RangeShows
  <2>8. Str(both, [base |-> parent.base, from |-> F + a, to |-> (F + a) + Len(t)])
          = SubSeq(s, (F + a) + 1, (F + a) + Len(t))
    BY <2>1 DEF Str
  <2> QED
    BY <2>2, <2>7, <2>8 DEF ArcSubstring
<1>13. Reattached(parent, cows) =
         [k \in 1 .. n |->
            IF cows[k].owned THEN NewSource(m + OwnedUpTo(cows, k), cows[k].text)
            ELSE ArcSubstring(parent.base, F + cows[k].from, (F + cows[k].from) + Len(cows[k].text))]
  BY <1>2 DEF Reattached
<1>14. PICK r : r = Reattached(parent, cows)
  OBVIOUS
<1>15. /\ DOMAIN r = 1 .. n
       /\ \A k \in 1 .. n : Str(both, r[k]) = cows[k].text
  <2>1. DOMAIN r = 1 .. n
    BY <1>13, <1>14
  <2>2. ASSUME NEW k \in 1 .. n
        PROVE  Str(both, r[k]) = cows[k].text
    <3>1. CASE cows[k].owned
      <4>1. r[k] = NewSource(m + OwnedUpTo(cows, k), cows[k].text)
        BY <1>13, <1>14, <3>1
      <4> QED
        BY <1>11, <3>1, <4>1
    <3>2. CASE ~cows[k].owned
      <4>1. r[k] = ArcSubstring(parent.base, F + cows[k].from, (F + cows[k].from) + Len(cows[k].text))
        BY <1>13, <1>14, <3>2
      <4> QED
        BY <1>12, <3>2, <4>1
    <3> QED
      BY <3>1, <3>2
  <2> QED
    BY <2>1, <2>2
<1>16. StringsOf(both, r) = TextsOf(cows)
  BY <1>2, <1>15 DEF StringsOf, TextsOf
<1> QED
  BY <1>5, <1>8, <1>14, <1>16

\* The words of sentences: what they say without the spaces.
Unspaced == [t \in Text |-> Without(t, {"sp"})]
Spoken(s) == Flat(Unspaced, s)

LEMMA UnspacedIs ==
  Unspaced \in [Text -> Text] /\ \A t \in Text : Unspaced[t] = Without(t, {"sp"})
<1>1. \A t \in Text : Without(t, {"sp"}) \in Text
  BY WithoutIs
<1> QED
  BY <1>1 DEF Unspaced

LEMMA SpokenIs ==
  /\ Spoken(<<>>) = <<>>
  /\ \A s, t \in Seq(Text) : Spoken(s \o t) = Spoken(s) \o Spoken(t)
<1>1. Unspaced \in [Text -> Seq(Symbol)]
  BY UnspacedIs DEF Text
<1>2. Spoken(<<>>) = <<>>
  BY FlatEmpty DEF Spoken
<1>3. ASSUME NEW s \in Seq(Text), NEW t \in Seq(Text)
      PROVE  Spoken(s \o t) = Spoken(s) \o Spoken(t)
  BY <1>1, FlatJoin DEF Spoken
<1> QED
  BY <1>2, <1>3

LEMMA SpokenSpells ==
  ASSUME NEW s \in Seq(Text), NEW u \in Seq(Text), Len(u) = Len(s),
         \A k \in 1 .. Len(s) : Without(s[k], {"sp"}) = Spell(u[k])
  PROVE  Spoken(s) = FlatSpell(u)
<1>1. PICK n \in Nat : /\ n = Len(s) /\ DOMAIN s = 1 .. n /\ \A k \in 1 .. n : s[k] \in Text
                       /\ DOMAIN u = 1 .. n /\ \A k \in 1 .. n : u[k] \in Text
  OBVIOUS
<1>2. \A k \in 1 .. n : Unspaced[s[k]] = Spelling[u[k]]
  BY <1>1, UnspacedIs, SpellingIs
<1>3. [k \in DOMAIN s |-> Unspaced[s[k]]] = [k \in DOMAIN u |-> Spelling[u[k]]]
  BY <1>1, <1>2
<1> QED
  BY <1>3 DEF Spoken, FlatSpell, Flat

LEMMA TrimmedCrless ==
  ASSUME NEW x \in Seq(Crless), NEW m, TrimmedTo(m, x)
  PROVE  m \in Seq(Crless)
<1>1. PICK n \in Nat : n = Len(x) /\ \A k \in 1 .. n : x[k] \in Crless
  OBVIOUS
<1>2. PICK l \in Nat : l = Len(m) /\ DOMAIN m = 1 .. l /\ m = [k \in 1 .. l |-> m[k]]
  <2>1. m \in Seq(Symbol)
    BY DEF TrimmedTo, Text
  <2> QED
    BY <2>1
<1>3. PICK a \in Nat : a + l <= n /\ \A k \in 1 .. l : m[k] = x[a + k]
  BY <1>1, <1>2 DEF TrimmedTo
<1>4. \A k \in 1 .. l : m[k] \in Crless
  <2> TAKE k \in 1 .. l
  <2>1. a + k \in 1 .. n
    BY <1>3
  <2> QED
    BY <1>1, <1>3, <2>1
<1> DEFINE S == Crless
<1>5. \A k \in 1 .. l : m[k] \in S
  BY <1>4
<1> HIDE DEF S
<1>6. m \in Seq(S)
  <2>1. m \in [1 .. l -> S]
    BY <1>2, <1>5
  <2> QED
    BY <2>1
<1> QED
  BY <1>6 DEF S

LEMMA ReborrowedTexts ==
  ASSUME NEW parts \in Seq(Text), NEW source \in Text
  PROVE  TextsOf(Reborrowed(parts, source)) = parts
<1>1. PICK r \in Seq(Cows(Len(source))) :
        /\ r = Reborrowed(parts, source) /\ Len(r) = Len(parts)
        /\ \A k \in 1 .. Len(parts) : r[k].text = parts[k]
  BY ReborrowedShow
<1>2. Len(source) \in Nat
  BY DEF Text
<1>3. /\ TextsOf(r) \in Seq(Text) /\ Len(TextsOf(r)) = Len(parts)
      /\ \A k \in 1 .. Len(parts) : TextsOf(r)[k] = parts[k]
  BY <1>1, <1>2, TextsOfAre
<1> QED
  BY <1>1, <1>3, SeqEqual

\* What the paragraphs of a page say, and the sentences of a paragraph.
LEMMA ParagraphsSay ==
  ASSUME Sound
  PROVE  /\ ParagraphCows \in Seq(Cows(Len(RevisionText)))
         /\ \A k \in 1 .. Len(ParagraphCows) : Shown(ParagraphCows[k], RevisionText)
         /\ TextsOf(ParagraphCows) \in Seq(Seq(Crless))
         /\ FlatSpell(TextsOf(ParagraphCows)) = Spell(RevisionText)
<1>1. PICK t \in Text : t = RevisionText
  BY RevisionIsRange
<1>2. PICK parts : parts = ParagraphsNaive(t)
  OBVIOUS
<1>3. parts \in Seq(Seq(Crless)) /\ parts \in Seq(Text) /\ FlatSpell(parts) = Spell(t)
  BY <1>2, ParagraphsClean
<1>4. ParagraphSplit.parts = parts
  <2>1. ParagraphSplit = [parts |-> ParagraphsNaive(t), buffers |-> Holding(<<>>)]
    BY <1>1, ParagraphsAgree DEF ParagraphSplit, Sound, Clean
  <2> QED
    BY <1>2, <2>1
<1>5. PICK length \in Nat : length = Len(t)
  BY DEF Text
<1>6. PICK r \in Seq(Cows(length)) :
        /\ r = Reborrowed(parts, t) /\ Len(r) = Len(parts)
        /\ \A k \in 1 .. Len(parts) : r[k].text = parts[k] /\ Shown(r[k], t)
  BY <1>3, <1>5, ReborrowedShow
<1>7. TextsOf(r) = parts
  BY <1>3, <1>6, ReborrowedTexts
<1>8. ParagraphCows = Trimmed(r)
  BY <1>1, <1>4, <1>6 DEF ParagraphCows
<1>9. PICK cows \in Seq(Cows(length)) : cows = ParagraphCows /\ cows = Trimmed(r)
  BY <1>8, TrimmedAreCows
<1>10. \A k \in 1 .. Len(r) : Shown(r[k], t)
  BY <1>6
<1>11. /\ \A i \in 1 .. Len(Trimmed(r)) :
            /\ Shown(Trimmed(r)[i], t)
            /\ \E k \in 1 .. Len(r) : TrimmedTo(Trimmed(r)[i].text, r[k].text)
       /\ FlatSpell(TextsOf(Trimmed(r))) = FlatSpell(TextsOf(r))
  BY <1>10, TrimmedSpells
<1>12. \A i \in 1 .. Len(cows) :
         /\ Shown(cows[i], t) /\ \E k \in 1 .. Len(parts) : TrimmedTo(cows[i].text, parts[k])
  BY <1>6, <1>9, <1>11
<1>13. FlatSpell(TextsOf(cows)) = Spell(t)
  BY <1>3, <1>7, <1>9, <1>11
<1>14. TextsOf(cows) \in Seq(Seq(Crless))
  <2>1. PICK n \in Nat : n = Len(cows) /\ DOMAIN cows = 1 .. n
    OBVIOUS
  <2>2. \A k \in 1 .. Len(parts) : parts[k] \in Seq(Crless)
    BY <1>3
  <2>3. \A i \in 1 .. n : cows[i].text \in Seq(Crless)
    BY <1>12, <2>1, <2>2, TrimmedCrless
  <2>4. TextsOf(cows) = [i \in 1 .. n |-> cows[i].text]
    BY <2>1 DEF TextsOf
  <2> DEFINE S == Seq(Crless)
  <2>5. \A i \in 1 .. n : cows[i].text \in S
    BY <2>3
  <2> HIDE DEF S
  <2>6. TextsOf(cows) \in Seq(S)
    BY <2>4, <2>5
  <2> QED
    BY <2>6 DEF S
<1> QED
  BY <1>1, <1>5, <1>9, <1>12, <1>13, <1>14

LEMMA SentencesSay ==
  ASSUME Sound, ParagraphLeft, AsStr(ParagraphNow) \in Seq(Crless),
         NEW cows, cows = [k \in DOMAIN SentenceParts |-> Cleaned(SentenceParts[k])]
  PROVE  /\ cows \in Seq(Cows(Len(AsStr(ParagraphNow))))
         /\ \A k \in 1 .. Len(cows) : Shown(cows[k], AsStr(ParagraphNow))
         /\ Spoken(TextsOf(cows)) = Spell(AsStr(ParagraphNow))
<1>1. PICK t \in Text : t = AsStr(ParagraphNow)
  BY NextParagraphIsRange, RangeIsText
<1>2. PICK parts : parts = SentencesNaive(t)
  OBVIOUS
<1>3. /\ parts \in Seq(Seq(Crless)) /\ parts \in Seq(Text) /\ FlatSpell(parts) = Spell(t)
      /\ \A k \in 1 .. Len(parts) : ~Occurs(Mark, parts[k]) /\ TabLast(parts[k])
  BY <1>1, <1>2, SentencesClean
<1>4. SentenceSplit.parts = parts
  <2>1. SentenceSplit = [parts |-> SentencesNaive(t), buffers |-> Holding(<<>>)]
    BY <1>1, SentencesAgree DEF SentenceSplit, Sound, Clean
  <2> QED
    BY <1>2, <2>1
<1>5. PICK length \in Nat : length = Len(t)
  BY DEF Text
<1>6. PICK r \in Seq(Cows(length)) :
        /\ r = Reborrowed(parts, t) /\ Len(r) = Len(parts)
        /\ \A k \in 1 .. Len(parts) : r[k].text = parts[k] /\ Shown(r[k], t)
  BY <1>3, <1>5, ReborrowedShow
<1>7. TextsOf(r) = parts
  BY <1>3, <1>6, ReborrowedTexts
<1>8. SentenceParts = Trimmed(r)
  BY <1>1, <1>4, <1>6 DEF SentenceParts
<1>9. PICK s \in Seq(Cows(length)) : s = SentenceParts /\ s = Trimmed(r)
  BY <1>8, TrimmedAreCows
<1>10. \A k \in 1 .. Len(r) : Shown(r[k], t)
  BY <1>6
<1>11. /\ \A i \in 1 .. Len(Trimmed(r)) :
            /\ Shown(Trimmed(r)[i], t)
            /\ \E k \in 1 .. Len(r) : TrimmedTo(Trimmed(r)[i].text, r[k].text)
       /\ FlatSpell(TextsOf(Trimmed(r))) = FlatSpell(TextsOf(r))
  BY <1>10, TrimmedSpells
<1>12. \A i \in 1 .. Len(s) :
         /\ Shown(s[i], t) /\ \E k \in 1 .. Len(parts) : TrimmedTo(s[i].text, parts[k])
  BY <1>6, <1>9, <1>11
<1>13. FlatSpell(TextsOf(s)) = Spell(t)
  BY <1>3, <1>7, <1>9, <1>11
<1>14. PICK n \in Nat : n = Len(s) /\ DOMAIN s = 1 .. n /\ \A i \in 1 .. n : s[i] \in Cows(length)
  OBVIOUS
<1>15. ASSUME NEW i \in 1 .. n
       PROVE  /\ cows[i] = Cleaned(s[i]) /\ cows[i] \in Cows(length) /\ Shown(cows[i], t)
              /\ Without(cows[i].text, {"sp"}) = Spell(s[i].text)
  <2>1. cows[i] = Cleaned(s[i]) /\ s[i] \in Cows(length) /\ Shown(s[i], t)
    BY <1>9, <1>12, <1>14
  <2>2. PICK k \in 1 .. Len(parts) : TrimmedTo(s[i].text, parts[k])
    BY <1>12, <1>14
  <2>3. parts[k] \in Seq(Crless) /\ TabLast(parts[k]) /\ ~Occurs(Mark, parts[k])
    BY <1>3
  <2>4. Without(s[i].text, Separators) = Spell(parts[k])
    BY <2>2, <2>3, SentenceSpells
  <2>5. Spell(s[i].text) = Spell(parts[k])
    BY <2>2 DEF TrimmedTo
  <2>6. /\ Shown(Cleaned(s[i]), t) /\ Cleaned(s[i]) \in Cows(length)
        /\ Without(Cleaned(s[i]).text, {"sp"}) = Without(s[i].text, Separators)
    BY <2>1, CleanedShows, CleanedIsCow
  <2> QED
    BY <2>1, <2>4, <2>5, <2>6
<1>16. cows \in Seq(Cows(length)) /\ Len(cows) = n
  <2>1. DOMAIN cows = 1 .. n /\ cows = [i \in 1 .. n |-> cows[i]]
    BY <1>9, <1>14
  <2>2. \A i \in 1 .. n : cows[i] \in Cows(length)
    BY <1>15
  <2> QED
    BY <2>1, <2>2
<1>17. Spoken(TextsOf(cows)) = FlatSpell(TextsOf(s))
  <2>1. /\ TextsOf(s) \in Seq(Text) /\ Len(TextsOf(s)) = n
        /\ \A i \in 1 .. n : TextsOf(s)[i] = s[i].text
    BY <1>14, TextsOfAre
  <2>2. /\ TextsOf(cows) \in Seq(Text) /\ Len(TextsOf(cows)) = n
        /\ \A i \in 1 .. n : TextsOf(cows)[i] = cows[i].text
    BY <1>16, TextsOfAre
  <2>3. \A i \in 1 .. Len(TextsOf(cows)) : Without(TextsOf(cows)[i], {"sp"}) = Spell(TextsOf(s)[i])
    BY <1>15, <2>1, <2>2
  <2> QED
    BY <2>1, <2>2, <2>3, SpokenSpells
<1> QED
  BY <1>1, <1>5, <1>13, <1>15, <1>16, <1>17

JoinsIn(G, A) == \A a, b \in Seq(A) : Flat(G, a \o b) = Flat(G, a) \o Flat(G, b)

LEMMA FlatJoinsIn ==
  \A A : \A G \in [A -> Text] : JoinsIn(G, A)
BY FlatJoin DEF Text, JoinsIn

FlatEach(G, s, u) == Len(u) = Len(s) /\ \A k \in 1 .. Len(s) : u[k] = Flat(G, s[k])

LEMMA FlatFlattened ==
  ASSUME NEW A, NEW G, JoinsIn(G, A), NEW s \in Seq(Seq(A)), NEW u \in Seq(Text), FlatEach(G, s, u)
  PROVE  Flat(G, FlattenSeq(s)) = FlattenSeq(u)
<1>1. PICK n \in Nat : /\ n = Len(s) /\ n = Len(u)
                       /\ \A k \in 1 .. n : s[k] \in Seq(A) /\ u[k] \in Text
  <2> DEFINE B == Seq(A)
             W == Text
  <2>1. s \in Seq(B) /\ u \in Seq(W)
    OBVIOUS
  <2> HIDE DEF B, W
  <2>2. Len(s) \in Nat /\ \A k \in 1 .. Len(s) : s[k] \in B
    BY <2>1
  <2>3. \A k \in 1 .. Len(s) : u[k] \in W
    BY <2>1 DEF FlatEach
  <2> QED
    BY <2>2, <2>3 DEF B, W, FlatEach
<1>2. PICK f \in [0 .. n -> Seq(A)] : Joins(f, s) /\ FlattenSeq(s) = f[n]
  BY <1>1, Flattened
<1>3. PICK h \in [0 .. n -> Text] : Joins(h, u) /\ FlattenSeq(u) = h[n]
  BY <1>1, Flattened DEF Text
<1> DEFINE P == {k \in 0 .. n : Flat(G, f[k]) = h[k]}
<1>4. 0 \in P
  <2>1. f[0] = <<>> /\ h[0] = <<>>
    BY <1>2, <1>3 DEF Joins
  <2> QED
    BY <1>1, <2>1, FlatEmpty
<1>5. ASSUME NEW k \in 0 .. n - 1, k \in P
      PROVE  k + 1 \in P
  <2>1. PICK j \in 1 .. n : j = k + 1 /\ j - 1 = k /\ k \in 0 .. n /\ j \in 0 .. n
    OBVIOUS
  <2>2. f[j] = f[k] \o s[j] /\ h[j] = h[k] \o u[j]
    BY <1>1, <1>2, <1>3, <2>1 DEF Joins
  <2>3. f[k] \in Seq(A) /\ s[j] \in Seq(A)
    BY <1>1, <1>2, <2>1
  <2>4. Flat(G, f[k] \o s[j]) = Flat(G, f[k]) \o Flat(G, s[j])
    BY <2>3, Zenon DEF JoinsIn
  <2>5. Flat(G, f[k]) = h[k] /\ u[j] = Flat(G, s[j])
    BY <1>1, <1>5 DEF FlatEach
  <2>6. Flat(G, f[j]) = h[j]
    BY <2>2, <2>4, <2>5, Zenon
  <2> QED
    BY <2>1, <2>6
<1>6. n \in P
  <2> HIDE DEF P
  <2>1. \A k \in 0 .. n : k \in P
    BY <1>4, <1>5, Upwards
  <2> QED
    BY <2>1
<1> QED
  BY <1>2, <1>3, <1>6

\* What the ranges of the strings of a page say, one after the other.
Saying == [arc \in Ranges(strings) |-> AsStr(arc)]

LEMMA SayingIs ==
  ASSUME strings \in Seq(Text)
  PROVE  /\ Saying \in [Ranges(strings) -> Text]
         /\ \A arc \in Ranges(strings) : Saying[arc] = AsStr(arc) /\ AsStr(arc) \in Text
<1>1. \A arc \in Ranges(strings) : AsStr(arc) \in Text
  BY RangeIsText
<1> QED
  BY <1>1 DEF Saying

LEMMA SayingJoins ==
  ASSUME strings \in Seq(Text)
  PROVE  JoinsIn(Saying, Ranges(strings))
BY SayingIs, FlatJoinsIn, Zenon

\* Equal words say the same, whichever of them is kept.
LEMMA InternedSays ==
  ASSUME strings \in Seq(Text), NEW found \in Seq(Ranges(strings))
  PROVE  FlattenSeq([k \in DOMAIN Interned(found) |-> AsStr(Interned(found)[k])])
           = Flat(Saying, found)
<1> DEFINE R == Ranges(strings)
<1>1. PICK n \in Nat : n = Len(found) /\ DOMAIN found = 1 .. n /\ \A k \in 1 .. n : found[k] \in R
  OBVIOUS
<1> DEFINE same(k) == {j \in DOMAIN found : AsStr(found[j]) = AsStr(found[k])}
<1>2. ASSUME NEW k \in 1 .. n
      PROVE  AsStr(found[Min(same(k))]) = Saying[found[k]]
  <2>1. same(k) \in SUBSET Nat /\ same(k) # {}
    BY <1>1
  <2>2. Min(same(k)) \in same(k)
    <3> HIDE DEF same
    <3> QED
      BY <2>1, MinIs
  <2>3. AsStr(found[Min(same(k))]) = AsStr(found[k])
    BY <2>2
  <2>4. found[k] \in R
    BY <1>1
  <2>5. Saying[found[k]] = AsStr(found[k])
    BY <2>4, SayingIs
  <2> QED
    BY <2>3, <2>5
<1>3. Interned(found) = [k \in 1 .. n |-> found[Min(same(k))]]
  BY <1>1 DEF Interned
<1> HIDE DEF same
<1>4. [k \in DOMAIN Interned(found) |-> AsStr(Interned(found)[k])]
        = [k \in DOMAIN found |-> Saying[found[k]]]
  <2>1. PICK e : e = Interned(found)
    OBVIOUS
  <2>2. DOMAIN e = 1 .. n /\ \A k \in 1 .. n : e[k] = found[Min(same(k))]
    BY <1>3, <2>1
  <2>3. \A k \in 1 .. n : AsStr(e[k]) = Saying[found[k]]
    BY <1>2, <2>2
  <2>4. [k \in DOMAIN e |-> AsStr(e[k])] = [k \in DOMAIN found |-> Saying[found[k]]]
    BY <1>1, <2>2, <2>3
  <2> QED
    BY <2>1, <2>4
<1> QED
  BY <1>4 DEF Flat

\* The words of a sentence say what the sentence says without its spaces.
LEMMA WordsSay ==
  ASSUME strings \in Seq(Text), NEW sentence \in Ranges(strings)
  PROVE  Flat(Saying, WordsOf(sentence)) = Without(AsStr(sentence), {"sp"})
<1>1. PICK t \in Text : t = AsStr(sentence)
  BY RangeIsText
<1>2. PICK cut : cut = Cut(t, <<"sp">>)
  OBVIOUS
<1>3. cut \in Parts /\ FlattenSeq(cut) = Without(t, {"sp"})
  BY <1>2, CutAtSpaces
<1>4. PICK w \in Seq(Ranges(strings)) :
        w = WordsOf(sentence) /\ Len(w) = Len(cut) /\ \A k \in 1 .. Len(w) : AsStr(w[k]) = cut[k]
  BY <1>1, <1>2, WordsShow
<1> DEFINE R == Ranges(strings)
<1>5. PICK n \in Nat : n = Len(w) /\ DOMAIN w = 1 .. n /\ \A k \in 1 .. n : w[k] \in R
  OBVIOUS
<1>6. DOMAIN cut = 1 .. n /\ cut = [k \in 1 .. n |-> cut[k]]
  <2>1. cut \in Seq(Text)
    BY <1>3 DEF Parts
  <2> QED
    BY <1>4, <1>5, <2>1
<1>7. \A k \in 1 .. n : Saying[w[k]] = cut[k]
  BY <1>4, <1>5, SayingIs
<1>8. [k \in DOMAIN w |-> Saying[w[k]]] = cut
  BY <1>5, <1>6, <1>7
<1> QED
  BY <1>1, <1>3, <1>4, <1>8 DEF Flat

LEMMA SentencesSpoken ==
  ASSUME strings \in Seq(Text), NEW sentences \in Seq(Ranges(strings)),
         NEW found, found = [s \in DOMAIN sentences |-> WordsOf(sentences[s])]
  PROVE  /\ FlattenSeq(found) \in Seq(Ranges(strings))
         /\ Flat(Saying, FlattenSeq(found)) = Spoken(StringsOf(strings, sentences))
<1> DEFINE R == Ranges(strings)
<1>1. PICK n \in Nat : n = Len(sentences) /\ DOMAIN sentences = 1 .. n
                       /\ \A s \in 1 .. n : sentences[s] \in R
  OBVIOUS
<1>2. found \in Seq(Seq(R)) /\ Len(found) = n /\ DOMAIN found = 1 .. n
      /\ \A s \in 1 .. n : found[s] = WordsOf(sentences[s])
  <2>1. \A s \in 1 .. n : WordsOf(sentences[s]) \in Seq(R)
    <3> TAKE s \in 1 .. n
    <3>1. sentences[s] \in Ranges(strings)
      BY <1>1
    <3> QED
      BY <3>1, WordsShow
  <2> HIDE DEF R
  <2> QED
    BY <1>1, <2>1
<1>3. PICK said : said = StringsOf(strings, sentences)
  OBVIOUS
<1>4. /\ said \in Seq(Text) /\ Len(said) = n
      /\ \A s \in 1 .. n : said[s] = AsStr(sentences[s])
  <2>1. /\ said \in Seq(Text) /\ Len(said) = n
        /\ \A s \in 1 .. n : said[s] = Str(strings, sentences[s])
    BY <1>1, <1>3, StringsOfIs
  <2> QED
    BY <2>1 DEF Str, AsStr
<1> DEFINE u == [k \in DOMAIN said |-> Unspaced[said[k]]]
<1>5. /\ u \in Seq(Text) /\ Len(u) = n
      /\ \A s \in 1 .. n : u[s] = Flat(Saying, found[s])
  <2>1. Unspaced \in [Text -> Seq(Symbol)]
    BY UnspacedIs DEF Text
  <2>2. u \in Seq(Text) /\ Len(u) = Len(said)
    BY <1>4, <2>1, FlatItems DEF Text
  <2>3. ASSUME NEW s \in 1 .. n
        PROVE  u[s] = Flat(Saying, found[s])
    <3>1. said[s] \in Text /\ s \in DOMAIN said
      BY <1>4
    <3>2. u[s] = Without(said[s], {"sp"})
      BY <3>1, UnspacedIs
    <3>3. sentences[s] \in Ranges(strings)
      BY <1>1
    <3>4. Flat(Saying, WordsOf(sentences[s])) = Without(AsStr(sentences[s]), {"sp"})
      BY <3>3, WordsSay
    <3> QED
      BY <1>2, <1>4, <3>2, <3>4
  <2> HIDE DEF u
  <2> QED
    BY <1>4, <2>2, <2>3
<1>6. FlattenSeq(u) = Spoken(said)
  BY DEF Spoken, Flat
<1> HIDE DEF u
<1>7. JoinsIn(Saying, R)
  BY SayingJoins
<1> HIDE DEF R
<1>8. Flat(Saying, FlattenSeq(found)) = FlattenSeq(u)
  <2>1. PICK A, G, v, f : A = R /\ G = Saying /\ v = u /\ f = found
    OBVIOUS
  <2>2. JoinsIn(G, A)
    BY <1>7, <2>1
  <2>3. f \in Seq(Seq(A))
    BY <1>2, <2>1
  <2>4. v \in Seq(Text)
    BY <1>5, <2>1
  <2>5. FlatEach(G, f, v)
    BY <1>2, <1>5, <2>1 DEF FlatEach
  <2>6. Flat(G, FlattenSeq(f)) = FlattenSeq(v)
    BY <2>2, <2>3, <2>4, <2>5, FlatFlattened, Zenon
  <2> QED
    BY <2>1, <2>6
<1>9. FlattenSeq(found) \in Seq(R)
  BY <1>2, FlattenedType
<1> QED
  BY <1>3, <1>6, <1>8, <1>9 DEF R

-----------------------------------------------------------------------------
(* What is said as the page grows.                                         *)

LEMMA StrStays ==
  ASSUME NEW old \in Seq(Text), NEW new \in Seq(Text), NEW arc \in Ranges(old)
  PROVE  Str(old \o new, arc) = Str(old, arc)
<1>1. \A k \in 1 .. Len(old) : (old \o new)[k] = old[k]
  OBVIOUS
<1>2. arc.base \in 1 .. Len(old)
  BY DEF Ranges
<1> QED
  BY <1>1, <1>2 DEF Str

LEMMA PrefixGrows ==
  ASSUME NEW S, NEW s \in Seq(S)
  PROVE  /\ SubSeq(s, 1, 0) = <<>> /\ SubSeq(s, 1, Len(s)) = s
         /\ \A k \in 0 .. Len(s) - 1 : /\ SubSeq(s, 1, k) \in Seq(S) /\ s[k + 1] \in S
                                       /\ SubSeq(s, 1, k + 1) = SubSeq(s, 1, k) \o <<s[k + 1]>>
<1>1. PICK n \in Nat : n = Len(s) /\ DOMAIN s = 1 .. n /\ \A j \in 1 .. n : s[j] \in S
  OBVIOUS
<1>2. ASSUME NEW k \in 0 .. n
      PROVE  /\ SubSeq(s, 1, k) \in Seq(S) /\ Len(SubSeq(s, 1, k)) = k
             /\ \A j \in 1 .. k : SubSeq(s, 1, k)[j] = s[j]
  <2>1. 1 \in Int /\ k \in Int /\ \A j \in 1 .. k : s[j] \in S
    BY <1>1
  <2>2. /\ SubSeq(s, 1, k) \in Seq(S)
        /\ Len(SubSeq(s, 1, k)) = IF 1 <= k THEN k - 1 + 1 ELSE 0
        /\ \A j \in 1 .. k - 1 + 1 : SubSeq(s, 1, k)[j] = s[1 + j - 1]
    BY <2>1, SubSeqProperties
  <2>3. Len(SubSeq(s, 1, k)) = k
    BY <2>2
  <2>4. \A j \in 1 .. k : j \in 1 .. k - 1 + 1 /\ 1 + j - 1 = j
    OBVIOUS
  <2> QED
    BY <2>2, <2>3, <2>4
<1>3. SubSeq(s, 1, 0) = <<>>
  <2>2. 0 \in 0 .. n
    OBVIOUS
  <2>3. SubSeq(s, 1, 0) \in Seq(S) /\ Len(SubSeq(s, 1, 0)) = 0
    BY <1>2, <2>2
  <2>1. PICK p \in Seq(S) : p = SubSeq(s, 1, 0) /\ Len(p) = 0
    BY <2>3
  <2> QED
    BY <2>1
<1>4. SubSeq(s, 1, n) = s
  <2>1. PICK p \in Seq(S) : p = SubSeq(s, 1, n) /\ Len(p) = n /\ \A j \in 1 .. n : p[j] = s[j]
    <3>1. n \in 0 .. n
      OBVIOUS
    <3>2. /\ SubSeq(s, 1, n) \in Seq(S) /\ Len(SubSeq(s, 1, n)) = n
          /\ \A j \in 1 .. n : SubSeq(s, 1, n)[j] = s[j]
      BY <1>2, <3>1
    <3> QED
      BY <3>2
  <2> QED
    BY <1>1, <2>1, SeqEqual
<1>5. ASSUME NEW k \in 0 .. n - 1
      PROVE  SubSeq(s, 1, k + 1) = SubSeq(s, 1, k) \o <<s[k + 1]>>
  <2>1. PICK j \in 1 .. n : j = k + 1 /\ j \in 0 .. n /\ k \in 0 .. n
    OBVIOUS
  <2>2. PICK p \in Seq(S) : p = SubSeq(s, 1, k) /\ Len(p) = k /\ \A i \in 1 .. k : p[i] = s[i]
    BY <1>2, <2>1
  <2>3. PICK q \in Seq(S) : q = SubSeq(s, 1, j) /\ Len(q) = j /\ \A i \in 1 .. j : q[i] = s[i]
    BY <1>2, <2>1
  <2>4. PICK x \in S : x = s[j]
    BY <1>1
  <2>5. q = p \o <<x>>
    <3>1. PICK y \in Seq(S) : y = p \o <<x>>
      <4>1. p \in Seq(S)
        OBVIOUS
      <4>2. <<x>> \in Seq(S)
        BY OneItem
      <4> QED
        BY <4>1, <4>2, JoinedLength
    <3>2. Len(y) = k + 1 /\ y[k + 1] = x /\ \A i \in 1 .. k : y[i] = p[i]
      BY <2>2, <3>1
    <3>3. \A i \in 1 .. j : i = k + 1 \/ i \in 1 .. k
      BY <2>1
    <3>4. \A i \in 1 .. k : i \in 1 .. j
      BY <2>1
    <3>5. \A i \in 1 .. j : q[i] = y[i]
      BY <2>1, <2>2, <2>3, <2>4, <3>2, <3>3, <3>4
    <3>6. Len(q) = Len(y)
      BY <2>1, <2>3, <3>2
    <3> QED
      BY <2>3, <3>1, <3>5, <3>6, SeqEqual
  <2> QED
    BY <2>1, <2>2, <2>3, <2>4, <2>5
<1>6. \A k \in 0 .. n - 1 : SubSeq(s, 1, k) \in Seq(S) /\ s[k + 1] \in S
  <2> TAKE k \in 0 .. n - 1
  <2>1. k \in 0 .. n /\ k + 1 \in 1 .. n
    OBVIOUS
  <2> QED
    BY <1>1, <1>2, <2>1
<1> QED
  BY <1>1, <1>3, <1>4, <1>5, <1>6

-----------------------------------------------------------------------------
(* The invariant: at every stage, what the page has taken apart says what  *)
(* the text of the revision says up to there.                              *)

TextKept ==
  /\ pc = "revision" => immutables.sentence = <<>> /\ pointers.sentence = <<>>
  /\ pc # "revision" => /\ Strings("paragraph") \in Seq(Seq(Crless))
                        /\ FlatSpell(Strings("paragraph")) = Spell(RevisionText)
  /\ pc = "paragraphs" =>
       /\ SplitParagraphs <= Len(immutables.paragraph)
       /\ Spoken(Strings("sentence")) = FlatSpell(SubSeq(Strings("paragraph"), 1, SplitParagraphs))
  /\ pc \notin {"revision", "paragraphs"} => PageWords = Spell(RevisionText)

LEMMA StringsAre ==
  /\ Strings("paragraph") = StringsOf(strings, immutables.paragraph)
  /\ Strings("sentence") = StringsOf(strings, immutables.sentence)
  /\ RevisionText = Str(strings, immutables.revision[Current])
BY DEF Strings, StringsOf, AsStr, Str, RevisionText

LEMMA StringsLater ==
  /\ Strings("paragraph")' = StringsOf(strings', immutables'.paragraph)
  /\ Strings("sentence")' = StringsOf(strings', immutables'.sentence)
  /\ RevisionText' = Str(strings', immutables'.revision[Current])
BY DEF Strings, StringsOf, AsStr, Str, RevisionText

LEMMA StringsNow ==
  ASSUME Sound
  PROVE  /\ strings \in Seq(Text) /\ DOMAIN immutables = Kind /\ DOMAIN pointers = Kind
         /\ immutables.paragraph \in Seq(Ranges(strings))
         /\ immutables.sentence \in Seq(Ranges(strings))
         /\ pointers.sentence \in Seq(Seq(1 .. Len(immutables.sentence)))
         /\ Strings("paragraph") \in Seq(Text) /\ Len(Strings("paragraph")) = Len(immutables.paragraph)
         /\ Strings("sentence") \in Seq(Text)
<1>1. /\ strings \in Seq(Text) /\ DOMAIN immutables = Kind /\ DOMAIN pointers = Kind
      /\ immutables.paragraph \in Seq(Ranges(strings))
      /\ immutables.sentence \in Seq(Ranges(strings))
      /\ pointers.sentence \in Seq(Seq(1 .. Len(immutables.sentence)))
  BY Kinds DEF Sound, Addressed
<1> QED
  BY <1>1, StringsAre, StringsOfIs

LEMMA SplitRevisionKeeps ==
  ASSUME Sound, TextKept, SplitRevision
  PROVE  TextKept'
<1>1. PICK old, arc, cows : /\ old = strings /\ arc = immutables.revision[Current]
                            /\ cows = ParagraphCows
  OBVIOUS
<1>2. PICK new, r : new = NewStrings(cows) /\ r = Reattached(arc, cows)
  OBVIOUS
<1>3. /\ old \in Seq(Text) /\ arc \in Ranges(old) /\ RevisionText \in Text
      /\ Len(RevisionText) = arc.to - arc.from /\ RevisionText = AsStr(arc)
  BY <1>1, RevisionIsRange DEF RevisionText
<1>4. PICK length \in Nat : length = Len(RevisionText)
  BY <1>3 DEF Text
<1>5. /\ cows \in Seq(Cows(length))
      /\ \A k \in 1 .. Len(cows) : Shown(cows[k], AsStr(arc))
      /\ TextsOf(cows) \in Seq(Seq(Crless))
      /\ FlatSpell(TextsOf(cows)) = Spell(RevisionText)
  BY <1>1, <1>3, <1>4, ParagraphsSay
<1>6. StringsOf(old \o new, r) = TextsOf(cows)
  <2>1. cows \in Seq(Cows(arc.to - arc.from))
    BY <1>3, <1>4, <1>5
  <2> QED
    BY <1>1, <1>2, <1>3, <1>5, <2>1, ReattachedShows
<1>7. new \in Seq(Text)
  BY <1>2, <1>5, NewStringsAre
<1>8. /\ immutables' = [immutables EXCEPT !["paragraph"] = r]
      /\ pointers' = [pointers EXCEPT !["paragraph"] = <<<<>>, Fresh(immutables.paragraph, Len(cows))>>]
      /\ strings' = old \o new /\ pc = "revision" /\ pc' = "paragraphs"
  BY <1>1, <1>2 DEF SplitRevision
<1>9. /\ immutables'.paragraph = r /\ immutables'.sentence = <<>>
      /\ immutables'.revision[Current] = arc /\ pointers'.sentence = <<>>
  BY <1>1, <1>8, Kinds, StringsNow DEF TextKept
<1>10. /\ Strings("paragraph")' = StringsOf(old \o new, r)
       /\ Strings("sentence")' = StringsOf(old \o new, <<>>)
       /\ RevisionText' = Str(old \o new, arc)
  BY <1>8, <1>9, StringsLater
<1>11. Str(old \o new, arc) = Str(old, arc)
  BY <1>3, <1>7, StrStays
<1>12. RevisionText' = RevisionText
  BY <1>1, <1>10, <1>11, StringsAre
<1>13. Strings("sentence")' = <<>> /\ SplitParagraphs' = 0
  BY <1>9, <1>10 DEF StringsOf, SplitParagraphs
<1>14. r \in Seq(Ranges(old \o new)) /\ Len(r) \in Nat
  <2>1. cows \in Seq(Cows(arc.to - arc.from))
    BY <1>3, <1>4, <1>5
  <2>2. r \in Seq(Ranges(strings \o NewStrings(cows)))
    BY <1>1, <1>2, <1>3, <2>1, ReattachedAreRanges
  <2> QED
    BY <1>1, <1>2, <2>2
<1>15. FlatSpell(SubSeq(Strings("paragraph"), 1, SplitParagraphs))' = <<>>
  <2>1. TextsOf(cows) \in Seq(Text)
    BY <1>5, TextsOfAre
  <2>2. SubSeq(TextsOf(cows), 1, 0) = <<>>
    BY <2>1, PrefixGrows
  <2> QED
    BY <1>6, <1>10, <1>13, <2>2, FlatSpellIs
<1>16. Spoken(Strings("sentence"))' = <<>>
  BY <1>13, SpokenIs
<1> QED
  BY <1>5, <1>6, <1>8, <1>9, <1>10, <1>12, <1>13, <1>14, <1>15, <1>16 DEF TextKept

LEMMA SplitParagraphKeeps ==
  ASSUME Sound, TextKept, SplitParagraph
  PROVE  TextKept'
<1>1. PICK old, parent, cows, par, sen, a :
        /\ old = strings /\ parent = ParagraphNow /\ a = SplitParagraphs
        /\ cows = [k \in DOMAIN SentenceParts |-> Cleaned(SentenceParts[k])]
        /\ par = Strings("paragraph") /\ sen = Strings("sentence")
  OBVIOUS
<1>2. PICK new, r : new = NewStrings(cows) /\ r = Reattached(parent, cows)
  OBVIOUS
<1>3. /\ old \in Seq(Text) /\ DOMAIN immutables = Kind /\ DOMAIN pointers = Kind
      /\ immutables.paragraph \in Seq(Ranges(old)) /\ immutables.sentence \in Seq(Ranges(old))
      /\ pointers.sentence \in Seq(Seq(1 .. Len(immutables.sentence)))
      /\ par \in Seq(Text) /\ Len(par) = Len(immutables.paragraph) /\ sen \in Seq(Text)
      /\ par = StringsOf(old, immutables.paragraph) /\ sen = StringsOf(old, immutables.sentence)
  BY <1>1, StringsNow, StringsAre
<1>4. ParagraphLeft /\ pc = "paragraphs"
  BY DEF SplitParagraph, ParagraphLeft
<1>5. PICK b \in Nat : b = Len(par) /\ b = Len(immutables.paragraph)
  BY <1>3
<1>6. a \in 0 .. b - 1 /\ a = Len(pointers.sentence)
  <2>1. a = Len(pointers.sentence) /\ a \in Nat
    BY <1>1, <1>3 DEF SplitParagraphs
  <2>2. a < b
    BY <1>1, <1>4, <1>5 DEF ParagraphLeft
  <2> QED
    BY <1>5, <2>1, <2>2
<1>7. PICK j \in 1 .. b : j = a + 1
  BY <1>6
<1>8. par \in Seq(Seq(Crless)) /\ FlatSpell(par) = Spell(RevisionText)
      /\ Spoken(sen) = FlatSpell(SubSeq(par, 1, a))
  BY <1>1, <1>4 DEF TextKept
<1>9. parent \in Ranges(old) /\ parent = immutables.paragraph[j]
  BY <1>1, <1>4, <1>7, NextParagraphIsRange DEF ParagraphNow
<1>10. AsStr(parent) = par[j] /\ par[j] \in Text /\ par[j] \in Seq(Crless)
  <2>1. par[j] = Str(old, immutables.paragraph[j])
    BY <1>3, <1>5, StringsOfIs
  <2>2. Str(old, parent) = AsStr(parent)
    BY <1>1 DEF Str, AsStr
  <2>3. par[j] \in Text
    BY <1>3, <1>5
  <2>4. par[j] \in Seq(Crless)
    <3> DEFINE S == Seq(Crless)
    <3>1. par \in Seq(S) /\ j \in 1 .. Len(par)
      BY <1>5, <1>8
    <3> HIDE DEF S
    <3>2. par[j] \in S
      BY <3>1
    <3> QED
      BY <3>2 DEF S
  <2> QED
    BY <1>9, <2>1, <2>2, <2>3, <2>4
<1>11. PICK length \in Nat : length = Len(par[j]) /\ length = parent.to - parent.from
  <2>1. Len(AsStr(parent)) = parent.to - parent.from
    BY <1>1, <1>3, <1>9, RangeIsText
  <2>2. Len(par[j]) \in Nat
    BY <1>10 DEF Text
  <2> QED
    BY <1>10, <2>1, <2>2
<1>12. /\ cows \in Seq(Cows(length))
       /\ \A k \in 1 .. Len(cows) : Shown(cows[k], AsStr(parent))
       /\ Spoken(TextsOf(cows)) = Spell(par[j])
  <2>1. AsStr(ParagraphNow) \in Seq(Crless)
    BY <1>1, <1>10
  <2> QED
    BY <1>1, <1>4, <1>10, <1>11, <2>1, SentencesSay
<1>13. new \in Seq(Text)
  BY <1>2, <1>12, NewStringsAre
<1>14. cows \in Seq(Cows(parent.to - parent.from))
  BY <1>11, <1>12
<1>15. StringsOf(old \o new, r) = TextsOf(cows) /\ r \in Seq(Ranges(old \o new))
  BY <1>1, <1>2, <1>3, <1>9, <1>12, <1>14, ReattachedShows, ReattachedAreRanges
<1> DEFINE f == Fresh(immutables.sentence, Len(cows))
<1>16. /\ immutables' = [immutables EXCEPT !["sentence"] = immutables.sentence \o r]
       /\ pointers' = [pointers EXCEPT !["sentence"] = Append(pointers.sentence, f)]
       /\ strings' = old \o new /\ pc' = "paragraphs"
  BY <1>1, <1>2, <1>4 DEF SplitParagraph
<1> HIDE DEF f
<1>17. /\ immutables'.paragraph = immutables.paragraph
       /\ immutables'.sentence = immutables.sentence \o r
       /\ immutables'.revision = immutables.revision
       /\ pointers'.sentence = Append(pointers.sentence, f)
  BY <1>3, <1>16, Kinds
<1>18. /\ Strings("paragraph")' = StringsOf(old \o new, immutables.paragraph)
       /\ Strings("sentence")' = StringsOf(old \o new, immutables.sentence \o r)
       /\ RevisionText' = Str(old \o new, immutables.revision[Current])
  BY <1>16, <1>17, StringsLater
<1>19. Strings("paragraph")' = par
  <2>1. PICK arcs \in Seq(Ranges(old)) : arcs = immutables.paragraph
    BY <1>3
  <2>2. StringsOf(old \o new, arcs) = StringsOf(old, arcs)
    BY <1>3, <1>13, StringsStay
  <2> QED
    BY <1>3, <1>18, <2>1, <2>2
<1>20. Strings("sentence")' = sen \o TextsOf(cows)
  <2>1. PICK both : both = old \o new
    OBVIOUS
  <2>2. PICK arcs \in Seq(Ranges(old)) : arcs = immutables.sentence
    BY <1>3
  <2>3. both \in Seq(Text) /\ Ranges(old) \subseteq Ranges(both)
    BY <1>3, <1>13, <2>1, RangesStay
  <2>4. arcs \in Seq(Ranges(both)) /\ r \in Seq(Ranges(both))
    BY <1>15, <2>1, <2>3
  <2>5. StringsOf(both, arcs \o r) = StringsOf(both, arcs) \o StringsOf(both, r)
    BY <2>3, <2>4, StringsJoin
  <2>6. StringsOf(both, arcs) = sen
    <3>1. StringsOf(old \o new, arcs) = StringsOf(old, arcs)
      BY <1>3, <1>13, StringsStay
    <3> QED
      BY <1>3, <2>1, <2>2, <3>1
  <2> QED
    BY <1>15, <1>18, <2>1, <2>2, <2>5, <2>6
<1>21. RevisionText' = RevisionText
  <2>1. PICK arc \in Ranges(old) : arc = immutables.revision[Current]
    BY <1>1, RevisionIsRange
  <2>2. Str(old \o new, arc) = Str(old, arc)
    BY <1>3, <1>13, StrStays
  <2> QED
    BY <1>1, <1>18, <2>1, <2>2, StringsAre
<1>22. SplitParagraphs' = j
  <2>1. Len(Append(pointers.sentence, f)) = Len(pointers.sentence) + 1
    BY <1>3
  <2> QED
    BY <1>6, <1>7, <1>17, <2>1 DEF SplitParagraphs
<1>23. Spoken(sen \o TextsOf(cows)) = FlatSpell(SubSeq(par, 1, j))
  <2>1. TextsOf(cows) \in Seq(Text)
    BY <1>12, TextsOfAre
  <2>2. Spoken(sen \o TextsOf(cows)) = Spoken(sen) \o Spoken(TextsOf(cows))
    BY <1>3, <2>1, SpokenIs
  <2>3. PICK p \in Seq(Text) : p = SubSeq(par, 1, a) /\ SubSeq(par, 1, a + 1) = p \o <<par[a + 1]>>
    <3>1. PICK q \in Seq(Text) : q = par
      BY <1>3
    <3>2. \A k \in 0 .. Len(q) - 1 : /\ SubSeq(q, 1, k) \in Seq(Text)
                                     /\ SubSeq(q, 1, k + 1) = SubSeq(q, 1, k) \o <<q[k + 1]>>
      BY PrefixGrows
    <3>3. a \in 0 .. Len(q) - 1
      BY <1>5, <1>6, <3>1
    <3> QED
      BY <3>1, <3>2, <3>3
  <2>4. PICK x \in Text : x = par[j] /\ <<x>> \in Seq(Text)
    BY <1>10, OneItem
  <2>5. FlatSpell(p \o <<x>>) = FlatSpell(p) \o FlatSpell(<<x>>) /\ FlatSpell(<<x>>) = Spell(x)
    BY <2>4, FlatSpellIs
  <2> QED
    BY <1>7, <1>8, <1>12, <2>2, <2>3, <2>4, <2>5
<1>24. SplitParagraphs' <= Len(immutables'.paragraph)
  BY <1>5, <1>17, <1>22
<1> QED
  BY <1>8, <1>16, <1>19, <1>20, <1>21, <1>22, <1>23, <1>24 DEF TextKept

LEMMA AddWordsKeeps ==
  ASSUME Sound, TextKept, AddWords
  PROVE  TextKept'
<1>1. PICK found, all : /\ found = [s \in DOMAIN immutables.sentence |-> WordsOf(immutables.sentence[s])]
                        /\ all = FlattenSeq(found)
  OBVIOUS
<1>2. PICK e : e = Interned(all)
  OBVIOUS
<1>3. /\ strings \in Seq(Text) /\ DOMAIN immutables = Kind
      /\ immutables.sentence \in Seq(Ranges(strings))
      /\ Strings("paragraph") \in Seq(Text)
      /\ Len(Strings("paragraph")) = Len(immutables.paragraph)
      /\ pointers.sentence \in Seq(Seq(1 .. Len(immutables.sentence)))
  BY StringsNow
<1>4. /\ immutables' = [immutables EXCEPT !["word"] = e]
      /\ pc = "paragraphs" /\ pc' = "analysed" /\ strings' = strings /\ ~ParagraphLeft
  BY <1>1, <1>2 DEF AddWords
<1>5. /\ immutables'.paragraph = immutables.paragraph
      /\ immutables'.revision = immutables.revision /\ immutables'.word = e
  BY <1>3, <1>4, Kinds
<1>6. Strings("paragraph")' = Strings("paragraph") /\ RevisionText' = RevisionText
  BY <1>4, <1>5, StringsAre, StringsLater
<1>7. PageWords' = FlattenSeq([k \in DOMAIN e |-> AsStr(e[k])])
  <2>1. PageWords' = FlattenSeq(StringsOf(strings', immutables'.word))
    BY DEF PageWords, AsStr, StringsOf, Str
  <2>2. [k \in DOMAIN e |-> AsStr(e[k])] = StringsOf(strings, e)
    BY DEF StringsOf, Str, AsStr
  <2> QED
    BY <1>4, <1>5, <2>1, <2>2
<1>8. /\ all \in Seq(Ranges(strings))
      /\ Flat(Saying, all) = Spoken(Strings("sentence"))
  BY <1>1, <1>3, SentencesSpoken, StringsAre
<1>9. FlattenSeq([k \in DOMAIN e |-> AsStr(e[k])]) = Flat(Saying, all)
  BY <1>2, <1>3, <1>8, InternedSays
<1>10. SubSeq(Strings("paragraph"), 1, SplitParagraphs) = Strings("paragraph")
  <2>1. PICK a, b \in Nat : a = SplitParagraphs /\ b = Len(Strings("paragraph")) /\ a = b
    <3>1. SplitParagraphs \in Nat /\ Len(Strings("paragraph")) \in Nat
      BY <1>3 DEF SplitParagraphs
    <3>2. SplitParagraphs <= Len(Strings("paragraph")) /\ ~(SplitParagraphs < Len(Strings("paragraph")))
      BY <1>3, <1>4 DEF TextKept, ParagraphLeft
    <3> QED
      BY <3>1, <3>2
  <2>2. PICK par \in Seq(Text) : par = Strings("paragraph")
    BY <1>3
  <2>3. SubSeq(par, 1, Len(par)) = par
    BY PrefixGrows
  <2> QED
    BY <2>1, <2>2, <2>3
<1>11. /\ Strings("paragraph") \in Seq(Seq(Crless))
       /\ FlatSpell(Strings("paragraph")) = Spell(RevisionText)
       /\ Spoken(Strings("sentence")) = FlatSpell(SubSeq(Strings("paragraph"), 1, SplitParagraphs))
  BY <1>4 DEF TextKept
<1>12. PageWords' = Spell(RevisionText)
  BY <1>7, <1>8, <1>9, <1>10, <1>11
<1>13. Spell(RevisionText)' = Spell(RevisionText)
  BY <1>6
<1> QED
  BY <1>4, <1>6, <1>11, <1>12 DEF TextKept

LEMMA TextKeptInit == Init => TextKept
<1> SUFFICES ASSUME Init
             PROVE  TextKept
  OBVIOUS
<1>1. pc = "revision"
  BY DEF Init, InitText
<1>2. immutables.sentence = <<>> /\ pointers.sentence = <<>>
  BY DEF Init, InitText
<1> QED
  BY <1>1, <1>2 DEF TextKept

LEMMA TextKeptStays ==
  ASSUME TextKept, UNCHANGED page,
         pc' = pc \/ {pc, pc'} \cap {"revision", "paragraphs"} = {}
  PROVE  TextKept'
BY DEF TextKept, page, Strings, AsStr, RevisionText, PageWords, SplitParagraphs

LEMMA TextKeptNext == Sound /\ TextKept /\ [Next]_vars => TextKept'
<1> SUFFICES ASSUME Sound, TextKept, [Next]_vars
             PROVE  TextKept'
  OBVIOUS
<1>1. CASE NextText /\ UNCHANGED <<file, changed, loaded>>
  BY <1>1, SplitRevisionKeeps, SplitParagraphKeeps, AddWordsKeeps DEF NextText
<1>2. CASE Store
  BY <1>2, TextKeptStays DEF Store
<1>3. CASE Change
  BY <1>3, TextKeptStays DEF Change
<1>4. CASE Load
  BY <1>4, TextKeptStays DEF Load
<1>5. CASE Reject
  BY <1>5, TextKeptStays DEF Reject
<1>6. CASE UNCHANGED vars
  BY <1>6, TextKeptStays DEF vars
<1> QED
  BY <1>1, <1>2, <1>3, <1>4, <1>5, <1>6 DEF Next, Finished

LEMMA TextKeptPreserves == Sound /\ TextKept => TextPreserved
<1> SUFFICES ASSUME Sound, TextKept, pc = "analysed"
             PROVE  /\ Without(PageWords, {"@"}) = Without(RevisionText, White \cup {"@"})
                    /\ ~Occurs(Mark, RevisionText) => PageWords = Without(RevisionText, White)
  BY DEF TextPreserved
<1>1. PICK t \in Text : t = RevisionText
  BY RevisionIsRange
<1>2. PageWords = Spell(t)
  BY <1>1 DEF TextKept
<1> QED
  BY <1>1, <1>2, SpellsInk, SpellsUnmarked

\* Whatever the text of a revision is, the words the page ends up with spell
\* it up to white space, and up to "@" in a text that has four of them in a
\* row: splitting, trimming, cleaning, reattaching and interning, by which
\* the analysis takes a text apart, lose nothing else.
THEOREM TextIsPreserved == Spec => []TextPreserved
<1>1. Init => TextKept
  BY TextKeptInit
<1>2. Sound /\ TextKept /\ [Next]_vars => TextKept'
  BY TextKeptNext
<1>3. Sound /\ TextKept => TextPreserved
  BY TextKeptPreserves
<1> QED
  BY <1>1, <1>2, <1>3, AlwaysSound, PTL DEF Spec
=============================================================================
