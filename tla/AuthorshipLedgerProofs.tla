------------------------ MODULE AuthorshipLedgerProofs ------------------------
(***************************************************************************)
(* The authorship analysis implements the token ledger, for every page of  *)
(* texts of bounded length: whatever is matched with what, origin, latest, *)
(* inbound and outbound of every token follow the tokens that the valid    *)
(* revisions show.  The proof needs to know, in the middle of a revision,  *)
(* that every token marked as matched is shown again or was deleted by the *)
(* diff (MatchedUsed), that entries found again had all their tokens       *)
(* marked (MatchedWhole), and that the new tokens are the last ones and    *)
(* untouched (NewbornLast): then the tokens the final pass updates are     *)
(* exactly those the previous valid revision showed and this one does not. *)
(*                                                                         *)
(* With that, what is written of a page (PageOutput) is what the analysis  *)
(* found: the life of a token is read off the ledger, and the text that    *)
(* the tokens spell off the entries, by facts about FlattenSeq that are    *)
(* shown by induction on the length of the sequence.                       *)
(***************************************************************************)
EXTENDS AuthorshipProofs, PageOutput, SequenceTheorems

-----------------------------------------------------------------------------
(* Sequences, and sequences of sequences                                   *)

\* What was appended last can be taken off again.
LEMMA TakenOff ==
  ASSUME NEW S, NEW s \in Seq(S), NEW e
  PROVE  /\ SubSeq(Append(s, e), 1, Len(Append(s, e)) - 1) = s
         /\ LastIs(s, e) => Append(SubSeq(s, 1, Len(s) - 1), e) = s
<1>1. SubSeq(Append(s, e), 1, Len(Append(s, e)) - 1) = s
  <2>1. Append(s, e) \in Seq(S \cup {e}) /\ Len(Append(s, e)) = Len(s) + 1 /\ Len(s) \in Nat
    BY Appending, WidenSeq
  <2> DEFINE a == Append(s, e)
  <2>2. \A i \in 1 .. Len(s) : a[i] = s[i]
    BY Appending
  <2>3. s = [i \in 1 .. Len(s) |-> s[i]]
    BY ByElements
  <2>4. SubSeq(a, 1, Len(s)) = [i \in 1 .. Len(s) |-> a[i]]
    BY <2>1
  <2>5. Len(a) - 1 = Len(s)
    BY <2>1
  <2> HIDE DEF a
  <2>6. SubSeq(a, 1, Len(s)) = s
    BY <2>2, <2>3, <2>4
  <2> QED
    BY <2>5, <2>6 DEF a
<1>2. ASSUME LastIs(s, e)
      PROVE  Append(SubSeq(s, 1, Len(s) - 1), e) = s
  <2>1. Len(s) \in Nat /\ Len(s) > 0 /\ s[Len(s)] = e /\ s \in [1 .. Len(s) -> S]
    BY <1>2, ElementIn DEF LastIs
  <2> DEFINE f == SubSeq(s, 1, Len(s) - 1)
  <2>2. f \in Seq(S) /\ Len(f) = Len(s) - 1 /\ \A i \in 1 .. Len(s) - 1 : f[i] = s[i]
    BY <2>1
  <2> HIDE DEF f
  <2>3. /\ DOMAIN Append(f, e) = 1 .. Len(s)
        /\ Append(f, e)[Len(s)] = e
        /\ \A i \in 1 .. Len(s) - 1 : Append(f, e)[i] = s[i]
        /\ Append(f, e) \in Seq(S \cup {e}) /\ Len(Append(f, e)) = Len(s)
    <3>1. /\ Len(f) \in Nat /\ DOMAIN f = 1 .. Len(f)
          /\ Len(Append(f, e)) = Len(f) + 1
          /\ DOMAIN Append(f, e) = 1 .. Len(f) + 1
          /\ Append(f, e)[Len(f) + 1] = e
          /\ \A i \in DOMAIN f : Append(f, e)[i] = f[i]
      BY <2>2, Appending
    <3>2. f \in Seq(S \cup {e}) /\ e \in S \cup {e}
      BY <2>2, WidenSeq
    <3>3. Append(f, e) \in Seq(S \cup {e})
      BY <3>2
    <3>4. Len(f) + 1 = Len(s)
      BY <2>1, <2>2
    <3> QED
      BY <2>2, <3>1, <3>3, <3>4
  <2>4. Append(f, e) = [i \in 1 .. Len(s) |-> Append(f, e)[i]]
    BY <2>3, ByElements
  <2>5. s = [i \in 1 .. Len(s) |-> s[i]]
    BY ByElements
  <2>6. \A i \in 1 .. Len(s) : Append(f, e)[i] = s[i]
    <3>1. \A i \in 1 .. Len(s) : i \in 1 .. Len(s) - 1 \/ i = Len(s)
      <4>1. \A n \in Nat : \A i \in 1 .. n : i \in 1 .. n - 1 \/ i = n
        OBVIOUS
      <4>2. Len(s) \in Nat
        BY <2>1, SMTT(30)
      <4> QED
        BY <4>1, <4>2
    <3>2. s[Len(s)] = e /\ Append(f, e)[Len(s)] = e
      BY <2>1, <2>3
    <3>3. \A i \in 1 .. Len(s) - 1 : Append(f, e)[i] = s[i]
      BY <2>3, SMTT(30)
    <3> QED
      BY <3>1, <3>2, <3>3
  <2>7. Append(f, e) = s
    BY <2>4, <2>5, <2>6
  <2> QED
    BY <2>7 DEF f
<1> QED
  BY <1>1, <1>2

\* f[n] is what the first n sequences of s are put together.
Flattens(f, s, n) == f = [k \in 1 .. n |-> IF k = 1 THEN s[k] ELSE f[k - 1] \o s[k]]

LEMMA FlattensExists ==
  ASSUME NEW s, NEW n \in Nat
  PROVE  \E f : Flattens(f, s, n)
<1> DEFINE Without == {m \in Nat : ~ \E f : Flattens(f, s, m)}
<1>1. ASSUME NEW m \in Without, \A l \in Without : m <= l
      PROVE  FALSE
  <2>1. m \in Nat /\ ~ \E f : Flattens(f, s, m)
    OBVIOUS
  <2>2. CASE m = 0
    <3>1. Flattens([k \in 1 .. 0 |-> 0], s, 0)
      BY DEF Flattens
    <3> QED
      BY <2>1, <2>2, <3>1
  <2>3. CASE m # 0
    <3>1. m - 1 \in Nat /\ ~(m <= m - 1)
      BY <2>1, <2>3
    <3>2. m - 1 \notin Without
      BY <1>1, <3>1
    <3>3. PICK f : Flattens(f, s, m - 1)
      BY <3>1, <3>2
    <3> DEFINE last == IF m = 1 THEN s[m] ELSE f[m - 1] \o s[m]
               g == [k \in 1 .. m |-> IF k = m THEN last ELSE f[k]]
    <3>4. ASSUME NEW k \in 1 .. m
          PROVE  g[k] = IF k = 1 THEN s[k] ELSE g[k - 1] \o s[k]
      <4>1. CASE k = m /\ m = 1
        BY <4>1
      <4>2. CASE k = m /\ m # 1
        <5>1. m - 1 \in 1 .. m /\ m - 1 # m
          BY <2>1, <2>3, <4>2
        <5>2. g[m - 1] = f[m - 1]
          BY <5>1
        <5> QED
          BY <4>2, <5>2
      <4>3. CASE k # m
        <5>1. k \in 1 .. m - 1
          BY <2>1, <4>3
        <5>2. f[k] = IF k = 1 THEN s[k] ELSE f[k - 1] \o s[k]
          BY <3>3, <5>1 DEF Flattens
        <5>3. k # 1 => k - 1 \in 1 .. m /\ k - 1 # m
          BY <2>1, <5>1
        <5>4. g[k] = f[k] /\ (k # 1 => g[k - 1] = f[k - 1])
          BY <4>3, <5>3
        <5> HIDE DEF g, last
        <5> QED
          BY <5>2, <5>4
      <4> QED
        BY <4>1, <4>2, <4>3
    <3>5. g = [k \in 1 .. m |-> g[k]]
      OBVIOUS
    <3> HIDE DEF g, last
    <3>6. Flattens(g, s, m)
      BY <3>4, <3>5 DEF Flattens
    <3> QED
      BY <2>1, <3>6
  <2> QED
    BY <2>2, <2>3
<1>2. Without = {}
  <2>1. Without \in SUBSET Nat
    OBVIOUS
  <2> HIDE DEF Without
  <2> QED
    BY <1>1, <2>1, Smallest
<1> QED
  BY <1>2

LEMMA FlattenUnfolds ==
  ASSUME NEW s, NEW N \in Nat \ {0}, Len(s) = N
  PROVE  \E f : Flattens(f, s, N) /\ FlattenSeq(s) = f[N]
<1> DEFINE flatten == CHOOSE f : f = [k \in 1 .. N |-> IF k = 1 THEN s[k] ELSE f[k - 1] \o s[k]]
<1>1. \E f : f = [k \in 1 .. N |-> IF k = 1 THEN s[k] ELSE f[k - 1] \o s[k]]
  BY FlattensExists DEF Flattens
<1>2. Flattens(flatten, s, N)
  BY <1>1 DEF Flattens
<1>3. FlattenSeq(s) = flatten[N]
  BY Zenon DEF FlattenSeq
<1> QED
  BY <1>2, <1>3

\* Every sequence is built up from its front.
LEMMA BuiltUp ==
  ASSUME NEW S, NEW Good, <<>> \in Good,
         \A s \in Seq(S), e \in S : s \in Good => Append(s, e) \in Good
  PROVE  Seq(S) \subseteq Good
<1> DEFINE Bad == {n \in Nat : \E s \in Seq(S) : Len(s) = n /\ s \notin Good}
<1>1. ASSUME NEW n \in Bad, \A m \in Bad : n <= m
      PROVE  FALSE
  <2>1. PICK s \in Seq(S) : n \in Nat /\ Len(s) = n /\ s \notin Good
    OBVIOUS
  <2>2. CASE n = 0
    <3>1. s = <<>>
      BY <2>1, <2>2
    <3> QED
      BY <2>1, <3>1
  <2>3. CASE n # 0
    <3>1. LastIs(s, s[n]) /\ s[n] \in S
      BY <2>1, <2>3, ElementIn DEF LastIs
    <3> DEFINE f == SubSeq(s, 1, n - 1)
    <3>2. Append(f, s[n]) = s
      BY <2>1, <3>1, TakenOff
    <3>3. f \in Seq(S) /\ Len(f) = n - 1
      BY <2>1, <2>3
    <3> HIDE DEF f
    <3>4. f \notin Good
      BY <2>1, <3>1, <3>2, <3>3
    <3>5. n - 1 \in Nat /\ ~(n <= n - 1)
      BY <2>1, <2>3
    <3>6. n - 1 \in Bad
      BY <3>3, <3>4, <3>5
    <3> QED
      BY <1>1, <3>5, <3>6
  <2> QED
    BY <2>2, <2>3
<1>2. Bad = {}
  <2>1. Bad \in SUBSET Nat
    OBVIOUS
  <2> HIDE DEF Bad
  <2> QED
    BY <1>1, <2>1, Smallest
<1> SUFFICES ASSUME NEW s \in Seq(S), s \notin Good PROVE FALSE
  OBVIOUS
<1>3. Len(s) \in Bad
  OBVIOUS
<1> QED
  BY <1>2, <1>3

LEMMA FlattenEmpty == FlattenSeq(<<>>) = <<>>
  BY DEF FlattenSeq

LEMMA FlattenAppend ==
  ASSUME NEW S, NEW s \in Seq(Seq(S)), NEW e \in Seq(S)
  PROVE  FlattenSeq(Append(s, e)) = FlattenSeq(s) \o e
<1>1. PICK N \in Nat : N = Len(s)
  OBVIOUS
<1>2. PICK a : a = Append(s, e)
  OBVIOUS
<1>3. /\ a \in Seq(Seq(S)) /\ Len(a) = N + 1 /\ a[N + 1] = e
      /\ \A k \in 1 .. N : a[k] = s[k]
  BY <1>1, <1>2, AppendProperties
<1>4. PICK f : Flattens(f, a, N + 1) /\ FlattenSeq(a) = f[N + 1]
  BY <1>3, FlattenUnfolds
<1>5. \A k \in 1 .. N + 1 : f[k] = IF k = 1 THEN a[k] ELSE f[k - 1] \o a[k]
  BY <1>4 DEF Flattens
<1>6. f[N + 1] = IF N = 0 THEN e ELSE f[N] \o e
  BY <1>3, <1>5
<1>7. CASE N = 0
  <2>1. s = <<>>
    BY <1>1, <1>7, EmptySeq
  <2>2. <<>> \o e = e
    BY ConcatEmptySeq
  <2> QED
    BY <1>2, <1>4, <1>6, <1>7, <2>1, <2>2, FlattenEmpty
<1>8. CASE N # 0
  <2>1. PICK g : Flattens(g, s, N) /\ FlattenSeq(s) = g[N]
    BY <1>1, <1>8, FlattenUnfolds
  <2>2. \A k \in 1 .. N : g[k] = IF k = 1 THEN s[k] ELSE g[k - 1] \o s[k]
    BY <2>1 DEF Flattens
  <2> DEFINE Apart == {k \in 1 .. N : f[k] # g[k]}
  <2>3. ASSUME NEW k \in Apart, \A l \in Apart : k <= l
        PROVE  FALSE
    <3>1. k \in 1 .. N /\ f[k] # g[k]
      OBVIOUS
    <3>2. k # 1
      BY <1>3, <1>5, <2>2, <3>1
    <3>3. k - 1 \in 1 .. N /\ ~(k <= k - 1)
      BY <3>1, <3>2
    <3>4. f[k - 1] = g[k - 1]
      BY <2>3, <3>3
    <3>5. k \in 1 .. N + 1
      BY <3>1
    <3>6. f[k] = f[k - 1] \o a[k]
      BY <1>5, <3>2, <3>5
    <3>7. g[k] = g[k - 1] \o s[k]
      BY <2>2, <3>1, <3>2
    <3> QED
      BY <1>3, <3>1, <3>4, <3>6, <3>7
  <2>4. Apart = {}
    <3>1. Apart \in SUBSET Nat
      OBVIOUS
    <3> HIDE DEF Apart
    <3> QED
      BY <2>3, <3>1, Smallest
  <2>5. f[N] = g[N]
    BY <1>8, <2>4
  <2> QED
    BY <1>2, <1>4, <1>6, <1>8, <2>1, <2>5
<1> QED
  BY <1>7, <1>8

LEMMA FlattenIn ==
  ASSUME NEW S, NEW s \in Seq(Seq(S))
  PROVE  FlattenSeq(s) \in Seq(S)
<1> DEFINE Good == {t \in Seq(Seq(S)) : FlattenSeq(t) \in Seq(S)}
<1>1. <<>> \in Good
  <2>1. <<>> \in Seq(S) /\ <<>> \in Seq(Seq(S))
    OBVIOUS
  <2> QED
    BY <2>1, FlattenEmpty
<1>2. ASSUME NEW t \in Seq(Seq(S)), NEW e \in Seq(S), t \in Good
      PROVE  Append(t, e) \in Good
  <2>1. FlattenSeq(Append(t, e)) = FlattenSeq(t) \o e
    BY FlattenAppend
  <2>2. FlattenSeq(t) \o e \in Seq(S)
    BY <1>2, ConcatProperties
  <2>3. Append(t, e) \in Seq(Seq(S))
    OBVIOUS
  <2> QED
    BY <2>1, <2>2, <2>3
<1> HIDE DEF Good
<1>3. Seq(Seq(S)) \subseteq Good
  BY <1>1, <1>2, BuiltUp
<1> QED
  BY <1>3 DEF Good

LEMMA AppendToConcat ==
  ASSUME NEW S, NEW s \in Seq(S), NEW t \in Seq(S), NEW e \in S
  PROVE  s \o Append(t, e) = Append(s \o t, e)
<1>1. /\ s \o t \in Seq(S) /\ Append(t, e) \in Seq(S)
      /\ Len(s) \in Nat /\ Len(t) \in Nat
      /\ Len(Append(t, e)) = Len(t) + 1 /\ Append(t, e)[Len(t) + 1] = e
      /\ \A i \in 1 .. Len(t) : Append(t, e)[i] = t[i]
  BY ConcatProperties, AppendProperties
<1> DEFINE u == Append(t, e)
           c == s \o t
<1>2. /\ Len(c) = Len(s) + Len(t)
      /\ \A i \in 1 .. Len(s) + Len(t) : c[i] = IF i <= Len(s) THEN s[i] ELSE t[i - Len(s)]
  BY ConcatProperties
<1>3. /\ s \o u \in Seq(S) /\ Len(s \o u) = Len(s) + Len(t) + 1
      /\ \A i \in 1 .. Len(s) + Len(t) + 1 :
           (s \o u)[i] = IF i <= Len(s) THEN s[i] ELSE u[i - Len(s)]
  <2>1. u \in Seq(S) /\ Len(u) = Len(t) + 1
    BY <1>1
  <2> HIDE DEF u
  <2>2. /\ s \o u \in Seq(S) /\ Len(s \o u) = Len(s) + Len(u)
        /\ \A i \in 1 .. Len(s) + Len(u) :
             (s \o u)[i] = IF i <= Len(s) THEN s[i] ELSE u[i - Len(s)]
    BY <2>1, ConcatProperties
  <2> QED
    BY <1>1, <2>1, <2>2
<1>4. /\ Append(c, e) \in Seq(S) /\ Len(Append(c, e)) = Len(s) + Len(t) + 1
      /\ Append(c, e)[Len(s) + Len(t) + 1] = e
      /\ \A i \in 1 .. Len(s) + Len(t) : Append(c, e)[i] = c[i]
  <2>1. c \in Seq(S)
    BY <1>1
  <2> HIDE DEF c
  <2> QED
    BY <1>2, <2>1, AppendProperties
<1>5. PICK l \in Nat, m \in Nat : l = Len(s) /\ m = Len(t)
  BY <1>1
<1>6. \A i \in 1 .. m : u[i] = t[i]
  BY <1>1, <1>5
<1>7. u[m + 1] = e
  BY <1>1, <1>5
<1> HIDE DEF c, u
<1>8. ASSUME NEW i \in 1 .. l + m + 1
      PROVE  (s \o u)[i] = Append(c, e)[i]
  <2>1. CASE i <= l
    <3>1. i \in 1 .. l + m
      BY <2>1
    <3> QED
      BY <1>2, <1>3, <1>4, <1>5, <2>1, <3>1
  <2>2. CASE l < i /\ i # l + m + 1
    <3>1. i \in 1 .. l + m /\ i - l \in 1 .. m /\ ~(i <= l)
      BY <2>2
    <3> QED
      BY <1>2, <1>3, <1>4, <1>5, <1>6, <3>1
  <2>3. CASE i = l + m + 1
    <3>1. i - l = m + 1 /\ ~(i <= l)
      BY <2>3
    <3> QED
      BY <1>3, <1>4, <1>5, <1>7, <2>3, <3>1
  <2>4. i <= l \/ (l < i /\ i # l + m + 1) \/ i = l + m + 1
    OBVIOUS
  <2> QED
    BY <2>1, <2>2, <2>3, <2>4
<1>9. s \o u = Append(c, e)
  BY <1>3, <1>4, <1>5, <1>8, SeqEqual
<1> QED
  BY <1>9 DEF u, c

LEMMA FlattenConcat ==
  ASSUME NEW S, NEW s \in Seq(Seq(S)), NEW t \in Seq(Seq(S))
  PROVE  FlattenSeq(s \o t) = FlattenSeq(s) \o FlattenSeq(t)
<1> DEFINE Good == {u \in Seq(Seq(S)) : FlattenSeq(s \o u) = FlattenSeq(s) \o FlattenSeq(u)}
<1>1. <<>> \in Good
  <2>1. <<>> \in Seq(Seq(S)) /\ s \o <<>> = s
    BY ConcatEmptySeq
  <2>2. FlattenSeq(s) \o <<>> = FlattenSeq(s)
    BY FlattenIn, ConcatEmptySeq
  <2> QED
    BY <2>1, <2>2, FlattenEmpty
<1>2. ASSUME NEW u \in Seq(Seq(S)), NEW e \in Seq(S), u \in Good
      PROVE  Append(u, e) \in Good
  <2>1. s \o Append(u, e) = Append(s \o u, e)
    BY AppendToConcat
  <2>2. s \o u \in Seq(Seq(S))
    BY ConcatProperties
  <2>3. FlattenSeq(Append(s \o u, e)) = FlattenSeq(s \o u) \o e
    BY <2>2, FlattenAppend
  <2>4. FlattenSeq(s \o u) = FlattenSeq(s) \o FlattenSeq(u)
    BY <1>2
  <2>5. (FlattenSeq(s) \o FlattenSeq(u)) \o e = FlattenSeq(s) \o (FlattenSeq(u) \o e)
    <3>1. PICK x \in Seq(S), y \in Seq(S) : x = FlattenSeq(s) /\ y = FlattenSeq(u)
      BY FlattenIn
    <3>2. (x \o y) \o e = x \o (y \o e)
      BY ConcatAssociative
    <3> QED
      BY <3>1, <3>2
  <2>6. FlattenSeq(Append(u, e)) = FlattenSeq(u) \o e
    BY FlattenAppend
  <2>7. Append(u, e) \in Seq(Seq(S))
    OBVIOUS
  <2> QED
    BY <2>1, <2>3, <2>4, <2>5, <2>6, <2>7
<1> HIDE DEF Good
<1>3. Seq(Seq(S)) \subseteq Good
  BY <1>1, <1>2, BuiltUp
<1> QED
  BY <1>3 DEF Good

\* f maps the elements of S to elements of T.
Maps(f, S, T) == f \in [S -> T]

\* f applied to every element of s.
Mapped(f, s) == [n \in DOMAIN s |-> f[s[n]]]

LEMMA MappedIn ==
  ASSUME NEW S, NEW T, NEW f, Maps(f, S, T), NEW s \in Seq(S)
  PROVE  /\ Mapped(f, s) \in Seq(T) /\ Len(Mapped(f, s)) = Len(s)
         /\ \A n \in 1 .. Len(s) : Mapped(f, s)[n] = f[s[n]]
<1>1. Len(s) \in Nat /\ s \in [1 .. Len(s) -> S] /\ DOMAIN s = 1 .. Len(s)
  BY LenProperties
<1>2. Mapped(f, s) \in [1 .. Len(s) -> T]
  BY <1>1 DEF Mapped, Maps
<1>3. Mapped(f, s) \in Seq(T) /\ Len(Mapped(f, s)) = Len(s)
  BY <1>1, <1>2
<1> QED
  BY <1>1, <1>3 DEF Mapped

LEMMA MappedEmpty ==
  ASSUME NEW f
  PROVE  Mapped(f, <<>>) = <<>>
<1>1. DOMAIN <<>> = {}
  OBVIOUS
<1>2. [n \in {} |-> f[<<>>[n]]] = <<>>
  OBVIOUS
<1> QED
  BY <1>1, <1>2 DEF Mapped

LEMMA MappedAppend ==
  ASSUME NEW S, NEW T, NEW f, Maps(f, S, T), NEW s \in Seq(S), NEW e \in S
  PROVE  /\ Mapped(f, s) \in Seq(T) /\ Len(Mapped(f, s)) = Len(s)
         /\ Mapped(f, Append(s, e)) = Append(Mapped(f, s), f[e])
<1>1. ASSUME NEW t \in Seq(S)
      PROVE  /\ Mapped(f, t) \in Seq(T) /\ Len(Mapped(f, t)) = Len(t)
             /\ \A n \in 1 .. Len(t) : Mapped(f, t)[n] = f[t[n]]
  BY MappedIn
<1> DEFINE a == Append(s, e)
           m == Mapped(f, s)
<1>2. /\ a \in Seq(S) /\ Len(a) = Len(s) + 1 /\ a[Len(s) + 1] = e /\ Len(s) \in Nat
      /\ \A n \in 1 .. Len(s) : a[n] = s[n]
  BY AppendProperties
<1>3. m \in Seq(T) /\ Len(m) = Len(s) /\ \A n \in 1 .. Len(s) : m[n] = f[s[n]]
  BY <1>1
<1> HIDE DEF a, m
<1>4. /\ Append(m, f[e]) \in Seq(T) /\ Len(Append(m, f[e])) = Len(s) + 1
      /\ Append(m, f[e])[Len(s) + 1] = f[e]
      /\ \A n \in 1 .. Len(s) : Append(m, f[e])[n] = f[s[n]]
  <2>1. f[e] \in T
    BY DEF Maps
  <2> QED
    BY <1>3, <2>1, AppendProperties
<1>5. /\ Mapped(f, a) \in Seq(T) /\ Len(Mapped(f, a)) = Len(s) + 1
      /\ \A n \in 1 .. Len(s) + 1 : Mapped(f, a)[n] = f[a[n]]
  BY <1>1, <1>2
<1>6. PICK l \in Nat : l = Len(s)
  BY <1>2
<1>7. \A n \in 1 .. l + 1 : n \in 1 .. l \/ n = l + 1
  OBVIOUS
<1>8. \A n \in 1 .. Len(s) + 1 : Mapped(f, a)[n] = Append(m, f[e])[n]
  BY <1>2, <1>4, <1>5, <1>6, <1>7
<1>9. Mapped(f, a) = Append(m, f[e])
  BY <1>4, <1>5, <1>8, SeqEqual
<1> QED
  BY <1>1, <1>9 DEF a, m

LEMMA MappedConcat ==
  ASSUME NEW S, NEW T, NEW f, Maps(f, S, T), NEW s \in Seq(S), NEW t \in Seq(S)
  PROVE  Mapped(f, s \o t) = Mapped(f, s) \o Mapped(f, t)
<1> DEFINE Good == {u \in Seq(S) : Mapped(f, s \o u) = Mapped(f, s) \o Mapped(f, u)}
<1>1. ASSUME NEW u \in Seq(S)
      PROVE  Mapped(f, u) \in Seq(T)
  BY MappedIn
<1>2. <<>> \in Good
  <2>1. s \o <<>> = s /\ <<>> \in Seq(S)
    BY ConcatEmptySeq
  <2>2. Mapped(f, <<>>) = <<>>
    BY MappedEmpty
  <2>3. Mapped(f, s) \o <<>> = Mapped(f, s)
    BY <1>1, ConcatEmptySeq
  <2> QED
    BY <2>1, <2>2, <2>3
<1>3. ASSUME NEW u \in Seq(S), NEW e \in S, u \in Good
      PROVE  Append(u, e) \in Good
  <2>1. PICK v \in Seq(S) : v = s \o u
    BY ConcatProperties
  <2>2. s \o Append(u, e) = Append(v, e)
    BY <2>1, AppendToConcat
  <2>3. Mapped(f, Append(v, e)) = Append(Mapped(f, v), f[e])
    BY MappedAppend
  <2>4. Mapped(f, Append(u, e)) = Append(Mapped(f, u), f[e])
    BY MappedAppend
  <2>5. PICK x \in Seq(T), y \in Seq(T) : x = Mapped(f, s) /\ y = Mapped(f, u)
    BY <1>1
  <2>6. x \o Append(y, f[e]) = Append(x \o y, f[e])
    BY AppendToConcat
  <2>7. Mapped(f, v) = x \o y
    BY <1>3, <2>1, <2>5
  <2>8. Append(u, e) \in Seq(S)
    OBVIOUS
  <2> QED
    BY <2>2, <2>3, <2>4, <2>5, <2>6, <2>7, <2>8
<1> HIDE DEF Good
<1>4. Seq(S) \subseteq Good
  BY <1>2, <1>3, BuiltUp
<1> QED
  BY <1>4 DEF Good

Flat(S) == [s \in Seq(Seq(S)) |-> FlattenSeq(s)]

\* Flattening twice is flattening the parts first.
LEMMA FlattenTwice ==
  ASSUME NEW S, NEW x \in Seq(Seq(Seq(S)))
  PROVE  FlattenSeq(FlattenSeq(x)) = FlattenSeq(Mapped(Flat(S), x))
<1> DEFINE Good == {u \in Seq(Seq(Seq(S))) : FlattenSeq(FlattenSeq(u)) = FlattenSeq(Mapped(Flat(S), u))}
<1>1. Maps(Flat(S), Seq(Seq(S)), Seq(S))
  BY FlattenIn DEF Maps, Flat
<1>2. <<>> \in Good
  <2>1. Mapped(Flat(S), <<>>) = <<>>
    BY MappedEmpty
  <2> QED
    BY <2>1, FlattenEmpty
<1>3. ASSUME NEW u \in Seq(Seq(Seq(S))), NEW e \in Seq(Seq(S)), u \in Good
      PROVE  Append(u, e) \in Good
  <2>1. FlattenSeq(Append(u, e)) = FlattenSeq(u) \o e
    BY FlattenAppend
  <2>2. PICK v \in Seq(Seq(S)) : v = FlattenSeq(u)
    BY FlattenIn
  <2>3. FlattenSeq(v \o e) = FlattenSeq(v) \o FlattenSeq(e)
    BY FlattenConcat
  <2>4. Mapped(Flat(S), Append(u, e)) = Append(Mapped(Flat(S), u), Flat(S)[e]) /\ Mapped(Flat(S), u) \in Seq(Seq(S))
    BY <1>1, MappedAppend
  <2>5. PICK m \in Seq(Seq(S)) : m = Mapped(Flat(S), u)
    BY <2>4
  <2>6. Flat(S)[e] = FlattenSeq(e) /\ Flat(S)[e] \in Seq(S)
    BY FlattenIn DEF Flat
  <2>7. FlattenSeq(Append(m, Flat(S)[e])) = FlattenSeq(m) \o Flat(S)[e]
    BY <2>6, FlattenAppend
  <2>8. FlattenSeq(v) = FlattenSeq(m)
    BY <1>3, <2>2, <2>5
  <2>9. Append(u, e) \in Seq(Seq(Seq(S)))
    OBVIOUS
  <2> QED
    BY <2>1, <2>2, <2>3, <2>4, <2>5, <2>6, <2>7, <2>8, <2>9
<1> HIDE DEF Good
<1>4. Seq(Seq(Seq(S))) \subseteq Good
  BY <1>2, <1>3, BuiltUp
<1> QED
  BY <1>4 DEF Good

MapAll(f, S) == [s \in Seq(S) |-> Mapped(f, s)]

\* Flattening what was mapped is mapping what was flattened.
LEMMA FlattenMapped ==
  ASSUME NEW S, NEW T, NEW f, Maps(f, S, T), NEW x \in Seq(Seq(S))
  PROVE  FlattenSeq(Mapped(MapAll(f, S), x)) = Mapped(f, FlattenSeq(x))
<1> DEFINE Good == {u \in Seq(Seq(S)) : FlattenSeq(Mapped(MapAll(f, S), u)) = Mapped(f, FlattenSeq(u))}
<1>1. Maps(MapAll(f, S), Seq(S), Seq(T))
  BY MappedIn DEF Maps, MapAll
<1>2. <<>> \in Good
  <2>1. Mapped(MapAll(f, S), <<>>) = <<>> /\ Mapped(f, <<>>) = <<>>
    BY MappedEmpty
  <2> QED
    BY <2>1, FlattenEmpty
<1>3. ASSUME NEW u \in Seq(Seq(S)), NEW e \in Seq(S), u \in Good
      PROVE  Append(u, e) \in Good
  <2>1. FlattenSeq(Append(u, e)) = FlattenSeq(u) \o e
    BY FlattenAppend
  <2>2. PICK v \in Seq(S) : v = FlattenSeq(u)
    BY FlattenIn
  <2>3. Mapped(f, v \o e) = Mapped(f, v) \o Mapped(f, e)
    BY MappedConcat
  <2>4. Mapped(MapAll(f, S), Append(u, e)) = Append(Mapped(MapAll(f, S), u), MapAll(f, S)[e]) /\ Mapped(MapAll(f, S), u) \in Seq(Seq(T))
    BY <1>1, MappedAppend
  <2>5. PICK m \in Seq(Seq(T)) : m = Mapped(MapAll(f, S), u)
    BY <2>4
  <2>6. MapAll(f, S)[e] = Mapped(f, e) /\ MapAll(f, S)[e] \in Seq(T)
    BY MappedIn DEF MapAll
  <2>7. FlattenSeq(Append(m, MapAll(f, S)[e])) = FlattenSeq(m) \o MapAll(f, S)[e]
    BY <2>6, FlattenAppend
  <2>8. FlattenSeq(m) = Mapped(f, v)
    BY <1>3, <2>2, <2>5
  <2>9. Append(u, e) \in Seq(Seq(S))
    OBVIOUS
  <2> QED
    BY <2>1, <2>2, <2>3, <2>4, <2>5, <2>6, <2>7, <2>8, <2>9
<1> HIDE DEF Good
<1>4. Seq(Seq(S)) \subseteq Good
  BY <1>2, <1>3, BuiltUp
<1> QED
  BY <1>4 DEF Good

LEMMA ConcatRange ==
  ASSUME NEW S, NEW s \in Seq(S), NEW t \in Seq(S)
  PROVE  Range(s \o t) \subseteq Range(s) \cup Range(t)
<1>1. PICK l \in Nat, m \in Nat : l = Len(s) /\ m = Len(t)
  OBVIOUS
<1>2. /\ DOMAIN s = 1 .. l /\ DOMAIN t = 1 .. m /\ DOMAIN (s \o t) = 1 .. l + m
      /\ \A i \in 1 .. l + m : (s \o t)[i] = IF i <= l THEN s[i] ELSE t[i - l]
  <2>1. s \o t \in Seq(S) /\ Len(s \o t) = Len(s) + Len(t)
    BY ConcatProperties
  <2>2. DOMAIN (s \o t) = 1 .. Len(s \o t)
    BY <2>1, LenProperties
  <2> QED
    BY <1>1, <2>1, <2>2, ConcatProperties
<1>3. ASSUME NEW i \in 1 .. l + m
      PROVE  (s \o t)[i] \in Range(s) \cup Range(t)
  <2>1. CASE i <= l
    <3>1. i \in DOMAIN s /\ (s \o t)[i] = s[i]
      BY <1>2, <2>1
    <3> QED
      BY <3>1 DEF Range
  <2>2. CASE ~(i <= l)
    <3>1. i - l \in DOMAIN t /\ (s \o t)[i] = t[i - l]
      BY <1>2, <2>2
    <3> QED
      BY <3>1 DEF Range
  <2> QED
    BY <2>1, <2>2
<1> QED
  BY <1>2, <1>3 DEF Range

LEMMA FlattenRange ==
  ASSUME NEW S, NEW s \in Seq(Seq(S))
  PROVE  \A w \in Range(FlattenSeq(s)) : \E n \in DOMAIN s : w \in Range(s[n])
<1> DEFINE Good == {u \in Seq(Seq(S)) :
                      \A w \in Range(FlattenSeq(u)) : \E n \in DOMAIN u : w \in Range(u[n])}
<1>1. <<>> \in Good
  <2>1. Range(<<>>) = {}
    BY DEF Range
  <2> QED
    BY <2>1, FlattenEmpty
<1>2. ASSUME NEW u \in Seq(Seq(S)), NEW e \in Seq(S), u \in Good
      PROVE  Append(u, e) \in Good
  <2>1. PICK v \in Seq(S) : v = FlattenSeq(u)
    BY FlattenIn
  <2>2. FlattenSeq(Append(u, e)) = v \o e
    BY <2>1, FlattenAppend
  <2>3. PICK a : a = Append(u, e)
    OBVIOUS
  <2>4. /\ a \in Seq(Seq(S)) /\ DOMAIN a = 1 .. Len(u) + 1 /\ DOMAIN u = 1 .. Len(u)
        /\ Len(u) \in Nat /\ a[Len(u) + 1] = e /\ \A n \in DOMAIN u : a[n] = u[n]
    BY <2>3, AppendProperties, LenProperties
  <2>5. ASSUME NEW w \in Range(v \o e)
        PROVE  \E n \in DOMAIN a : w \in Range(a[n])
    <3>1. w \in Range(v) \/ w \in Range(e)
      BY ConcatRange
    <3>2. CASE w \in Range(v)
      <4>1. PICK n \in DOMAIN u : w \in Range(u[n])
        BY <1>2, <2>1, <3>2
      <4>2. n \in DOMAIN a /\ a[n] = u[n]
        BY <2>4
      <4> QED
        BY <4>1, <4>2
    <3>3. CASE w \in Range(e)
      <4>1. Len(u) + 1 \in DOMAIN a
        BY <2>4
      <4> QED
        BY <2>4, <3>3, <4>1
    <3> QED
      BY <3>1, <3>2, <3>3
  <2> QED
    BY <2>2, <2>3, <2>4, <2>5
<1> HIDE DEF Good
<1>3. Seq(Seq(S)) \subseteq Good
  BY <1>1, <1>2, BuiltUp
<1> QED
  BY <1>3 DEF Good

\* Nothing occurs twice.
Once(s) == \A j, k \in DOMAIN s : s[j] = s[k] => j = k
PartsOnce(s) ==
  /\ \A n \in DOMAIN s : Once(s[n])
  /\ \A m, n \in DOMAIN s : m # n => Range(s[m]) \cap Range(s[n]) = {}

LEMMA ConcatOnce ==
  ASSUME NEW S, NEW s \in Seq(S), NEW t \in Seq(S), Once(s), Once(t),
         Range(s) \cap Range(t) = {}
  PROVE  Once(s \o t)
<1>1. PICK l \in Nat, m \in Nat : l = Len(s) /\ m = Len(t)
  OBVIOUS
<1>2. /\ DOMAIN s = 1 .. l /\ DOMAIN t = 1 .. m /\ DOMAIN (s \o t) = 1 .. l + m
      /\ \A i \in 1 .. l + m : (s \o t)[i] = IF i <= l THEN s[i] ELSE t[i - l]
  <2>1. s \o t \in Seq(S) /\ Len(s \o t) = Len(s) + Len(t)
    BY ConcatProperties
  <2>2. DOMAIN (s \o t) = 1 .. Len(s \o t)
    BY <2>1, LenProperties
  <2> QED
    BY <1>1, <2>1, <2>2, ConcatProperties
<1>3. \A i \in DOMAIN s, j \in DOMAIN t : s[i] # t[j]
  BY DEF Range
<1>4. ASSUME NEW i \in 1 .. l + m, NEW j \in 1 .. l + m, (s \o t)[i] = (s \o t)[j]
      PROVE  i = j
  <2>1. CASE i <= l /\ j <= l
    <3>1. i \in DOMAIN s /\ j \in DOMAIN s /\ s[i] = s[j]
      BY <1>2, <1>4, <2>1
    <3> QED
      BY <3>1 DEF Once
  <2>2. CASE i <= l /\ ~(j <= l)
    <3>1. i \in DOMAIN s /\ j - l \in DOMAIN t /\ s[i] = t[j - l]
      BY <1>2, <1>4, <2>2
    <3> QED
      BY <1>3, <3>1
  <2>3. CASE ~(i <= l) /\ j <= l
    <3>1. j \in DOMAIN s /\ i - l \in DOMAIN t /\ s[j] = t[i - l]
      BY <1>2, <1>4, <2>3
    <3> QED
      BY <1>3, <3>1
  <2>4. CASE ~(i <= l) /\ ~(j <= l)
    <3>1. i - l \in DOMAIN t /\ j - l \in DOMAIN t /\ t[i - l] = t[j - l]
      BY <1>2, <1>4, <2>4
    <3>2. i - l = j - l
      BY <3>1 DEF Once
    <3> QED
      BY <3>2
  <2> QED
    BY <2>1, <2>2, <2>3, <2>4
<1> QED
  BY <1>2, <1>4 DEF Once

LEMMA FlattenOnce ==
  ASSUME NEW S, NEW s \in Seq(Seq(S)), PartsOnce(s)
  PROVE  Once(FlattenSeq(s))
<1> DEFINE Good == {u \in Seq(Seq(S)) : PartsOnce(u) => Once(FlattenSeq(u))}
<1>1. <<>> \in Good
  BY FlattenEmpty DEF Once
<1>2. ASSUME NEW u \in Seq(Seq(S)), NEW e \in Seq(S), u \in Good
      PROVE  Append(u, e) \in Good
  <2>1. PICK v \in Seq(S) : v = FlattenSeq(u)
    BY FlattenIn
  <2>2. FlattenSeq(Append(u, e)) = v \o e
    BY <2>1, FlattenAppend
  <2>3. PICK a : a = Append(u, e)
    OBVIOUS
  <2>4. PICK l \in Nat : l = Len(u)
    OBVIOUS
  <2>5. /\ a \in Seq(Seq(S)) /\ DOMAIN a = 1 .. l + 1 /\ DOMAIN u = 1 .. l
        /\ a[l + 1] = e /\ \A n \in DOMAIN u : a[n] = u[n]
    BY <2>3, <2>4, AppendProperties, LenProperties
  <2>6. ASSUME PartsOnce(a)
        PROVE  Once(v \o e)
    <3>1. \A n \in 1 .. l : n \in 1 .. l + 1 /\ n # l + 1
      OBVIOUS
    <3>2. l + 1 \in 1 .. l + 1
      OBVIOUS
    <3>3. PartsOnce(u)
      BY <2>5, <2>6, <3>1 DEF PartsOnce
    <3>4. Once(e) /\ \A n \in DOMAIN u : Range(u[n]) \cap Range(e) = {}
      BY <2>5, <2>6, <3>1, <3>2 DEF PartsOnce
    <3>5. Range(v) \cap Range(e) = {}
      BY <2>1, <3>4, FlattenRange
    <3>6. Once(v)
      BY <1>2, <2>1, <3>3
    <3> QED
      BY <3>4, <3>5, <3>6, ConcatOnce
  <2> QED
    BY <2>2, <2>3, <2>5, <2>6
<1> HIDE DEF Good
<1>3. Seq(Seq(S)) \subseteq Good
  BY <1>1, <1>2, BuiltUp
<1> QED
  BY <1>3 DEF Good

-----------------------------------------------------------------------------
(* The inductive invariant                                                 *)

\* The words the previous revision shows and the diff has deleted.
Dropped(w) == LastIs(words[w].outbound, current_revision)

\* The revision being matched is the newest one, and the first one is no revision.
Newest ==
  /\ 1 <= Len(revisions) /\ Len(revisions) <= seen + 1
  /\ \A r \in Published : 2 <= r
  /\ ~Quiescent => current_revision = Len(revisions) /\ 2 <= current_revision

\* The sentences of the paragraphs that were not found again.
SentencesLeft ==
  UNION {ParagraphSentences(PrevParagraphs[i]) : i \in UnmatchedParagraphsPrev}

\* Matched entries have been matched with all their words, except that the
\* sentences left over of the previous revision are flagged in the end.
MatchedWhole ==
  ~Quiescent =>
    /\ \A p \in matchedP : FullParagraph(p) /\ ParagraphWords(p) \subseteq matchedW
    /\ \A s \in matchedS :
         /\ FullSentence(s)
         /\ s \in unmatched_sentences_prev \/ SentenceWords(s) \subseteq matchedW
    /\ \A s \in unmatched_sentences_prev :
         \E p \in Range(PrevParagraphs) : s \in ParagraphSentences(p)
    /\ pc \in {"paragraphs", "sentences"} => unmatched_sentences_prev = {}
    /\ unmatched_sentences_prev # {} => SentencesLeft \subseteq matchedS

\* A matched word is shown again or was deleted, and only words of the previous
\* revision are matched one by one.
MatchedUsed ==
  ~Quiescent =>
    /\ \A w \in matchedW : Dropped(w) \/ w \in Shown(current_revision)
    /\ \A w \in DOMAIN words : Dropped(w) =>
         /\ pc \in {"match", "commit"}
         /\ w \in matchedW \cap matched_words_prev
         /\ w \notin Shown(current_revision)
    /\ matched_words_prev \subseteq WordsAgain

\* The words of the revision being matched are the last ones, and as they were made.
NewbornLast ==
  /\ \A v, w \in DOMAIN words :
       v < w /\ words[w].origin \in Published => words[v].origin \in Published
  /\ ~Quiescent => \A w \in Born(current_revision) :
       /\ words[w].latest = current_revision
       /\ words[w].inbound = <<>> /\ words[w].outbound = <<>>

\* A token has the latest valid revision as its latest one if and only if it is
\* shown there.
LatestShows ==
  \A w \in PublishedWords :
    /\ words[w].latest \in Published
    /\ \A r \in Published : LastIs(ordered_revisions, r) => (words[w].latest = r <=> w \in Shown(r))

\* Every revision but the first entry has one of the texts.
TextsRead == \A r \in DOMAIN revisions : 2 <= r => revisions[r].text \in Texts

LedgerInv == Newest /\ TextsRead /\ MatchedWhole /\ MatchedUsed /\ NewbornLast /\ LatestShows

USE DEF vars, input, arrays, results, internals, flags, locals, None, Stages, Quiescent

-----------------------------------------------------------------------------
(* The newest revision                                                     *)

LEMMA NewestStep ==
  ASSUME TypeOK, TypeOK', Newest, [Next]_vars
  PROVE  Newest'
<1>1. /\ DOMAIN revisions = 1 .. Len(revisions) /\ Len(revisions) \in Nat
      /\ DOMAIN revisions' = 1 .. Len(revisions') /\ Len(revisions') \in Nat
      /\ seen \in Nat
  BY ElementIn DEF TypeOK
<1>2. ~Commit => UNCHANGED <<Published, ordered_revisions>>
  BY PublishedStep
<1>3. ASSUME NEW xml \in XmlRevisions, BeginRevision(xml)
      PROVE  Newest'
  <2>1. Len(revisions') = Len(revisions) + 1 /\ current_revision' = Len(revisions) + 1
    BY <1>3, BeginDoes DEF Added
  <2>2. seen' = seen + 1 /\ ~Commit
    BY <1>3 DEF BeginRevision, ReadRevision, Commit
  <2> QED
    BY <1>1, <1>2, <2>1, <2>2 DEF Newest
<1>4. CASE Commit
  <2>1. Published' = Published \cup {current_revision}
    BY <1>4, PublishedStep
  <2> QED
    BY <1>1, <1>4, <2>1 DEF Newest, Commit
<1>5. CASE ReuseParagraph \/ NewParagraph \/ AddWord
  <2>1. DOMAIN revisions' = DOMAIN revisions
    BY <1>5, ReuseParagraphDoes, NewParagraphDoes, AddWordDoes, SMTT(30) DEF StoredParagraph
  <2>2. Len(revisions') = Len(revisions)
    <3>1. \A m, n \in Nat : 1 .. m = 1 .. n => m = n
      <4>1. \A m, n \in Nat : 1 .. m = 1 .. n => m <= n
        BY SMTT(30)
      <4> QED
        BY <4>1
    <3>2. 1 .. Len(revisions') = 1 .. Len(revisions)
      BY <1>1, <2>1
    <3> QED
      BY <1>1, <3>1, <3>2
  <2>3. UNCHANGED <<pc, seen, current_revision>> /\ ~Commit /\ ~Quiescent
    BY <1>5 DEF ReuseParagraph, NewParagraph, AddWord, Commit
  <2> QED
    BY <1>1, <1>2, <2>2, <2>3 DEF Newest
<1>6. CASE ~(Commit \/ ReuseParagraph \/ NewParagraph \/ AddWord
             \/ \E xml \in XmlRevisions : BeginRevision(xml))
  <2>1. /\ UNCHANGED revisions /\ seen <= seen'
        /\ ~Quiescent' => ~Quiescent /\ UNCHANGED current_revision
    BY <1>1, <1>6 DEF Next, SkipDeleted, RejectByContent, ReadRevision, EndParagraphs,
       ReuseSentence, NewSentence, EndSentences, RejectDense, StartDiff,
       KeepWord, DropWord, EndWords, Discard, EndOfPage, Finished
  <2>2. seen' \in Nat
    BY DEF TypeOK
  <2> QED
    BY <1>1, <1>2, <1>6, <2>1, <2>2 DEF Newest
<1> QED
  BY <1>3, <1>4, <1>5, <1>6

LEMMA TextsReadStep ==
  ASSUME TypeOK, TextsRead, [Next]_vars
  PROVE  TextsRead'
<1>1. ASSUME NEW xml \in XmlRevisions, BeginRevision(xml)
      PROVE  TextsRead'
  <2>1. /\ Added(revisions, revisions', NewRevision(xml, seen'))
        /\ revisions'[Len(revisions) + 1].text = xml.text
    BY <1>1, BeginDoes
  <2>2. xml.text \in Texts
    BY <1>1, InputAssumption DEF BeginRevision
  <2>3. \A r \in DOMAIN revisions' : r \in DOMAIN revisions \/ r = Len(revisions) + 1
    BY <2>1 DEF Added
  <2> QED
    BY <2>1, <2>2, <2>3 DEF TextsRead, Added
<1>2. CASE ReuseParagraph \/ NewParagraph \/ AddWord
  <2>1. /\ DOMAIN revisions' = DOMAIN revisions
        /\ \A r \in DOMAIN revisions : revisions'[r].text = revisions[r].text
    <3>1. ASSUME NEW p, StoredParagraph(p)
          PROVE  /\ DOMAIN revisions' = DOMAIN revisions
                 /\ \A r \in DOMAIN revisions : revisions'[r].text = revisions[r].text
      BY <3>1 DEF StoredParagraph
    <3>2. CASE AddWord
      BY <3>2, AddWordDoes
    <3>3. CASE ReuseParagraph
      BY <3>1, <3>3, ReuseParagraphDoes
    <3>4. CASE NewParagraph
      BY <3>1, <3>4, NewParagraphDoes
    <3> QED
      BY <1>2, <3>2, <3>3, <3>4
  <2> QED
    BY <2>1 DEF TextsRead
<1>3. CASE ~(ReuseParagraph \/ NewParagraph \/ AddWord
             \/ \E xml \in XmlRevisions : BeginRevision(xml))
  <2>1. UNCHANGED revisions
    BY <1>3 DEF Next, SkipDeleted, RejectByContent, EndParagraphs,
       ReuseSentence, NewSentence, EndSentences, RejectDense, StartDiff,
       KeepWord, DropWord, EndWords, Commit, Discard, EndOfPage, Finished
  <2> QED
    BY <2>1 DEF TextsRead
<1> QED
  BY <1>1, <1>2, <1>3

-----------------------------------------------------------------------------
(* The words of the revision being matched                                 *)

\* Every word was introduced by a valid revision or by the one being matched.
LEMMA OriginsKnown ==
  ASSUME TypeOK, AddsMatch
  PROVE  \A w \in DOMAIN words :
           /\ words[w].origin \in DOMAIN revisions
           /\ words[w].origin \in Published \/ (~Quiescent /\ w \in Born(current_revision))
<1> SUFFICES ASSUME NEW w \in DOMAIN words
             PROVE  /\ words[w].origin \in DOMAIN revisions
                    /\ words[w].origin \in Published
                       \/ (~Quiescent /\ w \in Born(current_revision))
  OBVIOUS
<1>1. words[w].origin \in DOMAIN revisions
  BY PartsIn DEF WordType
<1>2. w \in Born(words[w].origin)
  BY DEF Born
<1> QED
  BY <1>1, <1>2 DEF AddsMatch

\* Only three steps change words, and no step but the last of a revision
\* changes what is published.
LEMMA WordsStay ==
  ASSUME [Next]_vars, ~AddWord, ~DropWord, ~Commit
  PROVE  UNCHANGED words
  BY DEF Next, SkipDeleted, RejectByContent, BeginRevision, ReuseParagraph, NewParagraph,
     EndParagraphs, ReuseSentence, NewSentence, EndSentences, RejectDense, StartDiff,
     KeepWord, EndWords, Discard, EndOfPage, Finished

\* The word that a deletion of the diff ends.
LEMMA DropWordEnds ==
  ASSUME TypeOK, DropWord
  PROVE  \E w \in DOMAIN words :
           /\ w \in WordsAgain \ matchedW
           /\ DOMAIN words' = DOMAIN words
           /\ \A v \in DOMAIN words : v # w => words'[v] = words[v]
           /\ words'[w].value = words[w].value
           /\ words'[w].origin = words[w].origin
           /\ words'[w].latest = words[w].latest
           /\ words'[w].inbound = words[w].inbound
           /\ words'[w].outbound = Append(words[w].outbound, current_revision)
           /\ matchedW' = matchedW \cup {w}
           /\ matched_words_prev' = matched_words_prev \cup {w}
<1>1. PICK s \in First(PendingSentences) :
        \E w \in Earliest(Free(PendingToken(s))) :
          /\ MarkWord(w.id)
          /\ words' = [words EXCEPT ![w.id].outbound = Append(@, current_revision)]
  BY DEF DropWord
<1>2. PICK w \in Earliest(Free(PendingToken(s))) :
          /\ MarkWord(w.id)
          /\ words' = [words EXCEPT ![w.id].outbound = Append(@, current_revision)]
  BY <1>1
<1>3. w.id \in WordsAgain \ matchedW /\ w.id \in DOMAIN words
  BY AgainIn, CandidatesIn DEF Earliest, Free
<1>4. words[w.id] \in WordType(DOMAIN revisions)
  BY <1>3, PartsIn
<1>5. /\ words'[w.id].value = words[w.id].value
      /\ words'[w.id].origin = words[w.id].origin
      /\ words'[w.id].latest = words[w.id].latest
      /\ words'[w.id].inbound = words[w.id].inbound
      /\ words'[w.id].outbound = Append(words[w.id].outbound, current_revision)
  BY <1>2, <1>3, <1>4 DEF WordType
<1>6. DOMAIN words' = DOMAIN words /\ \A v \in DOMAIN words : v # w.id => words'[v] = words[v]
  BY <1>2
<1> QED
  BY <1>2, <1>3, <1>5, <1>6 DEF MarkWord

LEMMA NewbornStep ==
  ASSUME TypeOK, TypeOK', TextInv, OnceInv, AddsMatch, NewbornLast, Grows, [Next]_vars
  PROVE  NewbornLast'
<1>1. \A w \in DOMAIN words :
        words[w].origin \in DOMAIN revisions /\ w \in DOMAIN words' /\ words'[w].origin = words[w].origin
  BY OriginsKnown DEF Grows, ValuesKept
<1>2. ~Quiescent => current_revision \notin Published
  BY DEF TextInv, CurrentUnpublished
<1>3. CASE Commit
  <2>1. Published' = Published \cup {current_revision} /\ Quiescent' /\ ~Quiescent
    BY <1>3, PublishedStep DEF Commit
  <2>2. DOMAIN words' = DOMAIN words
    BY <1>3 DEF Commit
  <2>3. \A w \in DOMAIN words : words[w].origin \in Published \cup {current_revision}
    BY OriginsKnown DEF Born
  <2> QED
    BY <1>1, <2>1, <2>2, <2>3 DEF NewbornLast
<1>4. CASE AddWord
  <2>1. PICK s : Added(words, words', NewWord(PendingToken(s)))
    BY <1>4, AddWordDoes
  <2>2. UNCHANGED <<pc, current_revision>> /\ Published' = Published /\ ~Quiescent
    BY <1>4, PublishedStep DEF AddWord, Commit
  <2>3. /\ words'[Len(words) + 1].origin = current_revision
        /\ words'[Len(words) + 1].latest = current_revision
        /\ words'[Len(words) + 1].inbound = <<>> /\ words'[Len(words) + 1].outbound = <<>>
    BY <2>1 DEF Added, NewWord
  <2>4. /\ DOMAIN words = 1 .. Len(words) /\ Len(words) \in Nat
        /\ DOMAIN words' = 1 .. Len(words) + 1
        /\ \A w \in DOMAIN words : words'[w] = words[w]
    BY <2>1 DEF Added
  <2>5. \A w \in DOMAIN words' : w \in DOMAIN words \/ w = Len(words) + 1
    BY <2>4
  <2>6. \A v, w \in DOMAIN words' :
          v < w /\ words'[w].origin \in Published => words'[v].origin \in Published
    <3> SUFFICES ASSUME NEW v \in DOMAIN words', NEW w \in DOMAIN words',
                        v < w, words'[w].origin \in Published
                 PROVE  words'[v].origin \in Published
      OBVIOUS
    <3>1. w \in DOMAIN words
      BY <1>2, <2>2, <2>3, <2>5
    <3>2. v \in DOMAIN words
      BY <2>4, <3>1
    <3> QED
      BY <2>4, <3>1, <3>2 DEF NewbornLast
  <2>7. \A w \in DOMAIN words' : words'[w].origin = current_revision =>
          /\ words'[w].latest = current_revision
          /\ words'[w].inbound = <<>> /\ words'[w].outbound = <<>>
    BY <2>2, <2>3, <2>4, <2>5 DEF NewbornLast, Born
  <2> QED
    BY <2>2, <2>6, <2>7 DEF NewbornLast, Born
<1>5. CASE DropWord
  <2>1. PICK w \in DOMAIN words :
          /\ w \in WordsAgain
          /\ DOMAIN words' = DOMAIN words
          /\ \A v \in DOMAIN words : v # w => words'[v] = words[v]
    BY <1>5, DropWordEnds
  <2>2. UNCHANGED <<pc, current_revision>> /\ Published' = Published /\ ~Quiescent
    BY <1>5, PublishedStep DEF DropWord, Commit
  <2>3. words[w].origin \in Published
    BY <2>1, <2>2, AgainPublished
  <2> QED
    BY <1>1, <1>2, <2>1, <2>2, <2>3 DEF NewbornLast, Born
<1>6. ASSUME NEW xml \in XmlRevisions, BeginRevision(xml)
      PROVE  NewbornLast'
  <2>1. UNCHANGED words /\ Published' = Published
    BY <1>6, PublishedStep DEF BeginRevision, ReadRevision, Commit
  <2>2. current_revision' \notin DOMAIN revisions
    BY <1>6, BeginDoes DEF Added
  <2> QED
    BY <1>1, <2>1, <2>2 DEF NewbornLast, Born
<1>7. CASE ~(Commit \/ AddWord \/ DropWord \/ \E xml \in XmlRevisions : BeginRevision(xml))
  <2>1. UNCHANGED words /\ Published' = Published
    BY <1>7, WordsStay, PublishedStep
  <2>2. ~Quiescent' => ~Quiescent /\ UNCHANGED current_revision
    BY <1>7 DEF Next, SkipDeleted, RejectByContent, ReadRevision, ReuseParagraph, NewParagraph,
       EndParagraphs, ReuseSentence, NewSentence, EndSentences, RejectDense, StartDiff,
       KeepWord, EndWords, Discard, EndOfPage, Finished
  <2> QED
    BY <2>1, <2>2 DEF NewbornLast, Born
<1> QED
  BY <1>3, <1>4, <1>5, <1>6, <1>7

-----------------------------------------------------------------------------
(* What is matched, is matched with all its words                          *)

LEMMA LeftSentences ==
  /\ SentencesLeft = {c.id : c \in SentencesPrev}
  /\ SentencesLeft \subseteq UNION {ParagraphSentences(p) : p \in Range(PrevParagraphs)}
<1>1. ASSUME NEW s \in SentencesLeft
      PROVE  \E c \in SentencesPrev : c.id = s
  <2>1. PICK i \in UnmatchedParagraphsPrev :
          \E j \in DOMAIN paragraphs[PrevParagraphs[i]].sentences_ordered :
            s = paragraphs[PrevParagraphs[i]].sentences_ordered[j]
    BY DEF SentencesLeft, ParagraphSentences, Range
  <2>2. PICK j \in DOMAIN paragraphs[PrevParagraphs[i]].sentences_ordered :
            s = paragraphs[PrevParagraphs[i]].sentences_ordered[j]
    BY <2>1
  <2> DEFINE c == [at |-> <<0, i, j>>, id |-> paragraphs[PrevParagraphs[i]].sentences_ordered[j]]
  <2>3. c \in SentencesPrev
    BY DEF SentencesPrev
  <2> QED
    BY <2>2, <2>3
<1>2. ASSUME NEW c \in SentencesPrev
      PROVE  c.id \in SentencesLeft
  <2>1. PICK i \in UnmatchedParagraphsPrev :
          \E j \in DOMAIN paragraphs[PrevParagraphs[i]].sentences_ordered :
            c.id = paragraphs[PrevParagraphs[i]].sentences_ordered[j]
    BY DEF SentencesPrev
  <2> QED
    BY <2>1 DEF SentencesLeft, ParagraphSentences, Range
<1>3. SentencesLeft \subseteq UNION {ParagraphSentences(p) : p \in Range(PrevParagraphs)}
  BY DEF SentencesLeft, UnmatchedParagraphsPrev, Range
<1> QED
  BY <1>1, <1>2, <1>3

\* What the previous revision shows, is settled while a revision is matched.
LEMMA PrevStays ==
  ASSUME TypeOK, TypeOK', TextInv, Grows, UNCHANGED revision_prev
  PROVE  /\ PrevParagraphs' = PrevParagraphs
         /\ \A p \in Range(PrevParagraphs) :
              /\ p \in DOMAIN paragraphs
              /\ ParagraphSentences(p)' = ParagraphSentences(p)
              /\ ParagraphWords(p)' = ParagraphWords(p)
         /\ WordsAgain' = WordsAgain
         /\ matchedP \subseteq matchedP' => SentencesLeft' \subseteq SentencesLeft
<1>1. /\ PrevParagraphs' = PrevParagraphs
      /\ \A p \in Range(PrevParagraphs) :
           /\ p \in DOMAIN paragraphs
           /\ ParagraphSentences(p)' = ParagraphSentences(p)
           /\ ParagraphWords(p)' = ParagraphWords(p)
  <2>1. CASE revision_prev = None
    BY <2>1 DEF PrevParagraphs, Range
  <2>2. CASE revision_prev # None
    <3>1. revision_prev \in Published
      BY <2>2 DEF TextInv, PrevPublished
    <3> QED
      BY <2>2, <3>1, ShownStays DEF PrevParagraphs, TextInv
  <2> QED
    BY <2>1, <2>2
<1>2. WordsAgain' = WordsAgain
  BY <1>1 DEF WordsAgain
<1>3. ASSUME matchedP \subseteq matchedP'
      PROVE  SentencesLeft' \subseteq SentencesLeft
  <2>1. UnmatchedParagraphsPrev' \subseteq UnmatchedParagraphsPrev
    BY <1>1, <1>3 DEF UnmatchedParagraphsPrev
  <2>2. \A i \in UnmatchedParagraphsPrev : PrevParagraphs[i] \in Range(PrevParagraphs)
    BY DEF UnmatchedParagraphsPrev, Range
  <2> QED
    BY <1>1, <2>1, <2>2 DEF SentencesLeft
<1> QED
  BY <1>1, <1>2, <1>3

\* What was matched with all its words, still is.
LEMMA WholeStays ==
  ASSUME TypeOK, TypeOK', TextInv, Grows, MatchedWhole, ~Quiescent, UNCHANGED revision_prev,
         matchedW \subseteq matchedW'
  PROVE  /\ \A p \in DOMAIN paragraphs :
              FullParagraph(p) /\ ParagraphWords(p) \subseteq matchedW'
                => FullParagraph(p)' /\ ParagraphWords(p)' \subseteq matchedW'
         /\ \A s \in DOMAIN sentences :
              FullSentence(s) /\ SentenceWords(s) \subseteq matchedW'
                => FullSentence(s)' /\ SentenceWords(s)' \subseteq matchedW'
         /\ \A p \in matchedP : FullParagraph(p)' /\ ParagraphWords(p)' \subseteq matchedW'
         /\ \A s \in matchedS :
              /\ FullSentence(s)'
              /\ s \in unmatched_sentences_prev \/ SentenceWords(s)' \subseteq matchedW'
         /\ \A s \in unmatched_sentences_prev :
              \E p \in Range(PrevParagraphs') : s \in ParagraphSentences(p)'
<1>1. \A p \in DOMAIN paragraphs :
        FullParagraph(p) => FullParagraph(p)' /\ ParagraphWords(p)' = ParagraphWords(p)
  BY FullStays
<1>2. \A s \in DOMAIN sentences :
        FullSentence(s) => FullSentence(s)' /\ SentenceWords(s)' = SentenceWords(s)
  BY FullStays
<1>3. matchedP \subseteq DOMAIN paragraphs /\ matchedS \subseteq DOMAIN sentences
  BY DEF TypeOK
<1>4. \A p \in Range(PrevParagraphs) : ParagraphSentences(p)' = ParagraphSentences(p)
  BY PrevStays
<1>5. PrevParagraphs' = PrevParagraphs
  BY PrevStays
<1>6. \A p \in matchedP : FullParagraph(p)' /\ ParagraphWords(p)' \subseteq matchedW'
  BY <1>1, <1>3 DEF MatchedWhole
<1>7. \A s \in matchedS :
        /\ FullSentence(s)'
        /\ s \in unmatched_sentences_prev \/ SentenceWords(s)' \subseteq matchedW'
  BY <1>2, <1>3 DEF MatchedWhole
<1>8. \A s \in unmatched_sentences_prev :
        \E p \in Range(PrevParagraphs') : s \in ParagraphSentences(p)'
  BY <1>4, <1>5 DEF MatchedWhole
<1> QED
  BY <1>1, <1>2, <1>6, <1>7, <1>8

LEMMA MatchedWholeStep ==
  ASSUME TypeOK, TypeOK', TextInv, MatchesListed, MatchedWhole, Grows, [Next]_vars
  PROVE  MatchedWhole'
<1>1. CASE Quiescent'
  BY <1>1 DEF MatchedWhole
<1>2. ASSUME NEW xml \in XmlRevisions, BeginRevision(xml)
      PROVE  MatchedWhole'
  <2>1. matchedP' = {} /\ matchedS' = {} /\ unmatched_sentences_prev' = {}
    BY <1>2 DEF BeginRevision, ReadRevision, MatchesListed
  <2> QED
    BY <2>1 DEF MatchedWhole
<1>3. CASE ReuseParagraph
  <2>1. PICK p \in FoundAgain :
          /\ \A q \in matchedP' : \/ q \in matchedP \cup {p}
                                  \/ q \in FoundAgain /\ ParagraphWords(q) \subseteq matchedW
          /\ matchedS' = matchedS \cup ParagraphSentences(p)
          /\ matchedW' = matchedW \cup ParagraphWords(p)
    BY <1>3, ReuseParagraphDoes
  <2>2. UNCHANGED <<pc, revision_prev, unmatched_sentences_prev>> /\ pc = "paragraphs"
    BY <1>3 DEF ReuseParagraph
  <2>3. /\ \A q \in DOMAIN paragraphs :
             FullParagraph(q) /\ ParagraphWords(q) \subseteq matchedW'
               => FullParagraph(q)' /\ ParagraphWords(q)' \subseteq matchedW'
        /\ \A s \in DOMAIN sentences :
             FullSentence(s) /\ SentenceWords(s) \subseteq matchedW'
               => FullSentence(s)' /\ SentenceWords(s)' \subseteq matchedW'
        /\ \A q \in matchedP : FullParagraph(q)' /\ ParagraphWords(q)' \subseteq matchedW'
        /\ \A s \in matchedS :
             /\ FullSentence(s)'
             /\ s \in unmatched_sentences_prev \/ SentenceWords(s)' \subseteq matchedW'
    BY <2>1, <2>2, WholeStays
  <2>4. \A q \in FoundAgain : q \in DOMAIN paragraphs /\ FullParagraph(q)
    BY AgainFull DEF TextInv
  <2>5. unmatched_sentences_prev = {}
    BY <2>2 DEF MatchedWhole
  <2>6. \A q \in matchedP' : FullParagraph(q)' /\ ParagraphWords(q)' \subseteq matchedW'
    BY <2>1, <2>3, <2>4
  <2>7. \A s \in ParagraphSentences(p) :
          FullSentence(s) /\ s \in DOMAIN sentences /\ SentenceWords(s) \subseteq matchedW'
    BY <2>1, <2>4, PartsIn DEF FullParagraph, ParagraphWords
  <2>8. \A s \in matchedS' : FullSentence(s)' /\ SentenceWords(s)' \subseteq matchedW'
    BY <2>1, <2>3, <2>5, <2>7
  <2> QED
    BY <2>2, <2>5, <2>6, <2>8 DEF MatchedWhole
<1>4. CASE NewParagraph
  <2>1. \A q \in matchedP' : \/ q \in matchedP
                             \/ q \in FoundAgain /\ ParagraphWords(q) \subseteq matchedW
    BY <1>4, NewParagraphDoes
  <2>2. UNCHANGED <<pc, revision_prev, unmatched_sentences_prev, matchedS, matchedW>>
        /\ pc = "paragraphs"
    BY <1>4 DEF NewParagraph
  <2>3. /\ \A q \in DOMAIN paragraphs :
             FullParagraph(q) /\ ParagraphWords(q) \subseteq matchedW'
               => FullParagraph(q)' /\ ParagraphWords(q)' \subseteq matchedW'
        /\ \A q \in matchedP : FullParagraph(q)' /\ ParagraphWords(q)' \subseteq matchedW'
        /\ \A s \in matchedS :
             /\ FullSentence(s)'
             /\ s \in unmatched_sentences_prev \/ SentenceWords(s)' \subseteq matchedW'
    BY <2>2, WholeStays
  <2>4. \A q \in FoundAgain : q \in DOMAIN paragraphs /\ FullParagraph(q)
    BY AgainFull DEF TextInv
  <2>5. unmatched_sentences_prev = {}
    BY <2>2 DEF MatchedWhole
  <2>6. \A q \in matchedP' : FullParagraph(q)' /\ ParagraphWords(q)' \subseteq matchedW'
    BY <2>1, <2>2, <2>3, <2>4
  <2>7. /\ unmatched_sentences_prev' = {} /\ matchedS' = matchedS
        /\ \A s \in matchedS : FullSentence(s)' /\ SentenceWords(s)' \subseteq matchedW'
    BY <2>2, <2>3, <2>5
  <2> QED
    BY <2>6, <2>7 DEF MatchedWhole
<1>5. CASE ReuseSentence \/ NewSentence
  <2>1. \A t \in matchedS' :
          t \in matchedS \/ (t \in SentencesAgain /\ SentenceWords(t) \subseteq matchedW')
    <3>1. CASE ReuseSentence
      <4>1. PICK s \in SentencesAgain :
              /\ \A t \in matchedS' :
                   \/ t \in matchedS \cup {s}
                   \/ t \in SentencesAgain /\ SentenceWords(t) \subseteq matchedW
              /\ matchedW' = matchedW \cup SentenceWords(s)
        BY <3>1, ReuseSentenceDoes
      <4> QED
        BY <4>1
    <3>2. CASE NewSentence
      <4>1. UNCHANGED matchedW
        BY <3>2 DEF NewSentence
      <4> QED
        BY <3>2, <4>1, NewSentenceDoes
    <3> QED
      BY <1>5, <3>1, <3>2
  <2>2. /\ UNCHANGED <<pc, revision_prev, unmatched_sentences_prev, matchedP>>
        /\ pc = "sentences" /\ matchedW \subseteq matchedW'
    BY <1>5 DEF ReuseSentence, NewSentence
  <2>3. /\ \A s \in DOMAIN sentences :
             FullSentence(s) /\ SentenceWords(s) \subseteq matchedW'
               => FullSentence(s)' /\ SentenceWords(s)' \subseteq matchedW'
        /\ \A q \in matchedP : FullParagraph(q)' /\ ParagraphWords(q)' \subseteq matchedW'
        /\ \A s \in matchedS :
             /\ FullSentence(s)'
             /\ s \in unmatched_sentences_prev \/ SentenceWords(s)' \subseteq matchedW'
    BY <2>2, WholeStays
  <2>4. \A s \in SentencesAgain : s \in DOMAIN sentences /\ FullSentence(s)
    BY AgainFull DEF TextInv
  <2>5. unmatched_sentences_prev = {}
    BY <2>2 DEF MatchedWhole
  <2>6. \A s \in matchedS' : FullSentence(s)' /\ SentenceWords(s)' \subseteq matchedW'
    BY <2>1, <2>3, <2>4, <2>5
  <2> QED
    BY <2>2, <2>3, <2>5, <2>6 DEF MatchedWhole
<1>6. CASE EndSentences
  <2>1. /\ UNCHANGED <<revision_prev, matchedP, matchedW, arrays>>
        /\ pc = "sentences" /\ pc' \in {"commit", "words"}
        /\ unmatched_sentences_prev' = {c.id : c \in SentencesPrev} \ matchedS
        /\ matchedS' = matchedS \cup unmatched_sentences_prev'
    BY <1>6 DEF EndSentences, MarkSentences
  <2>2. unmatched_sentences_prev = {}
    BY <2>1 DEF MatchedWhole
  <2>3. /\ \A q \in matchedP : FullParagraph(q)' /\ ParagraphWords(q)' \subseteq matchedW'
        /\ \A s \in matchedS :
             /\ FullSentence(s)'
             /\ s \in unmatched_sentences_prev \/ SentenceWords(s)' \subseteq matchedW'
    BY <2>1, WholeStays
  <2>4. unmatched_sentences_prev' = SentencesLeft \ matchedS
    BY <2>1, LeftSentences
  <2>5. /\ PrevParagraphs' = PrevParagraphs
        /\ \A p \in Range(PrevParagraphs) : ParagraphSentences(p)' = ParagraphSentences(p)
        /\ SentencesLeft' \subseteq SentencesLeft
    BY <2>1, PrevStays
  <2>6. \A s \in unmatched_sentences_prev' :
          \E p \in Range(PrevParagraphs') : s \in ParagraphSentences(p)'
    BY <2>4, <2>5, LeftSentences
  <2>7. \A s \in SentencesAgain : s \in DOMAIN sentences /\ FullSentence(s)
    BY AgainFull DEF TextInv
  <2>8. \A s \in unmatched_sentences_prev' : FullSentence(s)
    BY <2>4, <2>7, LeftSentences DEF SentencesAgain
  <2>9. \A s \in DOMAIN sentences : FullSentence(s) => FullSentence(s)'
    BY FullStays
  <2>10. \A s \in matchedS' :
           /\ FullSentence(s)'
           /\ s \in unmatched_sentences_prev' \/ SentenceWords(s)' \subseteq matchedW'
    <3>1. unmatched_sentences_prev' \subseteq DOMAIN sentences
      BY <2>1, CandidatesIn
    <3> QED
      BY <2>1, <2>2, <2>3, <2>8, <2>9, <3>1
  <2>11. SentencesLeft' \subseteq matchedS'
    BY <2>1, <2>4, <2>5
  <2> QED
    BY <2>1, <2>3, <2>6, <2>10, <2>11 DEF MatchedWhole
<1>7. CASE ~Quiescent' /\ ~(ReuseParagraph \/ NewParagraph \/ ReuseSentence \/ NewSentence
                            \/ EndSentences \/ \E xml \in XmlRevisions : BeginRevision(xml))
  <2>1. /\ UNCHANGED <<revision_prev, matchedP, matchedS, unmatched_sentences_prev>>
        /\ ~Quiescent /\ matchedW \subseteq matchedW'
        /\ pc' \in {"paragraphs", "sentences"} => pc \in {"paragraphs", "sentences"}
    BY <1>7 DEF Next, SkipDeleted, RejectByContent, ReadRevision, EndParagraphs,
       RejectDense, StartDiff, KeepWord, DropWord, MarkWord, AddWord, EndWords, Commit,
       Discard, EndOfPage, Finished
  <2>2. /\ \A q \in matchedP : FullParagraph(q)' /\ ParagraphWords(q)' \subseteq matchedW'
        /\ \A s \in matchedS :
             /\ FullSentence(s)'
             /\ s \in unmatched_sentences_prev \/ SentenceWords(s)' \subseteq matchedW'
        /\ \A s \in unmatched_sentences_prev :
             \E p \in Range(PrevParagraphs') : s \in ParagraphSentences(p)'
    BY <2>1, WholeStays
  <2>3. SentencesLeft' \subseteq SentencesLeft
    BY <2>1, PrevStays
  <2> QED
    BY <2>1, <2>2, <2>3 DEF MatchedWhole
<1> QED
  BY <1>1, <1>2, <1>3, <1>4, <1>5, <1>6, <1>7

-----------------------------------------------------------------------------
(* A matched word is shown again or was deleted                            *)

\* A revision never shows less than it did.
LEMMA ShownGrows ==
  ASSUME TypeOK, TypeOK', Grows, NEW r \in DOMAIN revisions
  PROVE  /\ Range(revisions[r].paragraphs_ordered) \subseteq Range(revisions'[r].paragraphs_ordered)
         /\ \A p \in DOMAIN paragraphs : ParagraphSentences(p) \subseteq ParagraphSentences(p)'
         /\ \A s \in DOMAIN sentences : SentenceWords(s) \subseteq SentenceWords(s)'
         /\ Shown(r) \subseteq Shown(r)'
<1>1. Range(revisions[r].paragraphs_ordered) \subseteq Range(revisions'[r].paragraphs_ordered)
  <2>1. revisions[r].paragraphs_ordered \in Seq(DOMAIN paragraphs)
    BY PartsIn DEF RevisionType
  <2>2. \A p : Range(Append(revisions[r].paragraphs_ordered, p))
                = Range(revisions[r].paragraphs_ordered) \cup {p}
    BY <2>1, RangeOfAppend
  <2>3. r \in DOMAIN revisions'
    BY DEF Grows, ValuesKept
  <2>4. \/ revisions'[r].paragraphs_ordered = revisions[r].paragraphs_ordered
        \/ \E p : revisions'[r].paragraphs_ordered = Append(revisions[r].paragraphs_ordered, p)
    BY <2>3 DEF Grows, RevisionsGrow, ParagraphsFound
  <2> QED
    BY <2>2, <2>4
<1>2. ASSUME NEW p \in DOMAIN paragraphs
      PROVE  ParagraphSentences(p) \subseteq ParagraphSentences(p)'
  <2>1. paragraphs[p].sentences_ordered \in Seq(DOMAIN sentences)
    BY PartsIn DEF ParagraphType
  <2>2. \A s : Range(Append(paragraphs[p].sentences_ordered, s))
                = Range(paragraphs[p].sentences_ordered) \cup {s}
    BY <2>1, RangeOfAppend
  <2>3. p \in DOMAIN paragraphs'
    BY DEF Grows, ValuesKept
  <2> QED
    BY <2>2, <2>3 DEF Grows, ParagraphsGrow, ParagraphSentences
<1>3. ASSUME NEW s \in DOMAIN sentences
      PROVE  SentenceWords(s) \subseteq SentenceWords(s)'
  <2>1. sentences[s].words_ordered \in Seq(DOMAIN words)
    BY PartsIn DEF SentenceType
  <2>2. \A w : Range(Append(sentences[s].words_ordered, w))
                = Range(sentences[s].words_ordered) \cup {w}
    BY <2>1, RangeOfAppend
  <2>3. s \in DOMAIN sentences'
    BY DEF Grows, ValuesKept
  <2> QED
    BY <2>2, <2>3 DEF Grows, SentencesGrow, SentenceWords
<1>4. \A p \in Range(revisions[r].paragraphs_ordered) : p \in DOMAIN paragraphs
  BY PartsIn, ElementIn DEF RevisionType
<1>5. \A p \in DOMAIN paragraphs : \A s \in ParagraphSentences(p) : s \in DOMAIN sentences
  BY PartsIn
<1>6. \A p \in DOMAIN paragraphs : ParagraphWords(p) \subseteq ParagraphWords(p)'
  BY <1>2, <1>3, <1>5 DEF ParagraphWords
<1>7. Shown(r) \subseteq Shown(r)'
  BY <1>1, <1>4, <1>6 DEF Shown
<1> QED
  BY <1>1, <1>2, <1>3, <1>7

\* The word w stored in a sentence is all that any revision shows more.
LEMMA ShownWithWord ==
  ASSUME TypeOK, NEW s \in DOMAIN sentences, NEW w, StoredWord(s, w), UNCHANGED paragraphs,
         NEW r \in DOMAIN revisions,
         revisions'[r].paragraphs_ordered = revisions[r].paragraphs_ordered
  PROVE  Shown(r)' \subseteq Shown(r) \cup {w}
<1>1. sentences[s].words_ordered \in Seq(DOMAIN words)
  BY PartsIn DEF SentenceType
<1>2. Range(Append(sentences[s].words_ordered, w)) = Range(sentences[s].words_ordered) \cup {w}
  BY <1>1, RangeOfAppend
<1>3. \A q \in DOMAIN sentences : SentenceWords(q)' \subseteq SentenceWords(q) \cup {w}
  BY <1>2 DEF StoredWord, SentenceWords
<1>4. \A p \in DOMAIN paragraphs : \A q \in ParagraphSentences(p) : q \in DOMAIN sentences
  BY PartsIn
<1>5. \A p \in DOMAIN paragraphs : ParagraphWords(p)' \subseteq ParagraphWords(p) \cup {w}
  BY <1>3, <1>4 DEF ParagraphWords, ParagraphSentences
<1>6. \A p \in Range(revisions[r].paragraphs_ordered) : p \in DOMAIN paragraphs
  BY PartsIn, ElementIn DEF RevisionType
<1> QED
  BY <1>5, <1>6 DEF Shown

\* The last element of a sequence to which one was appended.
LEMMA LastAppended ==
  ASSUME NEW S, NEW s \in Seq(S), NEW e
  PROVE  LastIs(Append(s, e), e) /\ \A x : LastIs(s, x) => x \in S
<1>1. LastIs(Append(s, e), e)
  BY Appending DEF LastIs
<1>2. \A x : LastIs(s, x) => x \in S
  BY ElementIn DEF LastIs
<1> QED
  BY <1>1, <1>2

\* A word matched while paragraphs and sentences are reused is shown.
LEMMA ReusedShown ==
  ASSUME TypeOK, TypeOK', TextInv, Grows, ReuseParagraph \/ ReuseSentence,
         NEW r, r = current_revision
  PROVE  matchedW' \subseteq matchedW \cup Shown(r)'
<1>1. CASE ReuseParagraph
  <2>1. PICK p \in FoundAgain :
          StoredParagraph(p) /\ matchedW' = matchedW \cup ParagraphWords(p)
    BY <1>1, ReuseParagraphDoes
  <2>2. p \in DOMAIN paragraphs /\ FullParagraph(p)
    BY AgainFull DEF TextInv
  <2>3. ParagraphWords(p)' = ParagraphWords(p)
    BY <2>2, FullStays
  <2>4. revisions[current_revision].paragraphs_ordered \in Seq(DOMAIN paragraphs)
    BY PartsIn DEF RevisionType, TypeOK
  <2>5. p \in Range(revisions'[current_revision].paragraphs_ordered)
    BY <2>1, <2>4, RangeOfAppend DEF StoredParagraph, ParagraphsFound
  <2>6. current_revision' = current_revision
    BY <1>1 DEF ReuseParagraph
  <2> QED
    BY <2>1, <2>3, <2>5, <2>6 DEF Shown
<1>2. CASE ReuseSentence
  <2>1. PICK p, s :
          /\ AwaitsSentence(p)
          /\ s \in SentencesAgain /\ s \in DOMAIN sentences
          /\ StoredSentence(p, s)
          /\ matchedW' = matchedW \cup SentenceWords(s)
    BY <1>2, ReuseSentenceDoes
  <2>2. /\ p \in DOMAIN paragraphs
        /\ p \in Range(revisions[current_revision].paragraphs_ordered)
    BY <1>2, <2>1 DEF AwaitsSentence, TextInv, Underway, Unmatched, ReuseSentence, ParagraphsFound
  <2>3. SentenceWords(s) \subseteq SentenceWords(s)'
    BY <2>1, ShownGrows DEF TypeOK
  <2>4. paragraphs[p].sentences_ordered \in Seq(DOMAIN sentences)
    BY <2>2, PartsIn DEF ParagraphType
  <2>5. s \in ParagraphSentences(p)'
    BY <2>1, <2>4, RangeOfAppend DEF StoredSentence, ParagraphSentences
  <2>6. UNCHANGED <<current_revision, revisions>>
    BY <1>2 DEF ReuseSentence
  <2> QED
    BY <2>1, <2>2, <2>3, <2>5, <2>6 DEF Shown, ParagraphWords
<1> QED
  BY <1>1, <1>2

LEMMA MatchedUsedStep ==
  ASSUME TypeOK, TypeOK', TextInv, TextInv', MatchesListed, OnceInv, MatchedUsed,
         Grows, [Next]_vars
  PROVE  MatchedUsed'
<1>0. PICK R \in DOMAIN revisions : R = current_revision
  BY DEF TypeOK
<1> USE <1>0
<1>1. CASE Quiescent'
  BY <1>1 DEF MatchedUsed
<1>2. ASSUME NEW xml \in XmlRevisions, BeginRevision(xml)
      PROVE  MatchedUsed'
  <2>1. UNCHANGED words /\ matchedW' = {} /\ matched_words_prev' = {}
    BY <1>2 DEF BeginRevision, ReadRevision, MatchesListed
  <2>2. current_revision' \notin DOMAIN revisions
    BY <1>2, BeginDoes DEF Added
  <2>3. \A w \in DOMAIN words : words[w].outbound \in Seq(DOMAIN revisions)
    BY PartsIn DEF WordType
  <2>4. \A w \in DOMAIN words : ~LastIs(words[w].outbound, current_revision')
    BY <2>2, <2>3, LastAppended
  <2> QED
    BY <2>1, <2>4 DEF MatchedUsed, Dropped
<1>3. CASE ReuseParagraph \/ ReuseSentence
  <2>1. /\ UNCHANGED <<pc, words, current_revision, revision_prev, matched_words_prev>>
        /\ ~Quiescent /\ pc \notin {"match", "commit"}
    BY <1>3 DEF ReuseParagraph, ReuseSentence
  <2>2. matchedW' \subseteq matchedW \cup Shown(R)'
    BY <1>3, ReusedShown
  <2>3. Shown(R) \subseteq Shown(R)'
    BY ShownGrows
  <2>4. WordsAgain' = WordsAgain
    BY <2>1, PrevStays
  <2>5. \A w \in matchedW : w \in Shown(R)
    BY <2>1 DEF MatchedUsed, TypeOK
  <2>6. current_revision' = R
    BY <2>1
  <2>7. \A w \in matchedW' : w \in Shown(R)'
    BY <2>2, <2>3, <2>5
  <2>8. \A w \in DOMAIN words : ~LastIs(words[w].outbound, current_revision)
    BY <2>1 DEF MatchedUsed, Dropped
  <2> QED
    BY <2>1, <2>4, <2>6, <2>7, <2>8 DEF MatchedUsed, Dropped
<1>4. CASE KeepWord
  <2>1. PICK s, w :
          /\ AwaitsWord(s)
          /\ w \in WordsAgain \ matchedW /\ w \in DOMAIN words
          /\ StoredWord(s, w)
          /\ matchedW' = matchedW \cup {w}
    BY <1>4, KeepWordDoes
  <2>2. /\ UNCHANGED <<pc, words, current_revision, revision_prev, revisions, paragraphs,
                       unmatched_sentences_curr>>
        /\ ~Quiescent /\ pc = "match"
    BY <1>4 DEF KeepWord
  <2>3. matched_words_prev' \subseteq WordsAgain
    <3>1. \E v : v \in WordsAgain /\ matched_words_prev' = matched_words_prev \cup {v}
      BY <1>4, AgainIn DEF KeepWord, MarkWord, Earliest, Free
    <3> QED
      BY <2>2, <3>1 DEF MatchedUsed
  <2>4. WordsAgain' = WordsAgain
    BY <2>2, PrevStays
  <2>5. Shown(R) \subseteq Shown(R)' /\ Shown(R)' \subseteq Shown(R) \cup {w} /\ current_revision' = R
    BY <2>1, <2>2, ShownGrows, ShownWithWord DEF TypeOK, AwaitsWord
  <2>6. w \in Shown(R)'
    <3>1. SentenceWords(s)' \subseteq Shown(current_revision)'
      <4>1. PICK p : Unmatched(p)' /\ s \in ParagraphSentences(p)'
        BY <2>1, <2>2 DEF AwaitsWord, UnmatchedSentence, TextInv, Underway
      <4>2. p \in Range(ParagraphsFound')
        BY <2>2, <4>1 DEF TextInv, Underway
      <4> QED
        BY <2>2, <4>1, <4>2 DEF Shown, ParagraphWords, ParagraphsFound
    <3>2. sentences[s].words_ordered \in Seq(DOMAIN words)
      BY <2>1, PartsIn DEF SentenceType, AwaitsWord
    <3>3. w \in SentenceWords(s)'
      BY <2>1, <3>2, RangeOfAppend DEF StoredWord, SentenceWords
    <3> QED
      BY <2>5, <3>1, <3>3
  <2>7. \A v \in matchedW' : LastIs(words[v].outbound, R) \/ v \in Shown(R)'
    BY <2>1, <2>2, <2>5, <2>6 DEF MatchedUsed, Dropped
  <2>8. \A v \in DOMAIN words : LastIs(words[v].outbound, R) =>
           v \in matchedW /\ v \in matched_words_prev /\ v \notin Shown(R)
    BY <2>2 DEF MatchedUsed, Dropped
  <2>9. matched_words_prev \subseteq matched_words_prev'
    BY <1>4 DEF KeepWord, MarkWord
  <2>10. \A v \in DOMAIN words : LastIs(words[v].outbound, R) =>
           v \in matchedW' /\ v \in matched_words_prev' /\ v \notin Shown(R)'
    BY <2>1, <2>5, <2>8, <2>9
  <2> QED
    BY <2>2, <2>3, <2>4, <2>5, <2>7, <2>10 DEF MatchedUsed, Dropped
<1>5. CASE AddWord
  <2>1. PICK s :
          /\ AwaitsWord(s)
          /\ Added(words, words', NewWord(PendingToken(s)))
          /\ StoredWord(s, Len(words) + 1)
          /\ \A r \in DOMAIN revisions :
               revisions'[r].paragraphs_ordered = revisions[r].paragraphs_ordered
    BY <1>5, AddWordDoes
  <2>2. /\ UNCHANGED <<pc, current_revision, revision_prev, paragraphs, matchedW, matched_words_prev>>
        /\ ~Quiescent /\ pc = "match"
    BY <1>5 DEF AddWord
  <2>3. WordsAgain' = WordsAgain
    BY <2>2, PrevStays
  <2>4. /\ Shown(R) \subseteq Shown(R)' /\ Shown(R)' \subseteq Shown(R) \cup {Len(words) + 1}
        /\ current_revision' = R
    BY <2>1, <2>2, ShownGrows, ShownWithWord DEF TypeOK, AwaitsWord
  <2>5. /\ DOMAIN words = 1 .. Len(words) /\ Len(words) \in Nat
        /\ DOMAIN words' = 1 .. Len(words) + 1
        /\ \A v \in DOMAIN words : words'[v] = words[v] /\ v # Len(words) + 1
        /\ ~LastIs(words'[Len(words) + 1].outbound, R)
    BY <2>1 DEF Added, NewWord, LastIs
  <2>6. \A v \in DOMAIN words' : v \in DOMAIN words \/ v = Len(words) + 1
    BY <2>5
  <2>7. matchedW \subseteq DOMAIN words
    BY DEF TypeOK
  <2>8. \A v \in matchedW : LastIs(words'[v].outbound, R) \/ v \in Shown(R)'
    BY <2>2, <2>4, <2>5, <2>7 DEF MatchedUsed, Dropped
  <2>9. \A v \in DOMAIN words' : LastIs(words'[v].outbound, R) =>
           v \in matchedW /\ v \in matched_words_prev /\ v \notin Shown(R)'
    BY <2>2, <2>4, <2>5, <2>6 DEF MatchedUsed, Dropped
  <2> QED
    BY <2>2, <2>3, <2>4, <2>8, <2>9 DEF MatchedUsed, Dropped
<1>6. CASE DropWord
  <2>1. PICK w \in DOMAIN words :
           /\ w \in WordsAgain \ matchedW
           /\ DOMAIN words' = DOMAIN words
           /\ \A v \in DOMAIN words : v # w => words'[v] = words[v]
           /\ words'[w].outbound = Append(words[w].outbound, current_revision)
           /\ matchedW' = matchedW \cup {w}
           /\ matched_words_prev' = matched_words_prev \cup {w}
    BY <1>6, DropWordEnds
  <2>2. /\ UNCHANGED <<pc, current_revision, revision_prev, revisions, paragraphs, sentences>>
        /\ ~Quiescent /\ pc = "match"
    BY <1>6 DEF DropWord
  <2>3. WordsAgain' = WordsAgain
    BY <2>2, PrevStays
  <2>4. Shown(R)' = Shown(R) /\ current_revision' = R
    BY <2>2 DEF Shown, ParagraphWords, ParagraphSentences, SentenceWords
  <2>5. LastIs(words'[w].outbound, R)
    <3>1. words[w].outbound \in Seq(DOMAIN revisions)
      BY PartsIn DEF WordType
    <3> QED
      BY <2>1, <3>1, LastAppended
  <2>6. w \notin Shown(R)
    <3>1. words[w].origin \in Published /\ R \notin Published
      BY <2>1, <2>2, AgainPublished DEF TextInv, CurrentUnpublished
    <3>2. Shown(R) \subseteq Taken
      BY <2>2 DEF OnceInv, TakenWords, Shown, ParagraphsFound
    <3> QED
      BY <2>1, <3>1, <3>2 DEF Taken, Born
  <2>7. matchedW \subseteq DOMAIN words
    BY DEF TypeOK
  <2>8. \A v \in matchedW' : LastIs(words'[v].outbound, R) \/ v \in Shown(R)
    BY <2>1, <2>2, <2>5, <2>7 DEF MatchedUsed, Dropped
  <2>9. \A v \in DOMAIN words : LastIs(words'[v].outbound, R) =>
           v \in matchedW' /\ v \in matched_words_prev' /\ v \notin Shown(R)
    BY <2>1, <2>2, <2>6 DEF MatchedUsed, Dropped
  <2>10. matched_words_prev' \subseteq WordsAgain
    BY <2>1, <2>2 DEF MatchedUsed
  <2> QED
    BY <2>1, <2>2, <2>3, <2>4, <2>8, <2>9, <2>10 DEF MatchedUsed, Dropped
<1>7. CASE ~Quiescent' /\ ~(ReuseParagraph \/ ReuseSentence \/ KeepWord \/ AddWord \/ DropWord
                            \/ \E xml \in XmlRevisions : BeginRevision(xml))
  <2>1. /\ UNCHANGED <<revision_prev, current_revision, words, matchedW, matched_words_prev>>
        /\ ~Quiescent
        /\ pc \in {"match", "commit"} =>
             pc' \in {"match", "commit"} /\ UNCHANGED <<revisions, paragraphs, sentences>>
    BY <1>7 DEF Next, SkipDeleted, RejectByContent, ReadRevision, NewParagraph, EndParagraphs,
       NewSentence, EndSentences, RejectDense, StartDiff, EndWords, Commit,
       Discard, EndOfPage, Finished
  <2>2. WordsAgain' = WordsAgain
    BY <2>1, PrevStays
  <2>3. Shown(R) \subseteq Shown(R)' /\ current_revision' = R
    BY <2>1, ShownGrows DEF TypeOK
  <2>4. pc \in {"match", "commit"} => Shown(R)' = Shown(R)
    BY <2>1 DEF Shown, ParagraphWords, ParagraphSentences, SentenceWords
  <2>5. \A v \in matchedW : LastIs(words[v].outbound, R) \/ v \in Shown(R)'
    BY <2>1, <2>3 DEF MatchedUsed, Dropped
  <2>6. \A v \in DOMAIN words : LastIs(words[v].outbound, R) =>
           /\ pc' \in {"match", "commit"}
           /\ v \in matchedW /\ v \in matched_words_prev /\ v \notin Shown(R)'
    BY <2>1, <2>4 DEF MatchedUsed, Dropped
  <2> QED
    BY <2>1, <2>2, <2>3, <2>5, <2>6 DEF MatchedUsed, Dropped
<1> QED
  BY <1>1, <1>2, <1>3, <1>4, <1>5, <1>6, <1>7

-----------------------------------------------------------------------------
(* What the end of a revision does to the life of a token                  *)

\* The sweep reaches what is left of the previous revision.
LEMMA SweptWords ==
  ASSUME TypeOK, MatchedWhole, ~Quiescent
  PROVE  Swept \subseteq WordsAgain /\ WordsAgain \subseteq Swept \cup matchedW
<1>1. Swept \subseteq WordsAgain
  <2>1. CASE unmatched_sentences_prev # {}
    BY <2>1 DEF Swept, MatchedWhole, WordsAgain, ParagraphWords
  <2>2. CASE unmatched_sentences_prev = {}
    <3>1. \A i \in UnmatchedParagraphsPrev : PrevParagraphs[i] \in Range(PrevParagraphs)
      BY DEF UnmatchedParagraphsPrev, Range
    <3> QED
      BY <2>2, <3>1 DEF Swept, WordsAgain
  <2> QED
    BY <2>1, <2>2
<1>2. ASSUME NEW w \in WordsAgain, w \notin matchedW
      PROVE  w \in Swept
  <2>1. PICK i \in DOMAIN PrevParagraphs : w \in ParagraphWords(PrevParagraphs[i])
    BY <1>2 DEF WordsAgain, Range
  <2>2. i \in UnmatchedParagraphsPrev
    BY <1>2, <2>1 DEF MatchedWhole, UnmatchedParagraphsPrev
  <2>3. PICK s \in ParagraphSentences(PrevParagraphs[i]) : w \in SentenceWords(s)
    BY <2>1 DEF ParagraphWords
  <2>4. s \in SentencesLeft
    BY <2>2, <2>3 DEF SentencesLeft
  <2>5. CASE unmatched_sentences_prev # {}
    <3>1. s \in unmatched_sentences_prev
      BY <1>2, <2>3, <2>4, <2>5 DEF MatchedWhole
    <3> QED
      BY <2>3, <2>5, <3>1 DEF Swept
  <2>6. CASE unmatched_sentences_prev = {}
    BY <2>1, <2>2, <2>6 DEF Swept
  <2> QED
    BY <2>5, <2>6
<1> QED
  BY <1>1, <1>2

\* The fields of a word after the last step of a revision.
LEMMA CommitFields ==
  ASSUME TypeOK, Commit, NEW w \in DOMAIN words
  PROVE  LET ends == w \in Swept \ matchedW
             shows == /\ w \in matchedW /\ w \in Revived \cup matched_words_prev
                      /\ ~Dropped(w)
         IN /\ words'[w].origin = words[w].origin
            /\ words'[w].outbound = IF ends THEN Append(words[w].outbound, current_revision)
                                    ELSE words[w].outbound
            /\ words'[w].latest = IF shows THEN current_revision ELSE words[w].latest
            /\ words'[w].inbound =
                 IF shows /\ w \in Revived /\ words[w].latest # revision_prev
                 THEN Append(words[w].inbound, current_revision) ELSE words[w].inbound
<1> DEFINE word == MaybePushOutbound(w)
<1>1. words[w] \in WordType(DOMAIN revisions)
  BY PartsIn
<1>2. /\ word.origin = words[w].origin /\ word.latest = words[w].latest
      /\ word.inbound = words[w].inbound
      /\ word.outbound = IF w \in Swept \ matchedW THEN Append(words[w].outbound, current_revision)
                         ELSE words[w].outbound
      /\ word = [value |-> word.value, origin |-> word.origin, latest |-> word.latest,
                 inbound |-> word.inbound, outbound |-> word.outbound]
  BY <1>1 DEF MaybePushOutbound, WordType
<1>3. words'[w] = MaybePushInbound(w, word)
  BY DEF Commit
<1> HIDE DEF word
<1>4. w \in matchedW => word.outbound = words[w].outbound
  BY <1>2
<1> DEFINE shows == /\ w \in matchedW /\ w \in Revived \cup matched_words_prev
                    /\ ~LastIs(word.outbound, current_revision)
<1>5. /\ MaybePushInbound(w, word).origin = word.origin
      /\ MaybePushInbound(w, word).outbound = word.outbound
      /\ MaybePushInbound(w, word).latest = IF shows THEN current_revision ELSE word.latest
      /\ MaybePushInbound(w, word).inbound =
           IF shows /\ w \in Revived /\ word.latest # revision_prev
           THEN Append(word.inbound, current_revision) ELSE word.inbound
  <2>1. CASE shows
    BY <1>2, <2>1 DEF MaybePushInbound
  <2>2. CASE ~shows
    BY <1>2, <2>2 DEF MaybePushInbound
  <2> QED
    BY <2>1, <2>2
<1>6. shows <=> /\ w \in matchedW /\ w \in Revived \cup matched_words_prev
                /\ ~Dropped(w)
  BY <1>4 DEF Dropped
<1> QED
  BY <1>2, <1>3, <1>5, <1>6

\* The revision compared with, and the words it shows.
LEMMA PrevLatest ==
  ASSUME TypeOK, TextInv, ComparedWithLatestValid, ~Quiescent, at_least_one
  PROVE  /\ LastIs(ordered_revisions, revision_prev)
         /\ revision_prev \in Published
         /\ WordsAgain = Shown(revision_prev)
<1>1. LastIs(ordered_revisions, revision_prev)
  BY DEF ComparedWithLatestValid
<1>2. revision_prev \in Published /\ revision_prev \in DOMAIN revisions
  BY <1>1, ElementIn DEF TypeOK, LastIs, Published, Range
<1>3. revision_prev # None
  <2>1. DOMAIN revisions = 1 .. Len(revisions)
    BY ElementIn DEF TypeOK
  <2> QED
    BY <1>2, <2>1
<1>4. WordsAgain = Shown(revision_prev)
  BY <1>3 DEF WordsAgain, Shown, PrevParagraphs
<1> QED
  BY <1>1, <1>2, <1>4

\* A token of an earlier revision lives on as the ledger says; the new tokens
\* are left as they were made.
LEMMA CommitLives ==
  ASSUME TypeOK, TextInv, OnceInv, AddsMatch, ComparedWithLatestValid, MatchesListed, LedgerInv,
         Commit, NEW w \in DOMAIN words
  PROVE  LET again == w \in Shown(current_revision)
             ends == ~again /\ w \in WordsAgain /\ ~Dropped(w)
         IN IF words[w].origin \in Published
            THEN /\ words'[w].origin = words[w].origin
                 /\ words'[w].latest = IF again THEN current_revision ELSE words[w].latest
                 /\ words'[w].inbound = IF again /\ w \notin WordsAgain
                                        THEN Append(words[w].inbound, current_revision)
                                        ELSE words[w].inbound
                 /\ words'[w].outbound = IF ends THEN Append(words[w].outbound, current_revision)
                                         ELSE words[w].outbound
                 /\ Dropped(w) => ~again /\ w \in WordsAgain
            ELSE /\ again
                 /\ words'[w].origin = current_revision /\ words'[w].latest = current_revision
                 /\ words'[w].inbound = <<>> /\ words'[w].outbound = <<>>
<1> USE DEF LedgerInv
<1> DEFINE r == current_revision
           shows == /\ w \in matchedW /\ w \in Revived \cup matched_words_prev
                    /\ ~Dropped(w)
<1>1. ~Quiescent /\ pc = "commit" /\ r \notin Published
  BY DEF Commit, TextInv, CurrentUnpublished
<1>2. w \in matchedW => w \in Revived \cup matched_words_prev
  BY <1>1 DEF MatchesListed, ListedWords
<1>3. /\ words'[w].origin = words[w].origin
      /\ words'[w].outbound = IF w \in Swept \ matchedW THEN Append(words[w].outbound, r)
                              ELSE words[w].outbound
      /\ words'[w].latest = IF shows THEN r ELSE words[w].latest
      /\ words'[w].inbound = IF shows /\ w \in Revived /\ words[w].latest # revision_prev
                             THEN Append(words[w].inbound, r) ELSE words[w].inbound
  BY CommitFields
<1>4. Swept \subseteq WordsAgain /\ WordsAgain \subseteq Swept \cup matchedW
  BY <1>1, SweptWords
<1>5. \A v \in WordsAgain \cup matchedW : words[v].origin \in Published
  BY <1>1, AgainPublished DEF OnceInv, TakenWords
<1>6. CASE words[w].origin \in Published
  <2>1. w \in Shown(r) => w \in matchedW
    <3>1. Shown(r) \subseteq Taken
      BY <1>1 DEF OnceInv, TakenWords, Shown, ParagraphsFound
    <3> QED
      BY <1>1, <1>6, <3>1 DEF Taken, Born
  <2>2. w \in Shown(r) <=> w \in matchedW /\ ~Dropped(w)
    BY <1>1, <2>1 DEF MatchedUsed
  <2>3. shows <=> w \in Shown(r)
    BY <1>2, <2>2
  <2>4. Dropped(w) => w \in matchedW /\ w \in WordsAgain
    BY <1>1 DEF MatchedUsed
  <2>5. w \in Swept \ matchedW <=> w \notin Shown(r) /\ w \in WordsAgain /\ ~Dropped(w)
    BY <1>4, <2>2, <2>4
  <2>6. at_least_one
    BY <1>6 DEF Published, at_least_one, Range
  <2>7. words[w].latest = revision_prev <=> w \in WordsAgain
    <3>1. LastIs(ordered_revisions, revision_prev) /\ revision_prev \in Published
          /\ WordsAgain = Shown(revision_prev)
      BY <1>1, <2>6, PrevLatest
    <3>2. w \in PublishedWords
      BY <1>6 DEF PublishedWords
    <3> QED
      BY <3>1, <3>2 DEF LatestShows
  <2>8. shows /\ w \notin WordsAgain => w \in Revived
    BY <1>1, <1>2 DEF MatchedUsed
  <2>9. shows /\ w \in Revived /\ words[w].latest # revision_prev
          <=> w \in Shown(r) /\ w \notin WordsAgain
    BY <2>3, <2>7, <2>8
  <2> HIDE DEF shows
  <2> QED
    BY <1>3, <1>6, <2>2, <2>3, <2>4, <2>5, <2>9
<1>7. CASE words[w].origin \notin Published
  <2>1. w \in Born(r) /\ w \notin matchedW /\ w \notin Swept
    BY <1>1, <1>4, <1>5, <1>7, OriginsKnown
  <2>2. /\ words[w].origin = r /\ words[w].latest = r
        /\ words[w].inbound = <<>> /\ words[w].outbound = <<>>
    BY <1>1, <2>1 DEF NewbornLast, Born
  <2>3. w \in Shown(r)
    BY <1>1, <2>1, CommitShows DEF AddsMatch, TextInv
  <2> QED
    BY <1>3, <1>7, <2>1, <2>2, <2>3
<1> QED
  BY <1>6, <1>7

\* Until a revision is valid, no token of an earlier one is touched but by deletions.
LEMMA LivesStay ==
  ASSUME TypeOK, TypeOK', TextInv, OnceInv, Grows, [Next]_vars, ~Commit
  PROVE  /\ PublishedWords' = PublishedWords
         /\ \A w \in PublishedWords :
              /\ w \in DOMAIN words /\ w \in DOMAIN words'
              /\ words'[w].origin = words[w].origin
              /\ words'[w].latest = words[w].latest
              /\ words'[w].inbound = words[w].inbound
              /\ \/ words'[w].outbound = words[w].outbound
                 \/ /\ DropWord /\ w \notin matchedW
                    /\ words'[w].outbound = Append(words[w].outbound, current_revision)
<1>1. Published' = Published
  BY PublishedStep
<1>2. CASE AddWord
  <2>1. PICK s : Added(words, words', NewWord(PendingToken(s)))
    BY <1>2, AddWordDoes
  <2>2. words'[Len(words) + 1].origin \notin Published
    <3>1. words'[Len(words) + 1].origin = current_revision
      BY <2>1 DEF Added, NewWord
    <3>2. ~Quiescent
      BY <1>2 DEF AddWord
    <3> QED
      BY <3>1, <3>2 DEF TextInv, CurrentUnpublished
  <2>3. /\ DOMAIN words = 1 .. Len(words) /\ Len(words) \in Nat
        /\ DOMAIN words' = 1 .. Len(words) + 1
        /\ \A w \in DOMAIN words : words'[w] = words[w]
    BY <2>1 DEF Added
  <2>4. \A w \in DOMAIN words' : w \in DOMAIN words \/ w = Len(words) + 1
    BY <2>3
  <2>5. \A w \in DOMAIN words : w \in DOMAIN words'
    BY <2>3
  <2> QED
    BY <1>1, <2>2, <2>3, <2>4, <2>5 DEF PublishedWords
<1>3. CASE DropWord
  <2>1. PICK w \in DOMAIN words :
          /\ w \notin matchedW
          /\ DOMAIN words' = DOMAIN words
          /\ \A v \in DOMAIN words : v # w => words'[v] = words[v]
          /\ words'[w].origin = words[w].origin
          /\ words'[w].latest = words[w].latest
          /\ words'[w].inbound = words[w].inbound
          /\ words'[w].outbound = Append(words[w].outbound, current_revision)
    BY <1>3, DropWordEnds
  <2> QED
    BY <1>1, <1>3, <2>1 DEF PublishedWords
<1>4. CASE ~AddWord /\ ~DropWord
  BY <1>1, <1>4, WordsStay DEF PublishedWords
<1> QED
  BY <1>2, <1>3, <1>4

LEMMA LatestShowsStep ==
  ASSUME TypeOK, TypeOK', TextInv, OnceInv, AddsMatch, ComparedWithLatestValid, MatchesListed,
         LedgerInv, Grows, [Next]_vars
  PROVE  LatestShows'
<1>1. CASE ~Commit
  <2>1. UNCHANGED ordered_revisions /\ Published' = Published
    BY <1>1, PublishedStep
  <2>2. \A r \in Published : Shown(r)' = Shown(r)
    BY ShownStays DEF TextInv
  <2>3. /\ PublishedWords' = PublishedWords
        /\ \A w \in PublishedWords : words'[w].latest = words[w].latest
    BY <1>1, LivesStay
  <2> QED
    BY <2>1, <2>2, <2>3 DEF LatestShows, LedgerInv
<1>2. CASE Commit
  <2>1. PICK R \in DOMAIN revisions : R = current_revision
    BY DEF TypeOK
  <2> USE <2>1
  <2>2. Published' = Published \cup {R} /\ R \notin Published /\ DOMAIN words' = DOMAIN words
    BY <1>2, PublishedStep DEF Commit, TextInv, CurrentUnpublished
  <2>3. Shown(R)' = Shown(R)
    BY <1>2 DEF Commit, Shown, ParagraphWords, ParagraphSentences, SentenceWords
  <2>4. ASSUME NEW r, LastIs(ordered_revisions', r)
        PROVE  r = R
    <3>1. LastIs(Append(ordered_revisions, R), R)
      BY LastAppended DEF TypeOK
    <3> QED
      BY <1>2, <2>4, <3>1 DEF Commit, LastIs
  <2>5. ASSUME NEW w \in DOMAIN words
        PROVE  /\ words'[w].latest \in Published \cup {R}
               /\ words'[w].latest = R <=> w \in Shown(R)
    <3>1. CASE words[w].origin \in Published
      <4>1. words'[w].latest = IF w \in Shown(R) THEN R ELSE words[w].latest
        BY <1>2, <3>1, CommitLives
      <4>2. words[w].latest \in Published
        BY <3>1 DEF LedgerInv, LatestShows, PublishedWords
      <4> QED
        BY <2>2, <4>1, <4>2
    <3>2. CASE words[w].origin \notin Published
      BY <1>2, <3>2, CommitLives
    <3> QED
      BY <3>1, <3>2
  <2> QED
    BY <2>2, <2>3, <2>4, <2>5 DEF LatestShows, PublishedWords
<1> QED
  BY <1>1, <1>2

LEMMA LedgerInvInit == Init => LedgerInv
<1> SUFFICES ASSUME Init PROVE LedgerInv
  OBVIOUS
<1>1. /\ pc = "next" /\ seen = 0 /\ revisions = <<Dummy>> /\ words = <<>>
      /\ ordered_revisions = <<>>
  BY DEF Init
<1>2. Published = {}
  BY <1>1 DEF Published, Range
<1>3. Len(revisions) = 1
  BY <1>1
<1>4. Newest
  BY <1>1, <1>2, <1>3 DEF Newest
<1>5. MatchedWhole /\ MatchedUsed
  BY <1>1 DEF MatchedWhole, MatchedUsed
<1>6. NewbornLast /\ LatestShows
  BY <1>1, <1>2 DEF NewbornLast, LatestShows, PublishedWords
<1>7. TextsRead
  BY <1>1, <1>3 DEF TextsRead
<1> QED
  BY <1>4, <1>5, <1>6, <1>7 DEF LedgerInv

\* The whole invariant: what earlier theorems rest on, and LedgerInv.
LifeInv ==
  /\ TypeOK /\ ComparedWithLatestValid /\ MatchesListed
  /\ TextInv /\ OnceInv /\ AddsMatch /\ LedgerInv

LEMMA LifeInvStep == LifeInv /\ [Next]_vars => LifeInv' /\ Grows
<1> SUFFICES ASSUME LifeInv, [Next]_vars PROVE LifeInv' /\ Grows
  OBVIOUS
<1> USE DEF LifeInv
<1>1. TypeOK' /\ ComparedWithLatestValid'
  BY TypeStep, LatestStep
<1>2. Grows
  BY Keeps
<1>3. MatchesListed'
  BY MatchesStep
<1>4. TextInv'
  BY <1>1, <1>2, TextStep
<1>5. OnceInv'
  BY <1>1, <1>2, OnceInvStep
<1>6. AddsMatch'
  BY <1>1, <1>2, AddsStep
<1>7. Newest'
  BY <1>1, NewestStep DEF LedgerInv
<1>8. MatchedWhole'
  BY <1>1, <1>2, MatchedWholeStep DEF LedgerInv
<1>9. MatchedUsed'
  BY <1>1, <1>2, <1>4, MatchedUsedStep DEF LedgerInv
<1>10. NewbornLast'
  BY <1>1, <1>2, NewbornStep DEF LedgerInv
<1>11. LatestShows'
  BY <1>1, <1>2, LatestShowsStep
<1>12. TextsRead'
  BY <1>1, TextsReadStep DEF LedgerInv
<1> QED
  BY <1>1, <1>2, <1>3, <1>4, <1>5, <1>6, <1>7, <1>8, <1>9, <1>10, <1>11, <1>12 DEF LedgerInv

-----------------------------------------------------------------------------
(* The refinement                                                          *)

\* The tokens of the valid revisions are the first ones.
LEMMA PublishedFirst ==
  ASSUME LifeInv
  PROVE  /\ PublishedWords = 1 .. Cardinality(PublishedWords)
         /\ Cardinality(PublishedWords) \in Nat
         /\ DOMAIN words = 1 .. Len(words) /\ Len(words) \in Nat
         /\ Cardinality(PublishedWords) <= Len(words)
         /\ Quiescent => Cardinality(PublishedWords) = Len(words)
<1> DEFINE k == Cardinality(PublishedWords)
<1>1. DOMAIN words = 1 .. Len(words) /\ Len(words) \in Nat
  BY ElementIn DEF LifeInv, TypeOK
<1>2. PublishedWords \subseteq 1 .. Len(words)
  BY <1>1 DEF PublishedWords
<1>3. IsFiniteSet(1 .. Len(words)) /\ Cardinality(1 .. Len(words)) = Len(words)
  <2>1. \A n \in Nat : IsFiniteSet(1 .. n) /\ Cardinality(1 .. n) = n
    BY FS_Interval
  <2> QED
    BY <1>1, <2>1
<1>4. IsFiniteSet(PublishedWords) /\ k \in Nat /\ k <= Len(words)
  BY <1>2, <1>3, FS_Subset, FS_CardinalityType
<1>5. ASSUME NEW w \in PublishedWords
      PROVE  w \in 1 .. k
  <2>1. 1 .. w \subseteq PublishedWords
    BY <1>1, <1>2 DEF PublishedWords, LifeInv, LedgerInv, NewbornLast
  <2>2. w \in Nat /\ 1 <= w
    BY <1>1, <1>2
  <2>3. Cardinality(1 .. w) = w
    BY <2>2, FS_Interval
  <2>4. Cardinality(1 .. w) <= k
    BY <1>4, <2>1, FS_Subset
  <2> QED
    BY <1>4, <2>2, <2>3, <2>4
<1>6. IsFiniteSet(1 .. k) /\ Cardinality(1 .. k) = k
  BY <1>4, FS_Interval
<1>7. PublishedWords = 1 .. k
  BY <1>5, <1>6, FS_Subset
<1>8. ASSUME Quiescent
      PROVE  k = Len(words)
  <2>1. PublishedWords = 1 .. Len(words)
    BY <1>1, <1>8, OriginsKnown DEF PublishedWords, LifeInv
  <2> QED
    BY <1>3, <2>1
<1> QED
  BY <1>1, <1>4, <1>7, <1>8

\* The words a revision shows exist.
LEMMA ShownIn ==
  ASSUME TypeOK, NEW r \in DOMAIN revisions
  PROVE  Shown(r) \subseteq DOMAIN words
<1>1. \A p \in Range(revisions[r].paragraphs_ordered) : p \in DOMAIN paragraphs
  BY PartsIn, ElementIn DEF RevisionType
<1>2. \A p \in DOMAIN paragraphs : ParagraphWords(p) \subseteq DOMAIN words
  BY PartsIn DEF ParagraphWords
<1> QED
  BY <1>1, <1>2 DEF Shown

\* Texts of a length that is bounded.
TextsBounded == IsFiniteSet(UNION {TokenPlaces(text) : text \in Texts})

\* No revision introduces more tokens than a text has.
LEMMA BornBounded ==
  ASSUME LifeInv, TextsBounded, pc = "commit", NEW r, r = current_revision
  PROVE  /\ Cardinality(Born(r)) \in Nat
         /\ Cardinality(Born(r)) <= Cardinality(UNION {TokenPlaces(text) : text \in Texts})
<1> USE DEF LifeInv
<1>1. r \in DOMAIN revisions /\ ~Quiescent
  BY DEF TypeOK
<1>2. FullRevision(r)
  BY CommitFull DEF TextInv
<1>3. TextOf(r) = revisions[r].text
  BY <1>1, <1>2, FullRevisionReads DEF TextInv
<1>4. TextOf(r) \in Texts
  BY <1>1, <1>3 DEF LedgerInv, Newest, TextsRead
<1>5. Places(r) = TokenPlaces(TextOf(r))
  <2> DEFINE P == revisions[r].paragraphs_ordered
             S(i) == paragraphs[P[i]].sentences_ordered
             W(i, j) == sentences[S(i)[j]].words_ordered
             T == TextOf(r)
  <2>1. /\ DOMAIN T = DOMAIN P
        /\ \A i \in DOMAIN P : DOMAIN T[i] = DOMAIN S(i)
        /\ \A i \in DOMAIN P : \A j \in DOMAIN S(i) : DOMAIN T[i][j] = DOMAIN W(i, j)
    BY DEF TextOf
  <2>2. \A x : x \in Places(r) <=>
          \E i \in DOMAIN P : \E j \in DOMAIN S(i) : \E k \in DOMAIN W(i, j) : x = <<i, j, k>>
    BY DEF Places
  <2> HIDE DEF T
  <2>3. \A x : x \in TokenPlaces(T) <=>
          \E i \in DOMAIN T : \E j \in DOMAIN T[i] : \E k \in DOMAIN T[i][j] : x = <<i, j, k>>
    BY DEF TokenPlaces
  <2> HIDE DEF P, S, W
  <2>4. \A x : x \in Places(r) <=> x \in TokenPlaces(T)
    BY <2>1, <2>2, <2>3
  <2>5. Places(r) = TokenPlaces(T)
    BY <2>4
  <2> QED
    BY <2>5, SMTT(30) DEF T
<1>6. Places(r) \subseteq UNION {TokenPlaces(text) : text \in Texts}
  BY <1>4, <1>5
<1>7. /\ IsFiniteSet(Places(r))
      /\ Cardinality(Places(r)) <= Cardinality(UNION {TokenPlaces(text) : text \in Texts})
  BY <1>6, FS_Subset DEF TextsBounded
<1>8. Cardinality(Places(r)) = Cardinality(Shown(r))
  BY <1>1, PlacesCounted DEF OnceInv
<1>9. Born(r) \subseteq Shown(r)
  BY <1>1, CommitShows DEF AddsMatch, TextInv
<1>10. IsFiniteSet(Shown(r))
  <2>1. Shown(r) \subseteq DOMAIN words
    BY <1>1, ShownIn
  <2>2. IsFiniteSet(DOMAIN words)
    BY PublishedFirst, FS_Interval
  <2> QED
    BY <2>1, <2>2, FS_Subset
<1>11. Cardinality(Born(r)) <= Cardinality(Shown(r)) /\ Cardinality(Shown(r)) \in Nat
  BY <1>9, <1>10, FS_Subset, FS_CardinalityType
<1>12. Cardinality(Born(r)) \in Nat
  BY BornFinite
<1>13. Cardinality(UNION {TokenPlaces(text) : text \in Texts}) \in Nat
  BY FS_CardinalityType DEF TextsBounded
<1> QED
  BY <1>7, <1>8, <1>11, <1>12, <1>13

\* The last removal of w is not visible yet.
Hidden(w) == Dropped(w) /\ current_revision \notin Published

LEMMA LifeIs ==
  ASSUME NEW w
  PROVE  PublishedLife(words[w]) =
           [origin |-> words[w].origin, latest |-> words[w].latest, inbound |-> words[w].inbound,
            outbound |-> IF Hidden(w) THEN SubSeq(words[w].outbound, 1, Len(words[w].outbound) - 1)
                         ELSE words[w].outbound]
  BY DEF PublishedLife, Hidden, Dropped

\* Between two revisions no removal is hidden, nor before the diff deletes words.
LEMMA NothingHidden ==
  ASSUME LifeInv, Quiescent \/ pc = "spam"
  PROVE  \A w \in PublishedWords : ~Hidden(w)
<1> SUFFICES ASSUME NEW w \in PublishedWords, Hidden(w) PROVE FALSE
  OBVIOUS
<1> USE DEF LifeInv
<1>1. CASE Quiescent
  <2>1. at_least_one
    BY DEF PublishedWords, Published, at_least_one, Range
  <2>2. LastIs(ordered_revisions, current_revision)
    BY <1>1, <2>1 DEF ComparedWithLatestValid
  <2>3. current_revision \in Published
    BY <2>2, ElementIn DEF TypeOK, LastIs, Published, Range
  <2> QED
    BY <2>3 DEF Hidden
<1>2. CASE pc = "spam"
  BY <1>2 DEF Hidden, LedgerInv, MatchedUsed, PublishedWords
<1> QED
  BY <1>1, <1>2

LEMMA StutterStep ==
  ASSUME LifeInv, LifeInv', Grows, [Next]_vars, ~Commit
  PROVE  UNCHANGED Ledger!ledger
<1> USE DEF LifeInv
<1>1. UNCHANGED ordered_revisions /\ Published' = Published
  BY PublishedStep
<1>2. /\ PublishedWords' = PublishedWords
      /\ \A w \in PublishedWords :
           /\ words'[w].origin = words[w].origin
           /\ words'[w].latest = words[w].latest
           /\ words'[w].inbound = words[w].inbound
           /\ \/ words'[w].outbound = words[w].outbound
              \/ /\ DropWord /\ w \notin matchedW
                 /\ words'[w].outbound = Append(words[w].outbound, current_revision)
  BY LivesStay
<1>3. ASSUME NEW n \in DOMAIN ordered_revisions
      PROVE  Shown(ordered_revisions[n])' = Shown(ordered_revisions[n])
  <2>1. PICK r \in Published : r = ordered_revisions[n]
    BY DEF Published, Range
  <2>2. Shown(r)' = Shown(r)
    BY ShownStays DEF TextInv
  <2>3. Shown(ordered_revisions[n])' = Shown(r)'
    BY <1>1, <2>1 DEF Shown
  <2> QED
    BY <2>1, <2>2, <2>3
<1>4. ASSUME NEW w \in PublishedWords
      PROVE  PublishedLife(words[w])' = PublishedLife(words[w])
  <2> DEFINE out == words[w].outbound
             shown == IF Hidden(w) THEN SubSeq(out, 1, Len(out) - 1) ELSE out
  <2>1. w \in DOMAIN words /\ out \in Seq(DOMAIN revisions)
    BY PartsIn DEF PublishedWords, WordType
  <2>2. shown' = shown
    <3>1. CASE DropWord
      <4>1. UNCHANGED current_revision /\ pc = "match"
        BY <3>1 DEF DropWord
      <4>2. CASE out' = out
        BY <1>1, <4>1, <4>2 DEF Hidden, Dropped
      <4>3. CASE w \notin matchedW /\ out' = Append(out, current_revision)
        <5>1. ~Dropped(w)
          BY <2>1, <4>1, <4>3 DEF LedgerInv, MatchedUsed
        <5>2. LastIs(out', current_revision)
          BY <2>1, <4>3, LastAppended
        <5>3. current_revision \notin Published
          BY <4>1 DEF TextInv, CurrentUnpublished
        <5>4. Hidden(w)'
          BY <1>1, <4>1, <5>2, <5>3 DEF Hidden, Dropped
        <5>5. SubSeq(out', 1, Len(out') - 1) = out
          BY <2>1, <4>3, TakenOff
        <5> QED
          BY <5>1, <5>4, <5>5 DEF Hidden
      <4> QED
        BY <1>2, <4>2, <4>3
    <3>2. CASE ~DropWord /\ UNCHANGED current_revision
      BY <1>1, <1>2, <3>2 DEF Hidden, Dropped
    <3>3. CASE ~DropWord /\ ~UNCHANGED current_revision
      <4>1. \/ Discard
            \/ \E xml \in XmlRevisions : BeginRevision(xml)
        BY <3>3 DEF Next, SkipDeleted, RejectByContent, ReuseParagraph, NewParagraph,
           EndParagraphs, ReuseSentence, NewSentence, EndSentences, RejectDense, StartDiff,
           KeepWord, AddWord, EndWords, Commit, EndOfPage, Finished
      <4>2. out' = out
        BY <1>2, <3>3
      <4>3. ~Hidden(w)
        BY <4>1, NothingHidden DEF Discard, BeginRevision, ReadRevision
      <4>4. ~Hidden(w)'
        <5>1. CASE Discard
          <6>1. at_least_one'
            BY <1>1 DEF PublishedWords, Published, at_least_one, Range
          <6>2. LastIs(ordered_revisions', current_revision')
            BY <5>1, <6>1 DEF ComparedWithLatestValid, Discard
          <6>3. current_revision' \in Published'
            <7>1. Len(ordered_revisions) > 0 => Len(ordered_revisions) \in DOMAIN ordered_revisions
              <8>1. ordered_revisions \in Seq(DOMAIN revisions)
                BY DEF TypeOK
              <8>2. DOMAIN ordered_revisions = 1 .. Len(ordered_revisions)
                    /\ Len(ordered_revisions) \in Nat
                BY <8>1, ElementIn
              <8> QED
                BY <8>2
            <7> QED
              BY <1>1, <6>2, <7>1 DEF LastIs, Published, Range
          <6> QED
            BY <6>3 DEF Hidden
        <5>2. ASSUME NEW xml \in XmlRevisions, BeginRevision(xml)
              PROVE  ~Hidden(w)'
          <6>1. current_revision' \notin DOMAIN revisions
            BY <5>2, BeginDoes DEF Added
          <6>2. ~LastIs(out, current_revision')
            BY <2>1, <6>1, LastAppended
          <6> QED
            BY <4>2, <6>2 DEF Hidden, Dropped
        <5> QED
          BY <4>1, <5>1, <5>2
      <4> QED
        BY <4>2, <4>3, <4>4
    <3> QED
      BY <3>1, <3>2, <3>3
  <2>3. PublishedLife(words[w]) =
          [origin |-> words[w].origin, latest |-> words[w].latest,
           inbound |-> words[w].inbound, outbound |-> shown]
    BY LifeIs
  <2>4. PublishedLife(words[w])' =
          [origin |-> words'[w].origin, latest |-> words'[w].latest,
           inbound |-> words'[w].inbound, outbound |-> shown']
    BY DEF PublishedLife, Hidden, Dropped
  <2> HIDE DEF shown, out
  <2> QED
    BY <1>2, <2>2, <2>3, <2>4
<1>5. PublishedWords = 1 .. Cardinality(PublishedWords)
  BY PublishedFirst
<1>6. [n \in DOMAIN ordered_revisions |-> Shown(ordered_revisions[n])]'
        = [n \in DOMAIN ordered_revisions |-> Shown(ordered_revisions[n])]
  BY <1>1, <1>3
<1>7. [w \in 1 .. Cardinality(PublishedWords) |-> PublishedLife(words[w])]'
        = [w \in 1 .. Cardinality(PublishedWords) |-> PublishedLife(words[w])]
  BY <1>2, <1>4, <1>5
<1> QED
  BY <1>1, <1>6, <1>7 DEF Ledger!ledger

\* What the valid revisions show, and the lives of their tokens.
Presented == [n \in DOMAIN ordered_revisions |-> Shown(ordered_revisions[n])]
Lives == [w \in 1 .. Cardinality(PublishedWords) |-> PublishedLife(words[w])]

\* The new revision is listed after all others, and what it shows with it.
LEMMA CommitPresents ==
  ASSUME LifeInv, Grows, Commit, [Next]_vars, NEW r, r = current_revision
  PROVE  /\ r \in 2 .. MaxRevisions + 1 /\ r \in DOMAIN revisions
         /\ ordered_revisions' = Append(ordered_revisions, r)
         /\ \A n \in DOMAIN ordered_revisions : ordered_revisions[n] < r
         /\ Presented' = Append(Presented, Shown(r))
         /\ Presented \in Seq(SUBSET DOMAIN words)
         /\ Len(Presented) = Len(ordered_revisions)
<1> USE DEF LifeInv
<1>1. r \in DOMAIN revisions /\ pc = "commit" /\ ~Quiescent /\ r \notin Published
  BY DEF TypeOK, Commit, TextInv, CurrentUnpublished
<1>2. r = Len(revisions) /\ r \in 2 .. MaxRevisions + 1
  <2>1. r = Len(revisions) /\ 2 <= r /\ r <= seen + 1
    BY <1>1 DEF LedgerInv, Newest
  <2>2. seen \in Nat /\ seen <= MaxRevisions /\ MaxRevisions \in Nat
    BY InputAssumption DEF TypeOK
  <2>3. Len(revisions) \in Nat
    BY ElementIn DEF TypeOK
  <2> QED
    BY <2>1, <2>2, <2>3
<1>3. ordered_revisions' = Append(ordered_revisions, r)
      /\ UNCHANGED <<revisions, paragraphs, sentences>>
  BY DEF Commit
<1>4. /\ Len(ordered_revisions) \in Nat
      /\ DOMAIN ordered_revisions = 1 .. Len(ordered_revisions)
      /\ \A n \in DOMAIN ordered_revisions :
           ordered_revisions[n] \in Published /\ ordered_revisions[n] \in DOMAIN revisions
  BY ElementIn DEF TypeOK, Published, Range
<1>5. \A n \in DOMAIN ordered_revisions : ordered_revisions[n] < r
  <2>1. DOMAIN revisions = 1 .. Len(revisions) /\ Len(revisions) \in Nat
    BY ElementIn DEF TypeOK
  <2>2. \A n \in Nat : \A q \in 1 .. n : q = n \/ q < n
    OBVIOUS
  <2> QED
    BY <1>1, <1>2, <1>4, <2>1, <2>2
<1>6. \A q : Shown(q)' = Shown(q)
  BY <1>3 DEF Shown, ParagraphWords, ParagraphSentences, SentenceWords
<1>7. /\ Presented \in Seq(SUBSET DOMAIN words) /\ Len(Presented) = Len(ordered_revisions)
      /\ \A n \in DOMAIN ordered_revisions : Presented[n] = Shown(ordered_revisions[n])
  <2>1. \A n \in DOMAIN ordered_revisions : Shown(ordered_revisions[n]) \in SUBSET DOMAIN words
    BY <1>4, ShownIn
  <2>2. Presented \in [1 .. Len(ordered_revisions) -> SUBSET DOMAIN words]
    BY <1>4, <2>1 DEF Presented
  <2>3. Presented \in Seq(SUBSET DOMAIN words)
    BY <1>4, <2>2, SeqDef
  <2>4. Len(Presented) = Len(ordered_revisions)
    BY <1>4, <2>2, <2>3
  <2>5. \A n \in DOMAIN ordered_revisions : Presented[n] = Shown(ordered_revisions[n])
    BY DEF Presented
  <2> QED
    BY <2>3, <2>4, <2>5
<1>8. /\ DOMAIN ordered_revisions' = 1 .. Len(ordered_revisions) + 1
      /\ ordered_revisions'[Len(ordered_revisions) + 1] = r
      /\ \A n \in DOMAIN ordered_revisions : ordered_revisions'[n] = ordered_revisions[n]
  BY <1>3, Appending DEF TypeOK
<1> DEFINE A == Append(Presented, Shown(r))
           l == Len(ordered_revisions)
<1>9. /\ DOMAIN A = 1 .. l + 1 /\ A[l + 1] = Shown(r)
      /\ \A n \in 1 .. l : A[n] = Shown(ordered_revisions[n])
      /\ A = [n \in 1 .. l + 1 |-> A[n]]
  <2>1. A \in Seq(SUBSET DOMAIN words)
    BY <1>1, <1>7, ShownIn
  <2>2. Len(A) = l + 1 /\ DOMAIN A = 1 .. l + 1
    BY <1>7, Appending
  <2>3. A = [n \in 1 .. Len(A) |-> A[n]]
    BY <2>1, ByElements
  <2> QED
    BY <1>4, <1>7, <2>2, <2>3, Appending
<1>10. Presented' = [n \in 1 .. l + 1 |-> Shown(ordered_revisions[n])']
  BY <1>8 DEF Presented
<1>11. ASSUME NEW n \in 1 .. l + 1
       PROVE  Shown(ordered_revisions[n])' = A[n]
  <2>1. PICK q : q = ordered_revisions'[n]
    OBVIOUS
  <2>2. Shown(ordered_revisions[n])' = Shown(q)'
    BY <2>1 DEF Shown
  <2>3. Shown(q)' = Shown(q)
    BY <1>6
  <2>4. CASE n \in 1 .. l
    BY <1>4, <1>8, <1>9, <2>1, <2>2, <2>3, <2>4
  <2>5. CASE n = l + 1
    BY <1>8, <1>9, <2>1, <2>2, <2>3, <2>5
  <2>6. n \in 1 .. l \/ n = l + 1
    <3>1. \A a \in Nat : \A i \in 1 .. a + 1 : i \in 1 .. a \/ i = a + 1
      OBVIOUS
    <3> QED
      BY <1>4, <3>1
  <2> QED
    BY <2>4, <2>5, <2>6
<1> HIDE DEF A, l
<1>12. Presented' = A
  BY <1>9, <1>10, <1>11
<1> QED
  BY <1>1, <1>2, <1>3, <1>5, <1>7, <1>12 DEF A

\* The ledger's newest revision is the one the analysis compares with.
LEMMA ShowingIs ==
  ASSUME LifeInv, pc = "commit", NEW w \in PublishedWords
  PROVE  w \in Ledger!Showing <=> w \in WordsAgain
<1> USE DEF LifeInv
<1>1. at_least_one
  BY DEF PublishedWords, Published, at_least_one, Range
<1>2. LastIs(ordered_revisions, revision_prev) /\ WordsAgain = Shown(revision_prev)
  BY <1>1, PrevLatest
<1>3. /\ DOMAIN ordered_revisions = 1 .. Len(ordered_revisions) /\ Len(ordered_revisions) \in Nat
      /\ Len(ordered_revisions) > 0 /\ ordered_revisions[Len(ordered_revisions)] = revision_prev
  BY <1>2, ElementIn DEF TypeOK, LastIs
<1>4. Len(Presented) = Len(ordered_revisions)
  <2>1. Presented \in [1 .. Len(ordered_revisions) ->
                         {Shown(ordered_revisions[n]) : n \in DOMAIN ordered_revisions}]
    BY <1>3 DEF Presented
  <2>2. Presented \in Seq({Shown(ordered_revisions[n]) : n \in DOMAIN ordered_revisions})
    BY <1>3, <2>1, SeqDef
  <2> QED
    BY <1>3, <2>1, <2>2
<1>5. Presented[Len(Presented)] = WordsAgain
  <2>1. Len(ordered_revisions) \in DOMAIN ordered_revisions
    BY <1>3
  <2> QED
    BY <1>2, <1>3, <1>4, <2>1 DEF Presented
<1>6. Presented # <<>>
  BY <1>3, <1>4
<1> QED
  BY <1>5, <1>6 DEF Ledger!Showing, Presented

\* Every token lives on as the ledger says.
LEMMA CommitRecords ==
  ASSUME LifeInv, Grows, Commit, [Next]_vars, NEW r, r = current_revision,
         NEW k \in Nat, k = Cardinality(PublishedWords),
         NEW kept, kept = Shown(r) \cap (1 .. k), NEW w \in 1 .. Len(words)
  PROVE  PublishedLife(words[w])' = IF w > k THEN Ledger!Born(r) ELSE Ledger!Updated(w, r, kept)
<1> USE DEF LifeInv
<1>1. /\ PublishedWords = 1 .. k /\ w \in DOMAIN words /\ w \in Nat
      /\ (w \in 1 .. k <=> ~(w > k))
  <2>1. PublishedWords = 1 .. k /\ DOMAIN words = 1 .. Len(words) /\ Len(words) \in Nat
    BY PublishedFirst
  <2> QED
    BY <2>1
<1>2. /\ current_revision' = r /\ pc = "commit" /\ Published' = Published \cup {r}
      /\ r \notin Published
  BY PublishedStep DEF Commit, TextInv, CurrentUnpublished
<1>3. PublishedLife(words[w])' =
        [origin |-> words'[w].origin, latest |-> words'[w].latest,
         inbound |-> words'[w].inbound, outbound |-> words'[w].outbound]
  BY <1>2 DEF PublishedLife
<1>4. CASE w > k
  <2>1. words[w].origin \notin Published
    BY <1>1, <1>4 DEF PublishedWords
  <2>2. /\ words'[w].origin = r /\ words'[w].latest = r
        /\ words'[w].inbound = <<>> /\ words'[w].outbound = <<>>
    BY <1>1, <2>1, CommitLives
  <2> QED
    BY <1>3, <1>4, <2>2 DEF Ledger!Born
<1>5. CASE ~(w > k)
  <2> DEFINE again == w \in Shown(r)
             out == words[w].outbound
             life == PublishedLife(words[w])
  <2>1. w \in PublishedWords /\ words[w].origin \in Published /\ out \in Seq(DOMAIN revisions)
    <3>1. w \in PublishedWords /\ words[w].origin \in Published
      BY <1>1, <1>5 DEF PublishedWords
    <3>2. words[w] \in WordType(DOMAIN revisions)
      BY <1>1, PartsIn
    <3> QED
      BY <3>1, <3>2 DEF WordType
  <2>2. /\ words'[w].origin = words[w].origin
        /\ words'[w].latest = IF again THEN r ELSE words[w].latest
        /\ words'[w].inbound = IF again /\ w \notin WordsAgain
                               THEN Append(words[w].inbound, r) ELSE words[w].inbound
        /\ words'[w].outbound = IF ~again /\ w \in WordsAgain /\ ~Dropped(w)
                                THEN Append(out, r) ELSE out
        /\ Dropped(w) => ~again /\ w \in WordsAgain
    BY <1>1, <2>1, CommitLives
  <2>3. life = [origin |-> words[w].origin, latest |-> words[w].latest,
                inbound |-> words[w].inbound,
                outbound |-> IF Dropped(w) THEN SubSeq(out, 1, Len(out) - 1) ELSE out]
    BY <1>2, LifeIs DEF Hidden
  <2>4. Dropped(w) => Append(SubSeq(out, 1, Len(out) - 1), r) = out
    BY <2>1, TakenOff DEF Dropped
  <2>5. w \in Ledger!Showing <=> w \in WordsAgain
    BY <1>2, <2>1, ShowingIs
  <2>6. w \in kept <=> again
    BY <1>1, <2>1
  <2>7. Lives[w] = life
    BY <1>1, <2>1 DEF Lives
  <2> HIDE DEF again, life, out
  <2>8. Ledger!Updated(w, r, kept) =
          IF again
          THEN IF w \in WordsAgain THEN [life EXCEPT !.latest = r]
               ELSE [life EXCEPT !.latest = r, !.inbound = Append(@, r)]
          ELSE IF w \in WordsAgain THEN [life EXCEPT !.outbound = Append(@, r)] ELSE life
    <3>1. CASE again /\ w \in WordsAgain
      BY <2>5, <2>6, <2>7, <3>1 DEF Ledger!Updated, Lives
    <3>2. CASE again /\ w \notin WordsAgain
      BY <2>5, <2>6, <2>7, <3>2 DEF Ledger!Updated, Lives
    <3>3. CASE ~again /\ w \in WordsAgain
      <4>1. w \notin kept /\ w \in Ledger!Showing
        BY <2>5, <2>6, <3>3
      <4>2. Ledger!Updated(w, r, kept) = [Lives[w] EXCEPT !.outbound = Append(@, r)]
        BY ONLY <4>1 DEF Ledger!Updated, Lives
      <4> QED
        BY <2>7, <3>3, <4>2
    <3>4. CASE ~again /\ w \notin WordsAgain
      BY <2>5, <2>6, <2>7, <3>4 DEF Ledger!Updated, Lives
    <3> QED
      BY <3>1, <3>2, <3>3, <3>4
  <2>9. PublishedLife(words[w])' = Ledger!Updated(w, r, kept)
    <3>1. CASE again
      BY <1>3, <2>2, <2>3, <2>8, <3>1
    <3>2. CASE ~again /\ w \in WordsAgain
      BY <1>3, <2>2, <2>3, <2>4, <2>8, <3>2
    <3>3. CASE ~again /\ w \notin WordsAgain
      BY <1>3, <2>2, <2>3, <2>8, <3>3
    <3> QED
      BY <3>1, <3>2, <3>3
  <2> QED
    BY <1>5, <2>9
<1> QED
  BY <1>4, <1>5

\* The last step of a valid revision publishes it in the ledger.
LEMMA PublishStep ==
  ASSUME LifeInv, TextsBounded, Grows, Commit, [Next]_vars
  PROVE  Ledger!LedgerStep
<1> USE DEF LifeInv
<1>1. PICK r \in DOMAIN revisions : r = current_revision
  BY DEF TypeOK
<1>2. PICK k \in Nat : k = Cardinality(PublishedWords)
  BY PublishedFirst
<1>3. PICK K \in Nat : K = Len(words)
  BY PublishedFirst
<1>4. PublishedWords = 1 .. k /\ DOMAIN words = 1 .. K /\ k <= K
  BY <1>2, <1>3, PublishedFirst
<1>5. /\ Published' = Published \cup {r} /\ r \notin Published /\ pc = "commit"
      /\ DOMAIN words' = DOMAIN words
      /\ \A w \in DOMAIN words : words'[w].origin = words[w].origin
  BY <1>1, PublishedStep DEF Commit, TextInv, CurrentUnpublished, Grows, ValuesKept
<1>6. /\ r \in 2 .. MaxRevisions + 1
      /\ ordered_revisions' = Append(ordered_revisions, r)
      /\ \A n \in DOMAIN ordered_revisions : ordered_revisions[n] < r
      /\ Presented' = Append(Presented, Shown(r))
      /\ Presented \in Seq(SUBSET DOMAIN words)
  BY <1>1, CommitPresents
<1>7. \A n \in Nat : IsFiniteSet(1 .. n) /\ Cardinality(1 .. n) = n
  BY FS_Interval
<1>8. PublishedWords' = 1 .. K /\ Cardinality(PublishedWords') = K
  <2>1. \A w \in DOMAIN words : words[w].origin \in Published \cup {r}
    BY <1>1, OriginsKnown DEF Born
  <2>2. PublishedWords' = DOMAIN words
    BY <1>5, <2>1 DEF PublishedWords
  <2> QED
    BY <1>4, <1>7, <2>2
<1>9. Born(r) = k + 1 .. K
  <2>1. Born(r) = DOMAIN words \ PublishedWords
    BY <1>1, <1>5, OriginsKnown DEF Born, PublishedWords
  <2> QED
    BY <1>4, <2>1
<1>10. K - k \in 0 .. Cardinality(UNION {TokenPlaces(text) : text \in Texts})
  <2>1. Cardinality(Born(r)) = K - k
    <3>1. Cardinality(k + 1 .. K) = IF k + 1 > K THEN 0 ELSE K - (k + 1) + 1
      BY FS_Interval
    <3> QED
      BY <1>4, <1>9, <3>1
  <2>2. Cardinality(Born(r)) <= Cardinality(UNION {TokenPlaces(text) : text \in Texts})
    BY <1>1, <1>5, BornBounded
  <2>3. Cardinality(UNION {TokenPlaces(text) : text \in Texts}) \in Nat
    BY FS_CardinalityType DEF TextsBounded
  <2> QED
    BY <1>4, <2>1, <2>2, <2>3
<1>11. PICK kept : kept = Shown(r) \cap (1 .. k)
  OBVIOUS
<1> DEFINE fresh == K - k
<1>12. Shown(r) = kept \cup (k + 1 .. k + fresh) /\ k + fresh = K /\ fresh \in Nat
  <2>1. k + (K - k) = K /\ K - k \in Nat
    BY <1>4
  <2>2. Shown(r) \subseteq 1 .. K
    BY <1>4, ShownIn
  <2>3. k + 1 .. K \subseteq Shown(r)
    BY <1>1, <1>5, <1>9, CommitShows DEF AddsMatch, TextInv
  <2>4. \A w \in 1 .. K : w \in 1 .. k \/ w \in k + 1 .. K
    BY <1>4
  <2> QED
    BY <1>11, <2>1, <2>2, <2>3, <2>4
<1>13. /\ Lives = [w \in 1 .. k |-> PublishedLife(words[w])]
       /\ DOMAIN Lives = 1 .. k /\ Len(Lives) = k
  <2>1. Lives = [w \in 1 .. k |-> PublishedLife(words[w])]
    BY <1>2 DEF Lives
  <2>2. Lives \in Seq({PublishedLife(words[w]) : w \in 1 .. k})
    BY <1>2, <2>1, SeqDef
  <2> QED
    BY <1>2, <2>1, <2>2
<1>14. /\ Lives' = [w \in 1 .. K |-> PublishedLife(words[w])'] /\ Len(Lives') = K
  <2>1. Lives' = [w \in 1 .. K |-> PublishedLife(words[w])']
    BY <1>8 DEF Lives
  <2>2. Lives' \in Seq({PublishedLife(words[w])' : w \in 1 .. K})
    BY <1>3, <2>1, SeqDef
  <2> QED
    BY <1>3, <2>1, <2>2
<1>15. \A w \in 1 .. K : PublishedLife(words[w])' =
         IF w > k THEN Ledger!Born(r) ELSE Ledger!Updated(w, r, kept)
  <2> SUFFICES ASSUME NEW w \in 1 .. K
               PROVE  PublishedLife(words[w])' =
                        IF w > k THEN Ledger!Born(r) ELSE Ledger!Updated(w, r, kept)
    OBVIOUS
  <2> HIDE DEF LifeInv, vars, input, arrays, results, internals, flags, locals
  <2>1. w \in 1 .. Len(words) /\ LifeInv /\ Grows /\ Commit /\ [Next]_vars
    BY <1>3
  <2>2. r = current_revision /\ k \in Nat /\ k = Cardinality(PublishedWords) /\ kept = Shown(r) \cap (1 .. k)
    BY <1>1, <1>2, <1>11
  <2> QED
    BY <2>1, <2>2, CommitRecords DEF PublishedLife
<1>16. Lives' = [w \in 1 .. k + fresh |->
                   IF w > k THEN Ledger!Born(r) ELSE Ledger!Updated(w, r, kept)]
  BY <1>12, <1>14, <1>15
<1> HIDE DEF fresh
<1>17. Ledger!Publish(r, kept, fresh)
  <2>1. Presented' = Append(Presented, kept \cup (Len(Lives) + 1 .. Len(Lives) + fresh))
    BY <1>6, <1>12, <1>13
  <2>2. Lives' = [w \in 1 .. Len(Lives) + fresh |->
                    IF w > Len(Lives) THEN Ledger!Born(r) ELSE Ledger!Updated(w, r, kept)]
    BY <1>13, <1>16
  <2> QED
    BY <1>6, <2>1, <2>2 DEF Ledger!Publish, Presented, Lives
<1>18. /\ Len(ordered_revisions') = Len(ordered_revisions) + 1
       /\ ordered_revisions'[Len(ordered_revisions')] = r
  BY <1>6, Appending DEF TypeOK
<1>19. Presented'[Len(Presented')] = Shown(r)
  BY <1>6, Appending
<1>20. Len(Lives') - Len(Lives) = fresh /\ Presented'[Len(Presented')] \cap DOMAIN Lives = kept
  BY <1>13, <1>14, <1>19, <1>11 DEF fresh
<1>21. fresh \in 0 .. Cardinality(UNION {TokenPlaces(text) : text \in Texts})
  BY <1>10 DEF fresh
<1> QED
  BY <1>6, <1>17, <1>18, <1>20, <1>21 DEF Ledger!LedgerStep, Presented, Lives

LEMMA LedgerStart ==
  ASSUME Init
  PROVE  Ledger!LedgerInit
<1>1. ordered_revisions = <<>> /\ words = <<>>
  BY DEF Init
<1>2. PublishedWords = {}
  BY <1>1 DEF PublishedWords
<1>3. Cardinality(PublishedWords) = 0
  BY <1>2, FS_EmptySet
<1>4. DOMAIN ordered_revisions = {} /\ 1 .. Cardinality(PublishedWords) = {}
  BY <1>1, <1>3
<1>5. Presented = <<>>
  BY <1>4 DEF Presented
<1>6. Lives = <<>>
  BY <1>4 DEF Lives
<1> QED
  BY <1>1, <1>5, <1>6 DEF Ledger!LedgerInit, Presented, Lives

(***************************************************************************)
(* The analysis implements the token ledger, whatever the page and however *)
(* its texts repeat and compete for what is found again: a revision found  *)
(* valid adds its new tokens and updates origin, latest, inbound and       *)
(* outbound of every older one from what it shows and what the valid       *)
(* revision before it showed, and nothing else ever changes them, neither  *)
(* a rejected revision nor one still being matched.  Texts have a bounded  *)
(* number of tokens, which bounds those a revision introduces.             *)
(***************************************************************************)
THEOREM AnalysisIsLedger == TextsBounded /\ Spec => ImplementsLedger
<1> SUFFICES ASSUME TextsBounded
             PROVE  Spec => ImplementsLedger
  OBVIOUS
<1>1. Init => LifeInv
  BY InitType, TextInit, OnceInit, AddsInit, LedgerInvInit
     DEF Init, LifeInv, ComparedWithLatestValid, MatchesListed, at_least_one
<1>2. LifeInv /\ [Next]_vars => LifeInv'
  BY LifeInvStep
<1>3. Init => Ledger!LedgerInit
  BY LedgerStart
<1>4. LifeInv /\ LifeInv' /\ [Next]_vars => [Ledger!LedgerStep]_(Ledger!ledger)
  <2> SUFFICES ASSUME LifeInv, LifeInv', [Next]_vars
               PROVE  [Ledger!LedgerStep]_(Ledger!ledger)
    OBVIOUS
  <2>1. Grows
    BY LifeInvStep
  <2>2. CASE Commit
    BY <2>1, <2>2, PublishStep
  <2>3. CASE ~Commit
    BY <2>1, <2>3, StutterStep
  <2> QED
    BY <2>2, <2>3
<1> QED
  BY <1>1, <1>2, <1>3, <1>4, PTL DEF Spec, ImplementsLedger

-----------------------------------------------------------------------------
(* The tokens of a revision in reading order                               *)

\* The words of a paragraph, sentence by sentence, and of a revision.
WordsIn(p) ==
  [j \in DOMAIN paragraphs[p].sentences_ordered |->
     sentences[paragraphs[p].sentences_ordered[j]].words_ordered]
WordsBelow(r) ==
  [i \in DOMAIN revisions[r].paragraphs_ordered |-> WordsIn(revisions[r].paragraphs_ordered[i])]

Words == DOMAIN words

LEMMA WordsInType ==
  ASSUME TypeOK
  PROVE  /\ \A p \in DOMAIN paragraphs : WordsIn(p) \in Seq(Seq(Words))
         /\ \A r \in DOMAIN revisions : WordsBelow(r) \in Seq(Seq(Seq(Words)))
<1>1. ASSUME NEW p \in DOMAIN paragraphs
      PROVE  WordsIn(p) \in Seq(Seq(Words))
  <2>1. PICK S \in Seq(DOMAIN sentences) : S = paragraphs[p].sentences_ordered
    BY PartsIn DEF ParagraphType
  <2>2. DOMAIN S = 1 .. Len(S) /\ Len(S) \in Nat /\ \A j \in DOMAIN S : S[j] \in DOMAIN sentences
    BY ElementIn
  <2>3. \A s \in DOMAIN sentences : sentences[s].words_ordered \in Seq(Words)
    BY PartsIn DEF SentenceType, Words
  <2>4. WordsIn(p) = [j \in 1 .. Len(S) |-> sentences[S[j]].words_ordered]
    BY <2>1, <2>2 DEF WordsIn
  <2>5. WordsIn(p) \in [1 .. Len(S) -> Seq(Words)]
    BY <2>2, <2>3, <2>4
  <2> QED
    BY <2>2, <2>5, SeqDef
<1>2. ASSUME NEW r \in DOMAIN revisions
      PROVE  WordsBelow(r) \in Seq(Seq(Seq(Words)))
  <2>1. PICK P \in Seq(DOMAIN paragraphs) : P = revisions[r].paragraphs_ordered
    BY PartsIn DEF RevisionType
  <2>2. DOMAIN P = 1 .. Len(P) /\ Len(P) \in Nat /\ \A i \in DOMAIN P : P[i] \in DOMAIN paragraphs
    BY ElementIn
  <2>3. WordsBelow(r) = [i \in 1 .. Len(P) |-> WordsIn(P[i])]
    BY <2>1, <2>2 DEF WordsBelow
  <2>4. WordsBelow(r) \in [1 .. Len(P) -> Seq(Seq(Words))]
    BY <1>1, <2>2, <2>3
  <2> QED
    BY <2>2, <2>4, SeqDef
<1> QED
  BY <1>1, <1>2

\* iterate_revision_tokens goes through the paragraphs one by one.
LEMMA TokensBelow ==
  ASSUME TypeOK, NEW r \in DOMAIN revisions
  PROVE  /\ RevisionTokens(r) = FlattenSeq(Mapped(Flat(Words), WordsBelow(r)))
         /\ RevisionTokens(r) = FlattenSeq(FlattenSeq(WordsBelow(r)))
         /\ RevisionTokens(r) \in Seq(Words)
<1>1. WordsBelow(r) \in Seq(Seq(Seq(Words)))
  BY WordsInType
<1>2. /\ DOMAIN WordsBelow(r) = DOMAIN revisions[r].paragraphs_ordered
      /\ \A i \in DOMAIN WordsBelow(r) :
           WordsBelow(r)[i] = WordsIn(revisions[r].paragraphs_ordered[i])
  BY DEF WordsBelow
<1>3. RevisionTokens(r) =
        FlattenSeq([i \in DOMAIN WordsBelow(r) |-> FlattenSeq(WordsBelow(r)[i])])
  <2>1. RevisionTokens(r) =
          FlattenSeq([i \in DOMAIN revisions[r].paragraphs_ordered |->
                        FlattenSeq(WordsIn(revisions[r].paragraphs_ordered[i]))])
    BY DEF RevisionTokens, WordsIn
  <2>2. [i \in DOMAIN revisions[r].paragraphs_ordered |->
            FlattenSeq(WordsIn(revisions[r].paragraphs_ordered[i]))]
          = [i \in DOMAIN WordsBelow(r) |-> FlattenSeq(WordsBelow(r)[i])]
    BY <1>2
  <2> QED
    BY <2>1, <2>2
<1>4. \A i \in DOMAIN WordsBelow(r) :
        WordsBelow(r)[i] \in Seq(Seq(Words))
        /\ Flat(Words)[WordsBelow(r)[i]] = FlattenSeq(WordsBelow(r)[i])
  <2>1. \A i \in DOMAIN WordsBelow(r) : WordsBelow(r)[i] \in Seq(Seq(Words))
    BY <1>1, ElementIn
  <2> QED
    BY <2>1 DEF Flat
<1>5. Mapped(Flat(Words), WordsBelow(r))
        = [i \in DOMAIN WordsBelow(r) |-> FlattenSeq(WordsBelow(r)[i])]
  BY <1>4 DEF Mapped
<1>6. FlattenSeq(FlattenSeq(WordsBelow(r))) = FlattenSeq(Mapped(Flat(Words), WordsBelow(r)))
  BY <1>1, FlattenTwice
<1>7. FlattenSeq(WordsBelow(r)) \in Seq(Seq(Words))
  BY <1>1, FlattenIn
<1>8. FlattenSeq(FlattenSeq(WordsBelow(r))) \in Seq(Words)
  BY <1>7, FlattenIn
<1> QED
  BY <1>3, <1>5, <1>6, <1>8

\* The words of a revision, as numbered by iterate_revision_tokens, spell its text.
LEMMA TokensSpell ==
  ASSUME TypeOK, NEW r \in DOMAIN revisions
  PROVE  [k \in DOMAIN RevisionTokens(r) |-> words[RevisionTokens(r)[k]].value]
           = FlattenSeq(FlattenSeq(TextOf(r)))
<1> DEFINE v == [w \in Words |-> words[w].value]
           T == Seq(Token)
           X == WordsBelow(r)
           all == MapAll(v, Words)
<1>1. Maps(v, Words, Token)
  BY PartsIn DEF Maps, Words, WordType
<1>2. X \in Seq(Seq(Seq(Words)))
  BY WordsInType
<1>3. \A i \in DOMAIN X : X[i] \in Seq(Seq(Words)) /\ \A j \in DOMAIN X[i] : X[i][j] \in Seq(Words)
  <2>1. \A i \in DOMAIN X : X[i] \in Seq(Seq(Words))
    BY <1>2, ElementIn
  <2> QED
    BY <2>1, ElementIn
<1>4. \A i \in DOMAIN X : \A j \in DOMAIN X[i] : \A k \in DOMAIN X[i][j] :
        v[X[i][j][k]] = words[X[i][j][k]].value
  BY <1>3, ElementIn
<1> HIDE DEF v
<1>5. Maps(all, Seq(Words), T)
  BY <1>1, MappedIn DEF Maps, MapAll
<1>6. \A i \in DOMAIN X : \A j \in DOMAIN X[i] : all[X[i][j]] = Mapped(v, X[i][j])
  BY <1>3 DEF MapAll
<1> HIDE DEF all, X
<1>7. \A i \in DOMAIN X : MapAll(all, Seq(Words))[X[i]] = Mapped(all, X[i])
  BY <1>3 DEF MapAll
<1>8. Mapped(MapAll(all, Seq(Words)), X) =
        [i \in DOMAIN X |-> [j \in DOMAIN X[i] |-> [k \in DOMAIN X[i][j] |->
           words[X[i][j][k]].value]]]
  <2>1. \A i \in DOMAIN X : \A j \in DOMAIN X[i] :
          Mapped(v, X[i][j]) = [k \in DOMAIN X[i][j] |-> words[X[i][j][k]].value]
    BY <1>4 DEF Mapped
  <2>2. \A i \in DOMAIN X :
          Mapped(all, X[i]) = [j \in DOMAIN X[i] |-> [k \in DOMAIN X[i][j] |->
                                 words[X[i][j][k]].value]]
    BY <1>6, <2>1 DEF Mapped
  <2>3. Mapped(MapAll(all, Seq(Words)), X)
          = [i \in DOMAIN X |-> MapAll(all, Seq(Words))[X[i]]]
    BY DEF Mapped
  <2> QED
    BY <1>7, <2>2, <2>3
<1>9. TextOf(r) = Mapped(MapAll(all, Seq(Words)), X)
  <2> DEFINE P == revisions[r].paragraphs_ordered
             S(i) == paragraphs[P[i]].sentences_ordered
             W(i, j) == sentences[S(i)[j]].words_ordered
  <2>1. DOMAIN X = DOMAIN P /\ \A i \in DOMAIN P : X[i] = WordsIn(P[i])
    BY DEF X, WordsBelow
  <2>2. \A i : /\ DOMAIN WordsIn(P[i]) = DOMAIN S(i)
               /\ \A j \in DOMAIN S(i) : WordsIn(P[i])[j] = W(i, j)
    BY DEF WordsIn
  <2>3. TextOf(r) = [i \in DOMAIN P |-> [j \in DOMAIN S(i) |-> [k \in DOMAIN W(i, j) |->
                       words[W(i, j)[k]].value]]]
    BY DEF TextOf
  <2> HIDE DEF P, S, W
  <2>4. ASSUME NEW i \in DOMAIN P
        PROVE  [j \in DOMAIN S(i) |-> [k \in DOMAIN W(i, j) |-> words[W(i, j)[k]].value]]
                 = [j \in DOMAIN X[i] |-> [k \in DOMAIN X[i][j] |-> words[X[i][j][k]].value]]
    <3>1. DOMAIN X[i] = DOMAIN S(i) /\ \A j \in DOMAIN S(i) : X[i][j] = W(i, j)
      BY <2>1, <2>2
    <3> QED
      BY <3>1
  <2> QED
    BY <1>8, <2>1, <2>3, <2>4
<1>10. FlattenSeq(Mapped(MapAll(all, Seq(Words)), X)) = Mapped(all, FlattenSeq(X))
  BY <1>2, <1>5, FlattenMapped
<1>11. PICK Y \in Seq(Seq(Words)) : Y = FlattenSeq(X)
  BY <1>2, FlattenIn
<1>12. FlattenSeq(Mapped(all, Y)) = Mapped(v, FlattenSeq(Y))
  BY <1>1, FlattenMapped DEF all
<1>13. PICK Z \in Seq(Words) : Z = FlattenSeq(Y) /\ RevisionTokens(r) = Z
  BY <1>11, TokensBelow DEF X
<1>14. Mapped(v, Z) = [k \in DOMAIN Z |-> words[Z[k]].value]
  <2>1. \A k \in DOMAIN Z : v[Z[k]] = words[Z[k]].value
    BY ElementIn DEF v
  <2> QED
    BY <2>1 DEF Mapped
<1> QED
  BY <1>9, <1>10, <1>11, <1>12, <1>13, <1>14

\* iterate_revision_tokens shows what the revision shows, and nothing twice.
LEMMA TokensOnceEach ==
  ASSUME TypeOK, WordsOnce, NEW r \in DOMAIN revisions
  PROVE  /\ Once(RevisionTokens(r))
         /\ Range(RevisionTokens(r)) \subseteq Shown(r)
<1>1. PICK X : X = WordsBelow(r)
  OBVIOUS
<1>2. PICK F : F = Mapped(Flat(Words), X)
  OBVIOUS
<1>3. X \in Seq(Seq(Seq(Words))) /\ \A i \in DOMAIN X : X[i] \in Seq(Seq(Words))
  BY <1>1, WordsInType, ElementIn
<1>4. PICK P \in Seq(DOMAIN paragraphs) : P = revisions[r].paragraphs_ordered
  BY PartsIn DEF RevisionType
<1>5. /\ DOMAIN X = DOMAIN P
      /\ \A i \in DOMAIN P : P[i] \in DOMAIN paragraphs /\ X[i] = WordsIn(P[i])
  BY <1>1, <1>4, ElementIn DEF WordsBelow
<1>6. ASSUME NEW p \in DOMAIN paragraphs
      PROVE  /\ Range(FlattenSeq(WordsIn(p))) \subseteq ParagraphWords(p)
             /\ Once(FlattenSeq(WordsIn(p)))
  <2>1. PICK S \in Seq(DOMAIN sentences) : S = paragraphs[p].sentences_ordered
    BY PartsIn DEF ParagraphType
  <2>2. PICK W \in Seq(Seq(Words)) : W = WordsIn(p)
    BY WordsInType
  <2>3. /\ DOMAIN W = DOMAIN S
        /\ \A j \in DOMAIN S : /\ S[j] \in DOMAIN sentences
                               /\ W[j] = sentences[S[j]].words_ordered
                               /\ Range(W[j]) = SentenceWords(S[j])
    BY <2>1, <2>2, ElementIn DEF WordsIn, SentenceWords
  <2>4. \A w \in Range(FlattenSeq(W)) : \E j \in DOMAIN W : w \in Range(W[j])
    BY FlattenRange
  <2>5. \A j \in DOMAIN S : SentenceWords(S[j]) \subseteq ParagraphWords(p)
    BY <2>1 DEF ParagraphWords, ParagraphSentences, Range
  <2>6. PartsOnce(W)
    <3>1. ASSUME NEW j \in DOMAIN W
          PROVE  Once(W[j])
      <4>1. SentenceOnce(S[j]) /\ W[j] = sentences[S[j]].words_ordered
        BY <2>3 DEF WordsOnce
      <4>2. Once(sentences[S[j]].words_ordered)
        BY <4>1 DEF SentenceOnce, Once
      <4> QED
        BY <4>1, <4>2
    <3>2. \A i, j \in DOMAIN W : i # j => Range(W[i]) \cap Range(W[j]) = {}
      <4>1. ParagraphOnce(p)
        BY DEF WordsOnce
      <4>2. \A i, j \in DOMAIN S : i # j => SentenceWords(S[i]) \cap SentenceWords(S[j]) = {}
        BY <2>1, <4>1 DEF ParagraphOnce
      <4> QED
        BY <2>3, <4>2
    <3> QED
      BY <3>1, <3>2 DEF PartsOnce
  <2>7. Once(FlattenSeq(W))
    BY <2>6, FlattenOnce
  <2> QED
    BY <2>2, <2>3, <2>4, <2>5, <2>7
<1>7. F \in Seq(Seq(Words)) /\ DOMAIN F = DOMAIN P /\ \A i \in DOMAIN P : F[i] = FlattenSeq(X[i])
  <2>1. Maps(Flat(Words), Seq(Seq(Words)), Seq(Words))
    BY FlattenIn DEF Maps, Flat
  <2>2. F \in Seq(Seq(Words))
    BY <1>3, <1>2, <2>1, MappedIn
  <2>3. DOMAIN F = DOMAIN X /\ \A i \in DOMAIN X : F[i] = Flat(Words)[X[i]]
    BY <1>2 DEF Mapped
  <2>4. \A i \in DOMAIN X : Flat(Words)[X[i]] = FlattenSeq(X[i])
    BY <1>3 DEF Flat
  <2> QED
    BY <1>5, <2>2, <2>3, <2>4
<1>8. \A i \in DOMAIN P : Range(F[i]) \subseteq ParagraphWords(P[i]) /\ Once(F[i])
  BY <1>5, <1>6, <1>7
<1>9. \A i, j \in DOMAIN P : i # j => ParagraphWords(P[i]) \cap ParagraphWords(P[j]) = {}
  BY <1>4 DEF WordsOnce, RevisionOnce
<1>10. PartsOnce(F)
  <2>1. \A i \in DOMAIN F : Once(F[i])
    BY <1>7, <1>8
  <2>2. \A i, j \in DOMAIN F : i # j => Range(F[i]) \cap Range(F[j]) = {}
    BY <1>7, <1>8, <1>9
  <2> QED
    BY <2>1, <2>2 DEF PartsOnce
<1>11. Once(FlattenSeq(F))
  BY <1>7, <1>10, FlattenOnce
<1>12. \A w \in Range(FlattenSeq(F)) : \E i \in DOMAIN F : w \in Range(F[i])
  BY <1>7, FlattenRange
<1>13. ASSUME NEW i \in DOMAIN P
       PROVE  ParagraphWords(P[i]) \subseteq Shown(r)
  <2>1. P[i] \in Range(revisions[r].paragraphs_ordered)
    BY <1>4 DEF Range
  <2> QED
    BY <2>1 DEF Shown
<1>14. RevisionTokens(r) = FlattenSeq(F)
  BY <1>1, <1>2, TokensBelow
<1> QED
  BY <1>7, <1>8, <1>11, <1>12, <1>13, <1>14

-----------------------------------------------------------------------------
(* Ids                                                                     *)

\* Revisions are numbered as they are read, and rejected in that order.
IdsInOrder ==
  /\ \A r \in DOMAIN revisions : revisions[r].id <= seen
  /\ \A q, r \in DOMAIN revisions : q < r => revisions[q].id < revisions[r].id
  /\ Increasing(spam_ids)

LEMMA IncreasingAppend ==
  ASSUME NEW s \in Seq(Nat), NEW e \in Nat, Increasing(s), \A i \in Range(s) : i < e
  PROVE  Increasing(Append(s, e))
<1>1. PICK n \in Nat : n = Len(s)
  BY ElementIn
<1>2. /\ DOMAIN s = 1 .. n /\ Len(Append(s, e)) = n + 1
      /\ Append(s, e)[n + 1] = e /\ \A i \in 1 .. n : Append(s, e)[i] = s[i]
  BY <1>1, Appending
<1>3. ASSUME NEW k \in 2 .. n + 1
      PROVE  Append(s, e)[k - 1] < Append(s, e)[k]
  <2>1. CASE k = n + 1
    <3>1. k - 1 \in 1 .. n /\ Append(s, e)[k - 1] = s[k - 1] /\ Append(s, e)[k] = e
      BY <1>2, <2>1
    <3>2. s[k - 1] \in Range(s)
      BY <1>2, <3>1 DEF Range
    <3> QED
      BY <3>1, <3>2
  <2>2. CASE k # n + 1
    <3>1. k \in 2 .. n /\ k \in 1 .. n /\ k - 1 \in 1 .. n
      BY <2>2
    <3> QED
      BY <1>1, <1>2, <3>1 DEF Increasing
  <2> QED
    BY <2>1, <2>2
<1> QED
  BY <1>2, <1>3 DEF Increasing

LEMMA OrderStep ==
  ASSUME TypeOK, TypeOK', IdsApart, IdsInOrder, Grows, [Next]_vars
  PROVE  IdsInOrder'
<1>1. /\ \A r \in DOMAIN revisions : revisions'[r].id = revisions[r].id /\ revisions[r].id \in Nat
      /\ seen \in Nat /\ current_revision \in DOMAIN revisions
      /\ spam_ids \in Seq(Nat)
  <2>1. seen \in Nat
    BY InputAssumption DEF TypeOK
  <2> QED
    BY <2>1, PartsIn DEF Grows, ValuesKept, RevisionType, TypeOK
<1>2. ASSUME DOMAIN revisions' = DOMAIN revisions, seen' \in Nat, seen <= seen'
      PROVE  /\ \A r \in DOMAIN revisions' : revisions'[r].id <= seen'
             /\ \A q, r \in DOMAIN revisions' : q < r => revisions'[q].id < revisions'[r].id
  <2>1. \A a \in Nat : a <= seen => a <= seen'
    BY <1>1, <1>2
  <2>2. \A r \in DOMAIN revisions : revisions[r].id <= seen /\ revisions[r].id \in Nat
    BY <1>1 DEF IdsInOrder
  <2>3. \A r \in DOMAIN revisions : revisions'[r].id <= seen'
    BY <1>1, <2>1, <2>2
  <2> QED
    BY <1>1, <1>2, <2>3 DEF IdsInOrder
<1>3. ASSUME NEW xml \in XmlRevisions, SkipDeleted(xml)
      PROVE  IdsInOrder'
  BY <1>1, <1>2, <1>3 DEF SkipDeleted, ReadRevision, IdsInOrder
<1>4. ASSUME NEW xml \in XmlRevisions, RejectByContent(xml)
      PROVE  IdsInOrder'
  <2>1. /\ seen' = seen + 1 /\ UNCHANGED revisions /\ spam_ids' = Append(spam_ids, seen + 1)
        /\ Quiescent
    BY <1>4 DEF RejectByContent, ReadRevision
  <2>2. \A i \in Range(spam_ids) : i < seen + 1
    <3>1. \A i \in Range(spam_ids) : i \in Nat /\ i <= seen
      BY <1>1, <2>1, ElementIn DEF IdsApart
    <3> QED
      BY <1>1, <3>1
  <2>3. Increasing(spam_ids')
    BY <1>1, <2>1, <2>2, IncreasingAppend DEF IdsInOrder
  <2> QED
    BY <1>1, <1>2, <2>1, <2>3 DEF IdsInOrder
<1>5. ASSUME NEW xml \in XmlRevisions, BeginRevision(xml)
      PROVE  IdsInOrder'
  <2>1. PICK n \in Nat : n = Len(revisions)
    BY ElementIn DEF TypeOK
  <2>2. /\ DOMAIN revisions = 1 .. n /\ DOMAIN revisions' = 1 .. n + 1
        /\ revisions'[n + 1].id = seen'
    BY <1>5, <2>1, BeginDoes DEF Added
  <2>3. seen' = seen + 1 /\ UNCHANGED spam_ids
    BY <1>5 DEF BeginRevision, ReadRevision
  <2>4. \A r \in 1 .. n + 1 : r \in 1 .. n \/ r = n + 1
    OBVIOUS
  <2>5. \A r \in 1 .. n : revisions'[r].id \in Nat /\ revisions'[r].id <= seen
    BY <1>1, <2>2 DEF IdsInOrder
  <2>6. \A r \in 1 .. n + 1 : revisions'[r].id <= seen'
    BY <1>1, <2>2, <2>3, <2>4, <2>5
  <2>7. ASSUME NEW q \in 1 .. n + 1, NEW r \in 1 .. n + 1, q < r
        PROVE  revisions'[q].id < revisions'[r].id
    <3>1. q \in 1 .. n
      BY <2>4, <2>7
    <3>2. CASE r \in 1 .. n
      BY <1>1, <2>2, <2>7, <3>1, <3>2, SMTT(30) DEF IdsInOrder
    <3>3. CASE r = n + 1
      BY <1>1, <2>2, <2>3, <2>5, <3>1, <3>3
    <3> QED
      BY <2>4, <3>2, <3>3
  <2>8. Increasing(spam_ids')
    BY <2>3 DEF IdsInOrder
  <2> QED
    BY <2>2, <2>6, <2>7, <2>8 DEF IdsInOrder
<1>6. CASE Discard
  <2>1. /\ UNCHANGED <<seen, revisions>> /\ ~Quiescent
        /\ spam_ids' = Append(spam_ids, revisions[current_revision].id)
    BY <1>6 DEF Discard
  <2>2. revisions[current_revision].id = seen /\ \A i \in Range(spam_ids) : i < seen
    BY <2>1 DEF IdsApart
  <2>3. Increasing(spam_ids')
    BY <1>1, <2>1, <2>2, IncreasingAppend DEF IdsInOrder
  <2> QED
    BY <1>1, <1>2, <2>1, <2>3 DEF IdsInOrder
<1>7. CASE ReuseParagraph \/ NewParagraph \/ AddWord
  <2>1. DOMAIN revisions' = DOMAIN revisions
    BY <1>7, ReuseParagraphDoes, NewParagraphDoes, AddWordDoes DEF StoredParagraph
  <2>2. UNCHANGED <<seen, spam_ids>>
    BY <1>7 DEF ReuseParagraph, NewParagraph, AddWord
  <2> QED
    BY <1>1, <1>2, <2>1, <2>2 DEF IdsInOrder
<1>8. CASE \/ EndParagraphs \/ ReuseSentence \/ NewSentence \/ EndSentences \/ RejectDense
           \/ StartDiff \/ KeepWord \/ DropWord \/ EndWords \/ Commit \/ EndOfPage \/ Finished
           \/ UNCHANGED vars
  <2>1. UNCHANGED <<seen, spam_ids, revisions>>
    BY <1>8 DEF EndParagraphs, ReuseSentence, NewSentence, EndSentences, RejectDense,
       StartDiff, KeepWord, DropWord, EndWords, Commit, EndOfPage, Finished
  <2> QED
    BY <1>1, <2>1 DEF IdsInOrder
<1> QED
  BY <1>3, <1>4, <1>5, <1>6, <1>7, <1>8 DEF Next

LEMMA OrderInit == Init => IdsApart /\ IdsInOrder
<1> SUFFICES ASSUME Init PROVE IdsApart /\ IdsInOrder
  OBVIOUS
<1>1. DOMAIN revisions = {1} /\ revisions[1].id = 0 /\ seen = 0 /\ spam_ids = <<>>
      /\ Published = {} /\ Quiescent
  <2>1. DOMAIN <<>> = {}
    OBVIOUS
  <2> QED
    BY <2>1 DEF Init, Dummy, Published, Range
<1>2. Range(<<>>) = {} /\ Len(<<>>) = 0 /\ 2 .. 0 = {}
  BY DEF Range
<1> QED
  BY <1>1, <1>2 DEF IdsApart, IdsInOrder, Increasing

-----------------------------------------------------------------------------
(* The history of the tokens                                               *)

\* The ledger the analysis implements, with what is proved of it.
Story == INSTANCE TokenLedgerProofs WITH
  Revision <- 2 .. MaxRevisions + 1,
  MaxFresh <- Cardinality(UNION {TokenPlaces(text) : text \in Texts}),
  valid <- ordered_revisions,
  present <- [n \in DOMAIN ordered_revisions |-> Shown(ordered_revisions[n])],
  tokens <- [w \in 1 .. Cardinality(PublishedWords) |-> PublishedLife(words[w])]

LEMMA StoryAssumption ==
  ASSUME TextsBounded
  PROVE  Story!LedgerAssumption
<1>1. 2 .. MaxRevisions + 1 \subseteq Nat
  BY InputAssumption
<1>2. Cardinality(UNION {TokenPlaces(text) : text \in Texts}) \in Nat
  BY FS_CardinalityType DEF TextsBounded
<1> QED
  BY <1>1, <1>2 DEF Story!LedgerAssumption

LEMMA StoryInit ==
  ASSUME TextsBounded, Init
  PROVE  Story!IInv
<1>1. Ledger!LedgerInit
  BY LedgerStart
<1>2. Story!LedgerInit
  BY <1>1 DEF Ledger!LedgerInit, Story!LedgerInit
<1> QED
  BY <1>2, StoryAssumption, Story!InitInv

LEMMA StoryStep ==
  ASSUME TextsBounded, LifeInv, LifeInv', [Next]_vars, Story!IInv
  PROVE  Story!IInv'
<1>1. Grows
  BY LifeInvStep
<1>2. CASE Commit
  <2>1. Ledger!LedgerStep
    BY <1>1, <1>2, PublishStep
  <2>2. Story!LedgerStep
    BY <2>1 DEF Ledger!LedgerStep, Story!LedgerStep, Ledger!Publish, Story!Publish,
       Ledger!Updated, Story!Updated, Ledger!Born, Story!Born, Ledger!Showing, Story!Showing
  <2>3. Story!LedgerNext
    BY <2>2, StoryAssumption, Story!StepIsNext
  <2> QED
    BY <2>3, StoryAssumption, Story!StepInv
<1>3. CASE ~Commit
  <2>1. UNCHANGED Ledger!ledger
    BY <1>1, <1>3, StutterStep
  <2>2. UNCHANGED Story!ledger
    BY <2>1 DEF Ledger!ledger, Story!ledger
  <2> QED
    BY <2>2, StoryAssumption, Story!StepInv
<1> QED
  BY <1>2, <1>3

\* The newest revision of the ledger is the current one of the analysis.
LEMMA NewestShown ==
  ASSUME TypeOK, LastIs(ordered_revisions, current_revision)
  PROVE  Story!Showing = Shown(current_revision)
<1>1. PICK n \in Nat : n = Len(ordered_revisions)
  BY ElementIn DEF TypeOK
<1>2. DOMAIN ordered_revisions = 1 .. n /\ n \in 1 .. n /\ ordered_revisions[n] = current_revision
  BY <1>1, ElementIn DEF TypeOK, LastIs
<1>3. Presented = [m \in 1 .. n |-> Shown(ordered_revisions[m])]
  BY <1>2 DEF Presented
<1>4. Presented \in Seq({Shown(ordered_revisions[m]) : m \in 1 .. n})
  BY <1>3, SeqDef
<1>5. Len(Presented) = n /\ Presented # <<>>
  BY <1>2, <1>3, <1>4
<1>6. Presented[Len(Presented)] = Shown(current_revision)
  BY <1>2, <1>3, <1>5
<1> QED
  BY <1>5, <1>6 DEF Story!Showing, Presented

\* What the ledger says of a token the current revision shows.
LEMMA ShownTold ==
  ASSUME TextsBounded, LifeInv, Story!IInv, Quiescent, at_least_one, NEW w \in Shown(current_revision)
  PROVE  LET in == words[w].inbound
             out == words[w].outbound
         IN /\ words[w].origin \in Published
            /\ Range(in) \subseteq Published /\ Range(out) \subseteq Published
            /\ Len(out) = Len(in)
            /\ \A n \in DOMAIN in : out[n] < in[n]
            /\ \A n \in DOMAIN out : n > 1 => in[n - 1] < out[n]
            /\ \A n \in DOMAIN out : words[w].origin < out[n]
<1> USE DEF LifeInv
<1>1. LastIs(ordered_revisions, current_revision)
  BY DEF ComparedWithLatestValid
<1>2. w \in PublishedWords /\ words[w].origin \in Published
  <2>1. w \in DOMAIN words
    BY ShownIn DEF TypeOK
  <2> QED
    BY <2>1, OriginsKnown DEF PublishedWords
<1>3. /\ PublishedLife(words[w]).origin = words[w].origin
      /\ PublishedLife(words[w]).inbound = words[w].inbound
      /\ PublishedLife(words[w]).outbound = words[w].outbound
  <2>1. ~Hidden(w)
    BY <1>2, NothingHidden
  <2>2. PublishedLife(words[w]) =
          [origin |-> words[w].origin, latest |-> words[w].latest, inbound |-> words[w].inbound,
           outbound |-> IF Hidden(w) THEN SubSeq(words[w].outbound, 1, Len(words[w].outbound) - 1)
                        ELSE words[w].outbound]
    BY LifeIs
  <2> QED
    BY <2>1, <2>2
<1>4. DOMAIN Lives = PublishedWords /\ Lives[w] = PublishedLife(words[w])
  BY <1>2, PublishedFirst DEF Lives
<1>5. w \in Story!Showing
  BY <1>1, NewestShown
<1>6. Story!RemovalsAlternate /\ Story!RecordTellsHistory
  BY DEF Story!IInv
<1>7. LET in == Lives[w].inbound
          out == Lives[w].outbound
      IN /\ Len(out) = Len(in) + 0
         /\ \A n \in DOMAIN in : out[n] < in[n]
         /\ \A n \in DOMAIN out : n > 1 => in[n - 1] < out[n]
         /\ \A n \in DOMAIN out : Lives[w].origin < out[n]
  BY <1>2, <1>4, <1>5, <1>6 DEF Story!RemovalsAlternate, Lives
<1>8. Range(Lives[w].outbound) \subseteq Published /\ Range(Lives[w].inbound) \subseteq Published
  <2>1. w \in DOMAIN Lives
    BY <1>2, <1>4
  <2>2. /\ Story!Range(Lives[w].outbound) \subseteq Story!Range(ordered_revisions)
        /\ Story!Range(Lives[w].inbound) \subseteq Story!Range(ordered_revisions)
    BY <1>6, <2>1, StoryAssumption, Story!ValidOnly DEF Lives
  <2> QED
    BY <2>2 DEF Story!Range, Range, Published
<1>9. words[w].inbound \in Seq(DOMAIN revisions)
  BY <1>2, PartsIn DEF PublishedWords, WordType
<1>10. Len(words[w].inbound) + 0 = Len(words[w].inbound)
  BY <1>9, ElementIn
<1> QED
  BY <1>2, <1>3, <1>4, <1>7, <1>8, <1>10

\* Removals and restorations in turn are one list of growing ids.
LEMMA LifeIncreases ==
  ASSUME NEW token, NEW o \in Nat, NEW in \in Seq(Nat), NEW out \in Seq(Nat),
         token.o_rev_id = o, token.in = in, token.out = out, Len(in) = Len(out),
         \A n \in DOMAIN in : out[n] < in[n],
         \A n \in DOMAIN out : n > 1 => in[n - 1] < out[n],
         \A n \in DOMAIN out : o < out[n]
  PROVE  /\ Increasing(LifeOf(token))
         /\ Range(LifeOf(token)) \subseteq {o} \cup Range(in) \cup Range(out)
<1>1. PICK N \in Nat : N = Len(out)
  BY ElementIn
<1>2. DOMAIN in = 1 .. N /\ DOMAIN out = 1 .. N
  BY <1>1, ElementIn
<1>3. PICK life : life = LifeOf(token)
  OBVIOUS
<1>4. life = [k \in 1 .. 1 + 2 * N |-> CASE k = 1 -> o
                                         [] k % 2 = 0 -> out[k \div 2]
                                         [] OTHER -> in[k \div 2]]
  BY <1>1, <1>3 DEF LifeOf
<1>5. life[1] = o
  BY <1>4
<1>6. ASSUME NEW n \in 1 .. N
      PROVE  /\ 2 * n \in 1 .. 1 + 2 * N /\ 2 * n + 1 \in 1 .. 1 + 2 * N
             /\ life[2 * n] = out[n] /\ life[2 * n + 1] = in[n]
  <2>1. /\ 2 * n \in 1 .. 1 + 2 * N /\ 2 * n + 1 \in 1 .. 1 + 2 * N
        /\ 2 * n # 1 /\ 2 * n + 1 # 1
    OBVIOUS
  <2>2. (2 * n) % 2 = 0 /\ (2 * n) \div 2 = n /\ (2 * n + 1) % 2 = 1 /\ (2 * n + 1) \div 2 = n
    OBVIOUS
  <2>3. life[2 * n] = out[n]
    BY <1>4, <2>1, <2>2
  <2>4. life[2 * n + 1] = in[n]
    BY <1>4, <2>1, <2>2
  <2> QED
    BY <2>1, <2>3, <2>4
<1>7. ASSUME NEW k \in 1 .. 1 + 2 * N
      PROVE  k = 1 \/ \E n \in 1 .. N : k = 2 * n \/ k = 2 * n + 1
  <2>1. PICK n \in Int : n = k \div 2
    OBVIOUS
  <2>2. k = 2 * n \/ k = 2 * n + 1
    BY <2>1
  <2>3. k # 1 => n \in 1 .. N
    BY <2>2
  <2> QED
    BY <2>2, <2>3
<1>8. DOMAIN life = 1 .. 1 + 2 * N /\ Len(life) = 1 + 2 * N
  <2>1. PICK M \in Nat : M = 1 + 2 * N
    OBVIOUS
  <2>2. DOMAIN life = 1 .. M /\ life = [k \in 1 .. M |-> life[k]]
    BY <1>4, <2>1
  <2>3. PICK S : \A k \in 1 .. M : life[k] \in S
    <3>1. \A k \in 1 .. M : life[k] \in {life[i] : i \in 1 .. M}
      OBVIOUS
    <3> QED
      BY <3>1
  <2>4. life \in [1 .. M -> S]
    BY <2>2, <2>3
  <2>5. life \in Seq(S)
    BY <2>4, SeqDef
  <2> QED
    BY <2>1, <2>2, <2>5
<1>9. ASSUME NEW k \in 2 .. 1 + 2 * N
      PROVE  life[k - 1] < life[k]
  <2>1. PICK n \in 1 .. N : k = 2 * n \/ k = 2 * n + 1
    <3>1. k \in 1 .. 1 + 2 * N /\ k # 1
      OBVIOUS
    <3> QED
      BY <1>7, <3>1
  <2>2. CASE k = 2 * n + 1
    <3>1. k - 1 = 2 * n
      BY <2>2
    <3> QED
      BY <1>2, <1>6, <2>2, <3>1
  <2>3. CASE k = 2 * n /\ n = 1
    <3>1. k - 1 = 1 /\ life[k] = out[1]
      BY <1>6, <2>3
    <3>2. o < out[1]
      BY <1>2, <2>3
    <3> QED
      BY <1>5, <3>1, <3>2
  <2>4. CASE k = 2 * n /\ n # 1
    <3>1. PICK m \in 1 .. N : m = n - 1 /\ n > 1
      BY <2>4
    <3>2. k - 1 = 2 * m + 1
      BY <2>4, <3>1
    <3>3. life[k - 1] = in[m] /\ life[k] = out[n]
      BY <1>6, <2>4, <3>2
    <3> QED
      BY <1>2, <3>1, <3>3
  <2> QED
    BY <2>1, <2>2, <2>3, <2>4
<1>10. ASSUME NEW k \in 1 .. 1 + 2 * N
       PROVE  life[k] \in {o} \cup Range(in) \cup Range(out)
  <2>1. CASE k = 1
    BY <1>5, <2>1
  <2>2. CASE k # 1
    <3>1. PICK n \in 1 .. N : k = 2 * n \/ k = 2 * n + 1
      BY <1>7, <2>2
    <3>2. life[k] = out[n] \/ life[k] = in[n]
      BY <1>6, <3>1
    <3> QED
      BY <1>2, <3>2 DEF Range
  <2> QED
    BY <2>1, <2>2
<1>11. Increasing(life)
  BY <1>8, <1>9 DEF Increasing
<1>12. Range(life) \subseteq {o} \cup Range(in) \cup Range(out)
  BY <1>8, <1>10 DEF Range
<1> QED
  BY <1>3, <1>11, <1>12

-----------------------------------------------------------------------------
(* The output                                                              *)

OutputInv == LifeInv /\ IdsApart /\ IdsInOrder /\ Story!IInv

LEMMA IdsIn ==
  ASSUME TypeOK, NEW s \in Seq(DOMAIN revisions)
  PROVE  /\ Ids(s) \in Seq(Nat) /\ Len(Ids(s)) = Len(s)
         /\ DOMAIN Ids(s) = DOMAIN s
         /\ \A k \in DOMAIN s : s[k] \in DOMAIN revisions /\ Ids(s)[k] = revisions[s[k]].id
<1>1. PICK n \in Nat : n = Len(s) /\ DOMAIN s = 1 .. n
  BY ElementIn
<1>2. \A k \in 1 .. n : s[k] \in DOMAIN revisions /\ revisions[s[k]].id \in Nat
  <2>1. \A r \in DOMAIN revisions : revisions[r].id \in Nat
    BY PartsIn DEF RevisionType
  <2> QED
    BY <1>1, <2>1, ElementIn
<1>3. Ids(s) = [k \in 1 .. n |-> revisions[s[k]].id]
  BY <1>1 DEF Ids
<1>4. Ids(s) \in [1 .. n -> Nat]
  BY <1>2, <1>3
<1>5. Ids(s) \in Seq(Nat) /\ Len(Ids(s)) = n
  BY <1>4, SeqDef
<1> QED
  BY <1>1, <1>2, <1>3, <1>5

\* The ids of pointers in page order grow.
LEMMA IdsIncrease ==
  ASSUME TypeOK, IdsInOrder, NEW s \in Seq(DOMAIN revisions),
         \A k \in 2 .. Len(s) : s[k - 1] < s[k]
  PROVE  Increasing(Ids(s))
<1>1. PICK n \in Nat : n = Len(s) /\ DOMAIN s = 1 .. n
  BY ElementIn
<1>2. /\ Len(Ids(s)) = n
      /\ \A k \in 1 .. n : s[k] \in DOMAIN revisions /\ Ids(s)[k] = revisions[s[k]].id
  BY <1>1, IdsIn
<1>3. ASSUME NEW k \in 2 .. n
      PROVE  Ids(s)[k - 1] < Ids(s)[k]
  <2>1. k \in 1 .. n /\ k - 1 \in 1 .. n /\ s[k - 1] < s[k]
    BY <1>1
  <2> QED
    BY <1>2, <2>1 DEF IdsInOrder
<1> QED
  BY <1>2, <1>3 DEF Increasing

\* The life of a token that the current revision shows.
LEMMA TokenTold ==
  ASSUME TextsBounded, OutputInv, Quiescent, at_least_one,
         NEW w \in Shown(current_revision), NEW token, token = TokenOutput(w)
  PROVE  /\ Len(token.in) = Len(token.out)
         /\ Increasing(LifeOf(token))
         /\ Range(LifeOf(token)) \subseteq Range(Ids(ordered_revisions))
<1> USE DEF OutputInv
<1>1. TypeOK /\ ordered_revisions \in Seq(DOMAIN revisions) /\ current_revision \in DOMAIN revisions
  BY DEF LifeInv, TypeOK
<1>2. w \in DOMAIN words
  BY <1>1, ShownIn
<1>3. PICK o \in DOMAIN revisions, in \in Seq(DOMAIN revisions), out \in Seq(DOMAIN revisions) :
        o = words[w].origin /\ in = words[w].inbound /\ out = words[w].outbound
  BY <1>1, <1>2, PartsIn DEF WordType
<1>4. /\ o \in Published /\ Range(in) \subseteq Published /\ Range(out) \subseteq Published
      /\ Len(out) = Len(in)
      /\ \A n \in DOMAIN in : out[n] < in[n]
      /\ \A n \in DOMAIN out : n > 1 => in[n - 1] < out[n]
      /\ \A n \in DOMAIN out : o < out[n]
  BY <1>3, ShownTold
<1>5. token.o_rev_id = revisions[o].id /\ token.in = Ids(in) /\ token.out = Ids(out)
  BY <1>3 DEF TokenOutput
<1>6. PICK N \in Nat : /\ N = Len(in) /\ N = Len(out)
                       /\ DOMAIN in = 1 .. N /\ DOMAIN out = 1 .. N
  BY <1>4, ElementIn
<1>7. /\ Ids(in) \in Seq(Nat) /\ Len(Ids(in)) = N /\ DOMAIN Ids(in) = 1 .. N
      /\ Ids(out) \in Seq(Nat) /\ Len(Ids(out)) = N /\ DOMAIN Ids(out) = 1 .. N
      /\ \A n \in 1 .. N : in[n] \in DOMAIN revisions /\ Ids(in)[n] = revisions[in[n]].id
      /\ \A n \in 1 .. N : out[n] \in DOMAIN revisions /\ Ids(out)[n] = revisions[out[n]].id
  BY <1>1, <1>6, IdsIn
<1>8. \A q, r \in DOMAIN revisions : q < r => revisions[q].id < revisions[r].id
  BY DEF IdsInOrder
<1>9. \A n \in 1 .. N : Ids(out)[n] < Ids(in)[n]
  BY <1>4, <1>6, <1>7, <1>8
<1>10. ASSUME NEW n \in 1 .. N, n > 1
       PROVE  Ids(in)[n - 1] < Ids(out)[n]
  <2>1. n - 1 \in 1 .. N /\ in[n - 1] < out[n]
    BY <1>4, <1>6, <1>10
  <2> QED
    BY <1>7, <1>8, <2>1
<1>11. \A n \in 1 .. N : revisions[o].id < Ids(out)[n]
  BY <1>4, <1>6, <1>7, <1>8
<1>12. revisions[o].id \in Nat
  BY <1>1, PartsIn DEF RevisionType
<1>13. /\ Increasing(LifeOf(token))
       /\ Range(LifeOf(token)) \subseteq {revisions[o].id} \cup Range(Ids(in)) \cup Range(Ids(out))
  <2>1. PICK i \in Nat, a \in Seq(Nat), b \in Seq(Nat) :
          i = revisions[o].id /\ a = Ids(in) /\ b = Ids(out)
    BY <1>7, <1>12
  <2> QED
    BY <1>5, <1>7, <1>9, <1>10, <1>11, <2>1, LifeIncreases
<1>14. \A r \in Published : revisions[r].id \in Range(Ids(ordered_revisions))
  <2>1. /\ DOMAIN Ids(ordered_revisions) = DOMAIN ordered_revisions
        /\ \A k \in DOMAIN ordered_revisions :
             Ids(ordered_revisions)[k] = revisions[ordered_revisions[k]].id
    BY <1>1, IdsIn
  <2> QED
    BY <2>1 DEF Published, Range
<1>15. Range(Ids(in)) \subseteq Range(Ids(ordered_revisions))
  BY <1>4, <1>6, <1>7, <1>14 DEF Range
<1>16. Range(Ids(out)) \subseteq Range(Ids(ordered_revisions))
  BY <1>4, <1>6, <1>7, <1>14 DEF Range
<1> QED
  BY <1>4, <1>5, <1>7, <1>13, <1>14, <1>15, <1>16

(***************************************************************************)
(* The output of a page tells one story, whatever the page: the revisions  *)
(* listed are in order and none of them is spam, the tokens of the last    *)
(* one spell its text and none is there twice, and every token was         *)
(* introduced, removed and restored in turn by revisions of the list.      *)
(***************************************************************************)
THEOREM OutputTold == TextsBounded /\ Spec => []OutputTellsAuthorship
<1> SUFFICES ASSUME TextsBounded
             PROVE  Spec => []OutputTellsAuthorship
  OBVIOUS
<1>1. Init => OutputInv
  <2> SUFFICES ASSUME Init PROVE OutputInv
    OBVIOUS
  <2>1. LifeInv
    BY InitType, TextInit, OnceInit, AddsInit, LedgerInvInit
       DEF Init, LifeInv, ComparedWithLatestValid, MatchesListed, at_least_one
  <2> QED
    BY <2>1, OrderInit, StoryInit DEF OutputInv
<1>2. OutputInv /\ [Next]_vars => OutputInv'
  <2> SUFFICES ASSUME OutputInv, [Next]_vars PROVE OutputInv'
    OBVIOUS
  <2>1. LifeInv' /\ Grows
    BY LifeInvStep DEF OutputInv
  <2>2. TypeOK /\ TypeOK'
    BY <2>1 DEF OutputInv, LifeInv
  <2>3. IdsApart' /\ IdsInOrder'
    BY <2>1, <2>2, IdsStep, OrderStep DEF OutputInv
  <2>4. Story!IInv'
    BY <2>1, StoryStep DEF OutputInv
  <2> QED
    BY <2>1, <2>3, <2>4 DEF OutputInv
<1>3. OutputInv => OutputTellsAuthorship
  <2> SUFFICES ASSUME OutputInv, Analysed
               PROVE  OutputTellsAuthorship
    BY DEF OutputTellsAuthorship
  <2>1. Quiescent /\ at_least_one
    BY DEF Analysed
  <2>2. TypeOK /\ IdsApart /\ IdsInOrder /\ WordsOnce /\ TextInv
    BY DEF OutputInv, LifeInv, OnceInv
  <2>3. PICK r \in DOMAIN revisions : /\ r = current_revision /\ r \in Published
                                      /\ r = ordered_revisions[Len(ordered_revisions)]
    <3>1. LastIs(ordered_revisions, current_revision)
      BY <2>1 DEF OutputInv, LifeInv, ComparedWithLatestValid
    <3>2. current_revision \in DOMAIN revisions /\ current_revision \in Published
      BY <2>2, <3>1, ElementIn DEF TypeOK, LastIs, Published, Range
    <3> QED
      BY <3>1, <3>2 DEF LastIs
  <2>4. PICK tokens \in Seq(Words) : tokens = RevisionTokens(r)
    BY <2>2, TokensBelow
  <2> DEFINE out == BuildPageOutput
  <2>5. /\ out.revisions = Ids(ordered_revisions) /\ out.spam_ids = spam_ids
        /\ out.all_tokens = [k \in DOMAIN tokens |-> TokenOutput(tokens[k])]
    BY <2>3, <2>4 DEF BuildPageOutput
  <2> HIDE DEF out
  <2>6. Increasing(out.revisions) /\ Increasing(out.spam_ids)
    <3>1. ordered_revisions \in Seq(DOMAIN revisions)
      BY <2>2 DEF TypeOK
    <3>2. \A m, n \in DOMAIN ordered_revisions : m < n => ordered_revisions[m] < ordered_revisions[n]
      BY DEF OutputInv, Story!IInv, Story!InOrder
    <3>3. PICK n \in Nat : n = Len(ordered_revisions) /\ DOMAIN ordered_revisions = 1 .. n
      BY <3>1, ElementIn
    <3>4. ASSUME NEW k \in 2 .. n
          PROVE  ordered_revisions[k - 1] < ordered_revisions[k]
      <4>1. k - 1 \in 1 .. n /\ k \in 1 .. n /\ k - 1 < k
        OBVIOUS
      <4> QED
        BY <3>2, <3>3, <4>1
    <3> QED
      BY <2>2, <2>5, <3>1, <3>3, <3>4, IdsIncrease DEF IdsInOrder
  <2>7. Range(out.revisions) \cap Range(out.spam_ids) = {}
    <3>1. ordered_revisions \in Seq(DOMAIN revisions)
      BY <2>2 DEF TypeOK
    <3>2. /\ DOMAIN Ids(ordered_revisions) = DOMAIN ordered_revisions
          /\ \A k \in DOMAIN ordered_revisions :
               Ids(ordered_revisions)[k] = revisions[ordered_revisions[k]].id
      BY <2>2, <3>1, IdsIn
    <3>3. \A k \in DOMAIN ordered_revisions : ordered_revisions[k] \in Published
      BY DEF Published, Range
    <3>4. \A q \in Published : revisions[q].id \notin Range(spam_ids)
      BY <2>2 DEF IdsApart
    <3>5. \A i \in Range(Ids(ordered_revisions)) : i \notin Range(spam_ids)
      BY <3>2, <3>3, <3>4 DEF Range
    <3> QED
      BY <2>5, <3>5
  <2>8. /\ DOMAIN out.all_tokens = DOMAIN tokens
        /\ \A k \in DOMAIN tokens : /\ out.all_tokens[k] = TokenOutput(tokens[k])
                                    /\ out.all_tokens[k].str = words[tokens[k]].value
                                    /\ out.all_tokens[k].token_id = tokens[k]
    BY <2>5 DEF TokenOutput
  <2>9. [k \in DOMAIN out.all_tokens |-> out.all_tokens[k].str]
          = FlattenSeq(FlattenSeq(revisions[r].text))
    <3>1. TextOf(r) = revisions[r].text
      BY <2>2, <2>3, FullRevisionReads DEF TextInv, OfferedFull
    <3>2. [k \in DOMAIN tokens |-> words[tokens[k]].value] = FlattenSeq(FlattenSeq(TextOf(r)))
      BY <2>2, <2>4, TokensSpell
    <3> QED
      BY <2>8, <3>1, <3>2
  <2>10. \A j, k \in DOMAIN out.all_tokens :
           out.all_tokens[j].token_id = out.all_tokens[k].token_id => j = k
    <3>1. Once(tokens)
      BY <2>2, <2>4, TokensOnceEach
    <3> QED
      BY <2>8, <3>1 DEF Once
  <2>11. ASSUME NEW token \in Range(out.all_tokens)
         PROVE  /\ Len(token.in) = Len(token.out)
                /\ Increasing(LifeOf(token))
                /\ Range(LifeOf(token)) \subseteq Range(out.revisions)
    <3>1. PICK k \in DOMAIN tokens : token = TokenOutput(tokens[k])
      BY <2>8 DEF Range
    <3>2. tokens[k] \in Shown(current_revision)
      <4>1. Range(tokens) \subseteq Shown(r)
        BY <2>2, <2>4, TokensOnceEach
      <4> QED
        BY <2>3, <4>1 DEF Range
    <3> QED
      BY <2>1, <2>5, <3>1, <3>2, TokenTold
  <2> QED
    BY <2>3, <2>6, <2>7, <2>9, <2>10, <2>11 DEF OutputTellsAuthorship, out
<1> QED
  BY <1>1, <1>2, <1>3, PTL DEF Spec
=============================================================================
