----------------------------- MODULE DifflibProofs -----------------------------
(***************************************************************************)
(* Proofs about Difflib for all sequences of tokens, limits of popularity  *)
(* and widths of the generation number: the rows hold the lengths of runs, *)
(* a search finds the longest and first one, what is matched or still to   *)
(* be searched never overlaps or crosses, nothing but popular tokens is    *)
(* overlooked, the operations turn a into b, and every step brings the end *)
(* of the comparison nearer.                                               *)
(***************************************************************************)
EXTENDS Difflib, FiniteSetTheorems, SequenceTheorems, WellFoundedInduction, TLAPS

-----------------------------------------------------------------------------
(* The greatest of a bounded set of numbers                                *)

\* Smallest numbers exist because < is well founded.
LEMMA Smallest ==
  ASSUME NEW S \in SUBSET Nat, S # {}
  PROVE  \E x \in S : \A y \in S : x <= y
<1>1. \E x \in S : \A y \in S : ~(<<y, x>> \in OpToRel(<, Nat))
  <2>1. S \subseteq Nat
    OBVIOUS
  <2> QED
    BY <2>1, NatLessThanWellFounded, WFMin, Zenon
<1>2. PICK x \in S : \A y \in S : ~(<<y, x>> \in OpToRel(<, Nat))
  BY <1>1
<1>3. ASSUME NEW y \in S
      PROVE  x <= y
  <2>1. x \in Nat /\ y \in Nat
    OBVIOUS
  <2>2. ~(y < x)
    BY <1>2, <2>1, Zenon DEF OpToRel
  <2> QED
    BY <2>1, <2>2
<1> QED
  BY <1>3

LEMMA Greatest ==
  ASSUME NEW S \in SUBSET Nat, S # {}, NEW n \in Nat, \A x \in S : x <= n
  PROVE  /\ Max(S) \in S
         /\ \A y \in S : y <= Max(S)
<1> DEFINE T == {n - x : x \in S}
<1>1. T \in SUBSET Nat /\ T # {}
  <2>1. \A x \in S : n - x \in Nat
    OBVIOUS
  <2>2. \E x \in S : TRUE
    OBVIOUS
  <2> QED
    BY <2>1, <2>2
<1>2. PICK t \in T : \A u \in T : t <= u
  <2> HIDE DEF T
  <2> QED
    BY <1>1, Smallest
<1>3. PICK x \in S : t = n - x
  BY <1>2
<1>4. \A y \in S : x >= y
  <2>1. \A y \in S : n - x <= n - y
    BY <1>2, <1>3
  <2> QED
    BY <2>1
<1> QED
  BY <1>3, <1>4 DEF Max

\* The first of the places where a function is greatest.
LEMMA FirstGreatest ==
  ASSUME NEW D \in SUBSET Nat, D # {}, NEW f \in [D -> Nat], NEW n \in Nat, \A j \in D : f[j] <= n
  PROVE  \E j \in D : \A k \in D : f[k] < f[j] \/ (f[k] = f[j] /\ k >= j)
<1> DEFINE values == {f[j] : j \in D}
           greatest == Max(values)
           places == {j \in D : f[j] = greatest}
<1>1. values \in SUBSET Nat /\ values # {} /\ \A x \in values : x <= n
  OBVIOUS
<1>2. greatest \in values /\ \A x \in values : x <= greatest
  <2> HIDE DEF values
  <2> QED
    BY <1>1, Greatest
<1> HIDE DEF greatest
<1>3. places \in SUBSET Nat /\ places # {}
  BY <1>2
<1>4. PICK j \in places : \A k \in places : j <= k
  <2> HIDE DEF places
  <2> QED
    BY <1>3, Smallest
<1>5. ASSUME NEW k \in D
      PROVE  f[k] < f[j] \/ (f[k] = f[j] /\ k >= j)
  <2>1. f[k] <= greatest /\ f[j] = greatest /\ f[k] \in Nat /\ f[j] \in Nat
    BY <1>2
  <2> CASE f[k] = greatest
    BY <1>4, <2>1
  <2> CASE f[k] # greatest
    BY <1>2, <2>1
  <2> QED
    OBVIOUS
<1> QED
  BY <1>5

-----------------------------------------------------------------------------
(* Rows                                                                    *)

\* No entry is of a later generation than the row.
RowOK(row) ==
  /\ row \in [values : [DOMAIN b -> Nat], generations : [DOMAIN b -> Nat], generation : Nat]
  /\ row.generation \in 1 .. MaxGeneration
  /\ \A j \in DOMAIN b : row.generations[j] <= row.generation

\* A cleared row reads as zeros, also when its generation starts over.
LEMMA ClearedRow ==
  ASSUME NEW row, RowOK(row)
  PROVE  /\ RowOK(Cleared(row))
         /\ \A j \in DOMAIN b : Read(Cleared(row), j) = 0
<1>1. CASE row.generation < MaxGeneration
  <2>1. Cleared(row) = [row EXCEPT !.generation = @ + 1]
    BY <1>1 DEF Cleared
  <2>2. RowOK([row EXCEPT !.generation = @ + 1])
    BY <1>1, LimitsAssumption DEF RowOK
  <2>3. \A j \in DOMAIN b : Read([row EXCEPT !.generation = @ + 1], j) = 0
    BY DEF RowOK, Read
  <2> QED
    BY <2>1, <2>2, <2>3
<1>2. CASE ~(row.generation < MaxGeneration)
  <2> DEFINE new == [row EXCEPT !.generation = 1, !.generations = [j \in DOMAIN @ |-> 0]]
  <2>1. Cleared(row) = new
    BY <1>2 DEF Cleared
  <2>2. new.generations = [j \in DOMAIN b |-> 0] /\ new.generation = 1 /\ new.values = row.values
    BY DEF RowOK
  <2>3. RowOK(new)
    <3>1. new \in [values : [DOMAIN b -> Nat], generations : [DOMAIN b -> Nat], generation : Nat]
      BY DEF RowOK
    <3> HIDE DEF new
    <3> QED
      BY <2>2, <3>1, LimitsAssumption DEF RowOK
  <2>4. \A j \in DOMAIN b : Read(new, j) = 0
    BY <2>2 DEF Read
  <2> QED
    BY <2>1, <2>3, <2>4
<1> QED
  BY <1>1, <1>2

\* Writing changes what is written, and nothing else.
LEMMA WrittenRow ==
  ASSUME NEW row, RowOK(row), NEW D \in SUBSET DOMAIN b, NEW f \in [D -> Nat]
  PROVE  /\ RowOK(Written(row, f))
         /\ \A j \in DOMAIN b :
              Read(Written(row, f), j) = IF j \in D THEN f[j] ELSE Read(row, j)
<1> DEFINE new == Written(row, f)
<1>1. /\ new.values = [j \in DOMAIN b |-> IF j \in D THEN f[j] ELSE row.values[j]]
      /\ new.generations = [j \in DOMAIN b |-> IF j \in D THEN row.generation ELSE row.generations[j]]
      /\ new.generation = row.generation
  BY DEF RowOK, Written
<1>2. RowOK(new)
  <2>1. new \in [values : [DOMAIN b -> Nat], generations : [DOMAIN b -> Nat], generation : Nat]
    BY <1>1 DEF RowOK, Written
  <2> HIDE DEF new
  <2> QED
    BY <1>1, <2>1 DEF RowOK
<1> HIDE DEF new
<1>3. ASSUME NEW j \in DOMAIN b
      PROVE  Read(new, j) = IF j \in D THEN f[j] ELSE Read(row, j)
  BY <1>1 DEF Read
<1> QED
  BY <1>2, <1>3 DEF new

-----------------------------------------------------------------------------
(* Runs                                                                    *)

Proper == {w \in WindowType : w.a <= w.a_end /\ w.b <= w.b_end}

\* A run of m tokens within the window ends at a[x] and b[y].
RunEnds(x, y, m) == IsAnchor(x + 1 - m, y + 1 - m, m)

LongestRun(x, y, n) ==
  /\ n \in Nat
  /\ n = 0 \/ RunEnds(x, y, n)
  /\ \A m \in Nat \ {0} : RunEnds(x, y, m) => m <= n

\* A run is the run that ends one token earlier and a token that both have.
LEMMA RunExtends ==
  ASSUME window \in Proper, NEW x \in Nat \ {0}, NEW y \in Nat \ {0}, NEW m \in Nat
  PROVE  RunEnds(x, y, m + 1) <=>
           /\ window.a <= x /\ x < window.a_end
           /\ window.b <= y /\ y < window.b_end
           /\ y \in b_indices(a[x])
           /\ m = 0 \/ RunEnds(x - 1, y - 1, m)
<1> window \in [a : Nat, b : Nat, a_end : Nat, b_end : Nat]
  BY DEF Proper, WindowType
<1>1. ASSUME RunEnds(x, y, m + 1)
      PROVE  /\ window.a <= x /\ x < window.a_end
             /\ window.b <= y /\ y < window.b_end
             /\ y \in b_indices(a[x])
             /\ m = 0 \/ RunEnds(x - 1, y - 1, m)
  <2>1. \A k \in 0 .. m : y - m + k \in b_indices(a[x - m + k])
    BY <1>1 DEF RunEnds, IsAnchor
  <2>2. y \in b_indices(a[x])
    BY <2>1
  <2> QED
    BY <1>1, <2>1, <2>2 DEF RunEnds, IsAnchor
<1>2. ASSUME /\ window.a <= x /\ x < window.a_end
             /\ window.b <= y /\ y < window.b_end
             /\ y \in b_indices(a[x])
             /\ m = 0 \/ RunEnds(x - 1, y - 1, m)
      PROVE  RunEnds(x, y, m + 1)
  <2>1. \A k \in 0 .. m : y - m + k \in b_indices(a[x - m + k])
    <3> TAKE k \in 0 .. m
    <3> CASE k = m
      BY <1>2
    <3> CASE k # m
      BY <1>2 DEF RunEnds, IsAnchor
    <3> QED
      OBVIOUS
  <2> QED
    BY <1>2, <2>1 DEF RunEnds, IsAnchor
<1> QED
  BY <1>1, <1>2

-----------------------------------------------------------------------------
(* The inductive invariant                                                 *)

Extents == [a : Nat, b : Nat, len : Nat]

Shape ==
  /\ a \in Seq(Token) /\ b \in Seq(Token)
  /\ RowOK(last_row) /\ RowOK(this_row)
  /\ work_queue \in Seq(Proper)
  /\ window \in Proper
  /\ i \in window.a .. window.a_end
  /\ match_blocks \in Seq(Extents)

\* The row is that of the last token of a.
Runs == pc = "search" => \A j \in DOMAIN b : LongestRun(i - 1, j, Read(this_row, j))

LEMMA WindowFields ==
  ASSUME NEW w \in Proper
  PROVE  /\ w \in [a : Nat, b : Nat, a_end : Nat, b_end : Nat]
         /\ 1 <= w.a /\ w.a <= w.a_end /\ w.a_end <= Len(a) + 1
         /\ 1 <= w.b /\ w.b <= w.b_end /\ w.b_end <= Len(b) + 1
BY DEF Proper, WindowType

\* The lengths written for a token are those of the longest runs that end there.
LEMMA RowFilled ==
  ASSUME Shape, Runs, pc = "search", i < window.a_end
  PROVE  /\ DOMAIN RunLengths \in SUBSET DOMAIN b
         /\ RunLengths \in [DOMAIN RunLengths -> Nat \ {0}]
         /\ \A j \in DOMAIN b :
              LongestRun(i, j, IF j \in DOMAIN RunLengths THEN RunLengths[j] ELSE 0)
<1> DEFINE D == {j \in b_indices(a[i]) : window.b <= j /\ j < window.b_end}
           length(j) == IF j > 1 THEN Read(this_row, j - 1) + 1 ELSE 1
<1>1. D \in SUBSET DOMAIN b
  BY DEF b_indices, Occurrences
<1>2. window \in Proper /\ i \in Nat \ {0} /\ DOMAIN b = 1 .. Len(b) /\ Len(b) \in Nat
  BY WindowFields DEF Shape
<1>3. \A j \in DOMAIN b : LongestRun(i - 1, j, Read(this_row, j))
  BY DEF Runs
<1>4. \A j \in D : length(j) \in Nat \ {0}
  BY <1>1, <1>2, <1>3 DEF LongestRun
<1>5. /\ DOMAIN RunLengths = D
      /\ RunLengths \in [D -> Nat \ {0}]
      /\ \A j \in D : RunLengths[j] = length(j)
  BY <1>4 DEF RunLengths
<1>6. ASSUME NEW j \in D
      PROVE  LongestRun(i, j, length(j))
  <2>1. j \in Nat \ {0} /\ j \in DOMAIN b
    BY <1>1, <1>2
  <2>2. RunEnds(i, j, length(j))
    <3>0. /\ window.a <= i /\ i < window.a_end
          /\ window.b <= j /\ j < window.b_end
          /\ j \in b_indices(a[i])
      BY WindowFields DEF Shape
    <3>1. CASE j > 1
      <4> DEFINE p == Read(this_row, j - 1)
      <4>1. p \in Nat /\ (p = 0 \/ RunEnds(i - 1, j - 1, p))
        BY <1>2, <1>3, <2>1, <3>1 DEF LongestRun
      <4> HIDE DEF p
      <4>2. RunEnds(i, j, p + 1)
        <5> HIDE DEF D
        <5> QED
          BY <1>2, <2>1, <3>0, <4>1, RunExtends
      <4> QED
        BY <3>1, <4>2 DEF p
    <3>2. CASE ~(j > 1)
      <4>1. RunEnds(i, j, 0 + 1)
        BY <1>2, <2>1, <3>0, RunExtends
      <4> QED
        BY <3>2, <4>1
    <3> QED
      BY <3>1, <3>2
  <2>3. ASSUME NEW m \in Nat \ {0}, RunEnds(i, j, m)
        PROVE  m <= length(j)
    <3> DEFINE n == m - 1
    <3>1. n \in Nat /\ m = n + 1
      OBVIOUS
    <3> HIDE DEF n
    <3>2. n = 0 \/ RunEnds(i - 1, j - 1, n)
      BY <1>2, <2>1, <2>3, <3>1, RunExtends
    <3>3. CASE j > 1
      <4>1. n <= Read(this_row, j - 1) /\ Read(this_row, j - 1) \in Nat
        <5> j - 1 \in DOMAIN b
          BY <1>2, <2>1, <3>3
        <5> QED
          BY <1>3, <3>1, <3>2 DEF LongestRun
      <4> QED
        BY <3>1, <3>3, <4>1
    <3>4. CASE ~(j > 1)
      <4>1. ~RunEnds(i - 1, j - 1, n) \/ n = 0
        BY <1>2, <2>1, <3>1, <3>4, WindowFields DEF RunEnds, IsAnchor
      <4> QED
        BY <3>1, <3>2, <3>4, <4>1
    <3> QED
      BY <3>3, <3>4
  <2> QED
    BY <1>4, <2>2, <2>3 DEF LongestRun
<1>7. ASSUME NEW j \in DOMAIN b, j \notin D
      PROVE  LongestRun(i, j, 0)
  <2>1. j \in Nat \ {0}
    BY <1>2
  <2>2. ASSUME NEW m \in Nat \ {0}, RunEnds(i, j, m)
        PROVE  FALSE
    <3>1. m - 1 \in Nat /\ m = (m - 1) + 1
      OBVIOUS
    <3>2. RunEnds(i, j, (m - 1) + 1)
      BY <2>2, <3>1
    <3> QED
      BY <1>2, <1>7, <2>1, <3>1, <3>2, RunExtends
  <2> QED
    BY <2>2 DEF LongestRun
<1> HIDE DEF D, length
<1> QED
  BY <1>1, <1>5, <1>6, <1>7

\* A block that a run of m tokens from a[x] and b[y] does not replace.
AsGood(found, x, y, m) ==
  \/ m < found.len
  \/ m = found.len /\ x > found.a
  \/ m = found.len /\ x = found.a /\ y >= found.b

\* Of the runs that end before the next token, the longest and first is known.
Longest ==
  pc = "search" =>
    /\ longest \subseteq Extents
    /\ \A found, other \in longest : found = other
    /\ \A found \in longest :
         /\ found.len > 0
         /\ found.a + found.len <= i
         /\ IsAnchor(found.a, found.b, found.len)
    /\ \A x, y \in Nat, m \in Nat \ {0} :
         IsAnchor(x, y, m) /\ x + m <= i => \E found \in longest : AsGood(found, x, y, m)

LEMMA AnchorKept ==
  ASSUME a' = a, b' = b, window' = window
  PROVE  \A x, y, m : IsAnchor(x, y, m)' <=> IsAnchor(x, y, m)
BY DEF IsAnchor, b_indices, Popular, Occurrences

LEMMA AnchorEnds ==
  ASSUME NEW x \in Nat, NEW y \in Nat, NEW m \in Nat \ {0}, IsAnchor(x, y, m)
  PROVE  RunEnds(x + m - 1, y + m - 1, m)
<1>1. x + m - 1 + 1 - m = x /\ y + m - 1 + 1 - m = y
  OBVIOUS
<1> QED
  BY <1>1 DEF RunEnds

LEMMA RunStarts ==
  ASSUME NEW x \in Nat, NEW y \in Nat, NEW m \in Nat, window \in Proper, RunEnds(x, y, m)
  PROVE  /\ IsAnchor(x - m + 1, y - m + 1, m)
         /\ x - m + 1 \in Nat /\ y - m + 1 \in Nat /\ m <= Len(b)
<1>1. x - m + 1 = x + 1 - m /\ y - m + 1 = y + 1 - m
  OBVIOUS
<1>2. IsAnchor(x - m + 1, y - m + 1, m)
  BY <1>1 DEF RunEnds
<1>3. window.a <= x - m + 1 /\ window.b <= y - m + 1 /\ y - m + 1 + m <= window.b_end
  BY <1>2 DEF IsAnchor
<1> QED
  BY <1>2, <1>3, WindowFields

\* The longest run after a row is filled.
LEMMA LongestKept ==
  ASSUME Shape, Shape', Runs, Longest, FillRow
  PROVE  Longest'
<1> DEFINE D == DOMAIN RunLengths
           best(j) == \A k \in D : \/ RunLengths[k] < RunLengths[j]
                                   \/ RunLengths[k] = RunLengths[j] /\ k >= j
           longer == {j \in D : LongerThan(longest, RunLengths[j]) /\ best(j)}
           block(j) == Block(i - RunLengths[j] + 1, j - RunLengths[j] + 1, RunLengths[j])
<1>1. /\ pc = "search" /\ pc' = pc /\ i' = i + 1 /\ i < window.a_end
      /\ a' = a /\ b' = b /\ window' = window
  BY DEF FillRow
<1>2. longest' = IF longer = {} THEN longest ELSE {block(j) : j \in longer}
  BY DEF FillRow
<1>3. /\ D \in SUBSET DOMAIN b
      /\ RunLengths \in [D -> Nat \ {0}]
      /\ \A j \in DOMAIN b : LongestRun(i, j, IF j \in D THEN RunLengths[j] ELSE 0)
  BY <1>1, RowFilled
<1>4. window \in Proper /\ i \in Nat /\ D \in SUBSET Nat /\ DOMAIN b = 1 .. Len(b) /\ Len(b) \in Nat
  BY <1>3, WindowFields DEF Shape
<1>5. /\ longest \subseteq Extents
      /\ \A found, other \in longest : found = other
      /\ \A found \in longest :
           /\ found.len > 0
           /\ found.a + found.len <= i
           /\ IsAnchor(found.a, found.b, found.len)
      /\ \A x, y \in Nat, m \in Nat \ {0} :
           IsAnchor(x, y, m) /\ x + m <= i => \E found \in longest : AsGood(found, x, y, m)
  BY <1>1 DEF Longest
<1> HIDE DEF D
<1>6. ASSUME NEW j \in D
      PROVE  /\ IsAnchor(block(j).a, block(j).b, block(j).len)
             /\ block(j) \in Extents /\ block(j).len > 0
             /\ block(j).len = RunLengths[j] /\ block(j).len <= Len(b)
             /\ block(j).a = i - RunLengths[j] + 1 /\ block(j).b = j - RunLengths[j] + 1
  <2>1. RunEnds(i, j, RunLengths[j]) /\ RunLengths[j] \in Nat \ {0} /\ j \in Nat
    BY <1>3, <1>4 DEF LongestRun
  <2> QED
    BY <1>4, <2>1, RunStarts DEF Block, Extents
<1>7. ASSUME NEW x \in Nat, NEW y \in Nat, NEW m \in Nat \ {0}, IsAnchor(x, y, m), x + m = i + 1
      PROVE  \E j \in D : m <= RunLengths[j] /\ j = y + m - 1
  <2>1. RunEnds(i, y + m - 1, m)
    <3>1. x + m - 1 = i
      BY <1>4, <1>7
    <3> QED
      BY <1>7, <3>1, AnchorEnds
  <2>2. y + m - 1 \in DOMAIN b
    <3>1. window.b <= y /\ y + m <= window.b_end
      BY <1>7 DEF IsAnchor
    <3> QED
      BY <1>4, <3>1, WindowFields
  <2>3. m <= IF y + m - 1 \in D THEN RunLengths[y + m - 1] ELSE 0
    BY <1>3, <2>1, <2>2 DEF LongestRun
  <2> QED
    BY <2>3
<1>8. ASSUME NEW x \in Nat, NEW y \in Nat, NEW m \in Nat \ {0}, IsAnchor(x, y, m), x + m <= i + 1
      PROVE  \/ \E found \in longest : AsGood(found, x, y, m)
             \/ x + m = i + 1 /\ \E j \in D : m <= RunLengths[j] /\ j = y + m - 1
  <2>1. x + m <= i \/ x + m = i + 1
    BY <1>4, <1>8
  <2> QED
    BY <1>5, <1>7, <1>8, <2>1
<1> DEFINE Good(blocks) ==
             /\ blocks \subseteq Extents
             /\ \A found, other \in blocks : found = other
             /\ \A found \in blocks :
                  /\ found.len > 0
                  /\ found.a + found.len <= i + 1
                  /\ IsAnchor(found.a, found.b, found.len)
             /\ \A x, y \in Nat, m \in Nat \ {0} :
                  IsAnchor(x, y, m) /\ x + m <= i + 1 => \E found \in blocks : AsGood(found, x, y, m)
<1>9. CASE longer = {}
  <2>1. ASSUME NEW j \in D
        PROVE  \E found \in longest : RunLengths[j] <= found.len
    <3>1. PICK k \in D : best(k)
      <4>1. \A l \in D : RunLengths[l] <= Len(b)
        BY <1>6
      <4>2. \E k \in D : \A l \in D : RunLengths[l] < RunLengths[k] \/ (RunLengths[l] = RunLengths[k] /\ l >= k)
        <5>1. D # {} /\ RunLengths \in [D -> Nat]
          BY <1>3, <2>1
        <5> QED
          BY <1>4, <4>1, <5>1, FirstGreatest
      <4> QED
        BY <4>2
    <3>2. ~LongerThan(longest, RunLengths[k])
      BY <1>9, <3>1
    <3>3. PICK found \in longest : ~(RunLengths[k] > found.len)
      BY <3>2 DEF LongerThan
    <3>4. RunLengths[j] <= RunLengths[k] /\ RunLengths[j] \in Nat /\ RunLengths[k] \in Nat
      BY <1>3, <3>1
    <3>5. found.len \in Nat
      BY <1>5 DEF Extents
    <3> QED
      BY <3>3, <3>4, <3>5
  <2>2. ASSUME NEW x \in Nat, NEW y \in Nat, NEW m \in Nat \ {0}, IsAnchor(x, y, m), x + m <= i + 1
        PROVE  \E found \in longest : AsGood(found, x, y, m)
    <3>1. ASSUME x + m = i + 1, NEW j \in D, m <= RunLengths[j]
          PROVE  \E found \in longest : AsGood(found, x, y, m)
      <4>1. PICK found \in longest : RunLengths[j] <= found.len
        BY <2>1
      <4>2. found.len \in Nat /\ found.a \in Nat /\ found.a + found.len <= i /\ RunLengths[j] \in Nat
        BY <1>3, <1>5 DEF Extents
      <4>3. AsGood(found, x, y, m)
        BY <1>4, <3>1, <4>1, <4>2 DEF AsGood
      <4> QED
        BY <4>3
    <3> QED
      BY <1>8, <2>2, <3>1
  <2>3. \A found \in longest : found.a + found.len <= i + 1
    BY <1>4, <1>5 DEF Extents
  <2>4. Good(longest)
    BY <1>5, <2>2, <2>3
  <2>5. longest' = longest
    BY <1>2, <1>9
  <2> QED
    BY <1>1, <2>4, <2>5, AnchorKept DEF Longest, AsGood, Extents
<1>10. CASE longer # {}
  <2>1. PICK j \in longer : TRUE
    BY <1>10
  <2>2. j \in D /\ LongerThan(longest, RunLengths[j]) /\ best(j)
    BY <2>1
  <2>3. longer = {j}
    <3>1. \A k \in longer : k = j
      BY <1>3, <1>4, <2>2
    <3> QED
      BY <2>1, <3>1
  <2>4. longest' = {block(j)}
    BY <1>2, <1>10, <2>3
  <2> DEFINE new == block(j)
  <2>5. /\ IsAnchor(new.a, new.b, new.len)
        /\ new \in Extents /\ new.len > 0
        /\ new.len = RunLengths[j]
        /\ new.a = i - RunLengths[j] + 1 /\ new.b = j - RunLengths[j] + 1
        /\ RunLengths[j] \in Nat /\ j \in Nat
    BY <1>3, <1>4, <1>6, <2>2
  <2> HIDE DEF new, longer, block
  <2>6. ASSUME NEW x \in Nat, NEW y \in Nat, NEW m \in Nat \ {0}, IsAnchor(x, y, m), x + m <= i + 1
        PROVE  AsGood(new, x, y, m)
    <3>1. ASSUME NEW found \in longest, AsGood(found, x, y, m)
          PROVE  AsGood(new, x, y, m)
      <4>1. found.len < new.len /\ found.len \in Nat
        BY <1>5, <2>2, <2>5 DEF LongerThan, Extents
      <4>2. m <= found.len
        BY <3>1, <4>1 DEF AsGood
      <4> QED
        BY <2>5, <4>1, <4>2 DEF AsGood
    <3>2. ASSUME x + m = i + 1, NEW k \in D, m <= RunLengths[k], k = y + m - 1
          PROVE  AsGood(new, x, y, m)
      <4>1. RunLengths[k] < RunLengths[j] \/ (RunLengths[k] = RunLengths[j] /\ k >= j)
        BY <2>2
      <4>2. RunLengths[k] \in Nat
        BY <1>3
      <4> QED
        BY <1>4, <2>5, <3>2, <4>1, <4>2 DEF AsGood
    <3> QED
      BY <1>8, <2>6, <3>1, <3>2
  <2>7. new.a + new.len <= i + 1
    BY <1>4, <2>5
  <2>8. Good({new})
    BY <2>5, <2>6, <2>7
  <2>9. longest' = {new}
    BY <2>4 DEF new
  <2> QED
    BY <1>1, <2>8, <2>9, AnchorKept DEF Longest, AsGood, Extents
<1> QED
  BY <1>9, <1>10

-----------------------------------------------------------------------------
(* Areas                                                                   *)

Apart(v, w) == Before(v, w) \/ Before(w, v)

\* Blocks, open windows and the window being searched are pairwise apart.
Separate ==
  /\ \A n, m \in DOMAIN match_blocks : n # m => Apart(Extent(match_blocks[n]), Extent(match_blocks[m]))
  /\ \A n \in DOMAIN match_blocks, m \in DOMAIN work_queue : Apart(Extent(match_blocks[n]), work_queue[m])
  /\ \A n, m \in DOMAIN work_queue : n # m => Apart(work_queue[n], work_queue[m])
  /\ pc = "search" =>
       /\ \A n \in DOMAIN match_blocks : Apart(Extent(match_blocks[n]), window)
       /\ \A n \in DOMAIN work_queue : Apart(work_queue[n], window)

Inside(v, w) == w.a <= v.a /\ v.a_end <= w.a_end /\ w.b <= v.b /\ v.b_end <= w.b_end

Corners == [a : Nat, b : Nat, a_end : Nat, b_end : Nat]

\* What is inside a window is apart from all that the window is apart from.
LEMMA InsideApart ==
  ASSUME NEW u \in Corners, NEW v \in Corners, NEW w \in Corners, Inside(v, w), Apart(u, w)
  PROVE  Apart(u, v)
BY DEF Corners, Inside, Apart, Before

\* A run grows within its window.
LEMMA ExpandedInside ==
  ASSUME Shape, NEW found \in Extents, IsAnchor(found.a, found.b, found.len)
  PROVE  /\ Expanded(found) \in Extents
         /\ Inside(Extent(Expanded(found)), window)
         /\ found.len <= Expanded(found).len
         /\ \A k \in 0 .. Expanded(found).len - 1 :
              a[Expanded(found).a + k] = b[Expanded(found).b + k]
<1> DEFINE a_end == found.a + found.len
           b_end == found.b + found.len
           left == {n \in 0 .. Len(a) :
                      /\ window.a + n <= found.a /\ window.b + n <= found.b
                      /\ \A k \in 1 .. n : a[found.a - k] = b[found.b - k]}
           right == {n \in 0 .. Len(a) :
                       /\ a_end + n <= window.a_end /\ b_end + n <= window.b_end
                       /\ \A k \in 0 .. n - 1 : a[a_end + k] = b[b_end + k]}
           l == Max(left)
           r == Max(right)
<1>1. /\ window \in Corners /\ Len(a) \in Nat
      /\ found.a \in Nat /\ found.b \in Nat /\ found.len \in Nat
      /\ window.a <= found.a /\ a_end <= window.a_end
      /\ window.b <= found.b /\ b_end <= window.b_end
  BY WindowFields DEF Shape, Corners, Extents, IsAnchor
<1>2. 0 \in left /\ left \in SUBSET Nat /\ \A n \in left : n <= Len(a)
  BY <1>1 DEF Corners
<1>3. 0 \in right /\ right \in SUBSET Nat /\ \A n \in right : n <= Len(a)
  BY <1>1 DEF Corners
<1>4. l \in left
  <2> HIDE DEF left
  <2> QED
    BY <1>1, <1>2, Greatest
<1>5. r \in right
  <2> HIDE DEF right
  <2> QED
    BY <1>1, <1>3, Greatest
<1>6. Expanded(found) = Block(found.a - l, found.b - l, found.len + l + r)
  BY DEF Expanded
<1> HIDE DEF l, r
<1>7. /\ l \in Nat /\ window.a + l <= found.a /\ window.b + l <= found.b
      /\ r \in Nat /\ found.a + found.len + r <= window.a_end
      /\ found.b + found.len + r <= window.b_end
  BY <1>4, <1>5
<1>equal. /\ \A k \in 1 .. l : a[found.a - k] = b[found.b - k]
         /\ \A k \in 0 .. r - 1 : a[found.a + found.len + k] = b[found.b + found.len + k]
  BY <1>4, <1>5
<1> HIDE DEF left, right, a_end, b_end
<1> DEFINE new == Block(found.a - l, found.b - l, found.len + l + r)
<1>8. window.a \in Nat /\ window.b \in Nat /\ window.a_end \in Nat /\ window.b_end \in Nat
  BY <1>1 DEF Corners
<1>9. new \in Extents /\ new.a = found.a - l /\ new.b = found.b - l /\ new.len = found.len + l + r
  <2>1. found.a - l \in Nat /\ found.b - l \in Nat /\ found.len + l + r \in Nat
    <3>1. found.a - l \in Nat
      BY <1>1, <1>7, <1>8
    <3>2. found.b - l \in Nat
      BY <1>1, <1>7, <1>8
    <3>3. found.len + l + r \in Nat
      BY <1>1, <1>7
    <3> QED
      BY <3>1, <3>2, <3>3
  <2> QED
    BY <2>1 DEF Block, Extents
<1> HIDE DEF new
<1>10. Inside(Extent(new), window)
  <2>1. window.a <= found.a - l /\ window.b <= found.b - l
    BY <1>1, <1>7, <1>8, SMTT(30)
  <2>2. (found.a - l) + (found.len + l + r) <= window.a_end
    BY <1>1, <1>7, <1>8
  <2>3. (found.b - l) + (found.len + l + r) <= window.b_end
    BY <1>1, <1>7, <1>8
  <2> QED
    BY <1>9, <2>1, <2>2, <2>3 DEF Extent, Window, Inside
<1>11. ASSUME NEW k \in 0 .. new.len - 1
       PROVE  a[new.a + k] = b[new.b + k]
  <2> DEFINE fa == found.a
             fb == found.b
             len == found.len
  <2>0. /\ fa \in Nat /\ fb \in Nat /\ len \in Nat /\ k \in Nat /\ l \in Nat /\ r \in Nat
        /\ l <= fa /\ l <= fb /\ k < len + l + r
        /\ new.a = fa - l /\ new.b = fb - l
    <3>1. l <= fa /\ l <= fb
      BY <1>1, <1>7, <1>8
    <3>2. k \in Nat /\ k < new.len /\ new.len \in Nat
      BY <1>9 DEF Extents
    <3> QED
      BY <1>1, <1>7, <1>9, <3>1, <3>2
  <2> HIDE DEF fa, fb, len
  <2>1. CASE k < l
    <3>1. l - k \in 1 .. l /\ new.a + k = fa - (l - k) /\ new.b + k = fb - (l - k)
      BY <2>0, <2>1
    <3> QED
      BY <1>equal, <3>1 DEF fa, fb
  <2>2. CASE l <= k /\ k < l + len
    <3>1. k - l \in 0 .. len - 1 /\ new.a + k = fa + (k - l) /\ new.b + k = fb + (k - l)
      BY <2>0, <2>2
    <3>2. fb + (k - l) \in b_indices(a[fa + (k - l)])
      BY <3>1 DEF IsAnchor, fa, fb, len
    <3> QED
      BY <3>1, <3>2 DEF b_indices, Occurrences
  <2>3. CASE l + len <= k
    <3> DEFINE m == k - (l + len)
    <3>1. m \in 0 .. r - 1 /\ new.a + k = fa + len + m /\ new.b + k = fb + len + m
      BY <2>0, <2>3
    <3> QED
      BY <1>equal, <3>1 DEF fa, fb, len
  <2> QED
    BY <2>0, <2>1, <2>2, <2>3
<1>12. found.len <= new.len
  BY <1>1, <1>7, <1>9
<1> QED
  BY <1>6, <1>9, <1>10, <1>11, <1>12 DEF new

\* What is left of a window lies on either side of the block.
LEMMA RestApart ==
  ASSUME Shape, NEW block \in Extents, Inside(Extent(block), window)
  PROVE  /\ Rest(block) \in Seq(Proper)
         /\ \A n \in DOMAIN Rest(block) :
              /\ Inside(Rest(block)[n], window)
              /\ Apart(Rest(block)[n], Extent(block))
         /\ \A n, m \in DOMAIN Rest(block) : n # m => Apart(Rest(block)[n], Rest(block)[m])
<1> DEFINE left == Window(window.a, window.b, block.a, block.b)
           right == Window(block.a + block.len, block.b + block.len, window.a_end, window.b_end)
<1>1. window \in Proper /\ window \in Corners
  BY WindowFields DEF Shape, Corners
<1>2. /\ left \in Proper /\ right \in Proper
      /\ Inside(left, window) /\ Inside(right, window)
      /\ Apart(left, Extent(block)) /\ Apart(right, Extent(block))
      /\ Apart(left, right) /\ Apart(right, left)
  <2>1. /\ block.a \in Nat /\ block.b \in Nat /\ block.len \in Nat
        /\ window.a <= block.a /\ block.a + block.len <= window.a_end
        /\ window.b <= block.b /\ block.b + block.len <= window.b_end
    BY DEF Extents, Extent, Inside, Window
  <2> DEFINE x == block.a + block.len
             y == block.b + block.len
  <2>2. /\ Len(a) \in Nat /\ window.a \in 1 .. Len(a) + 1 /\ window.a_end \in 1 .. Len(a) + 1
        /\ Len(b) \in Nat /\ window.b \in 1 .. Len(b) + 1 /\ window.b_end \in 1 .. Len(b) + 1
    BY <1>1 DEF Shape, Proper, WindowType
  <2>3. /\ block.a \in 1 .. Len(a) + 1 /\ x \in 1 .. Len(a) + 1 /\ block.a <= x /\ x <= window.a_end
        /\ block.b \in 1 .. Len(b) + 1 /\ y \in 1 .. Len(b) + 1 /\ block.b <= y /\ y <= window.b_end
    <3>1. block.a \in 1 .. Len(a) + 1 /\ x \in 1 .. Len(a) + 1 /\ block.a <= x /\ x <= window.a_end
      BY <2>1, <2>2
    <3>2. block.b \in 1 .. Len(b) + 1 /\ y \in 1 .. Len(b) + 1 /\ block.b <= y /\ y <= window.b_end
      BY <2>1, <2>2
    <3> QED
      BY <3>1, <3>2
  <2> HIDE DEF x, y
  <2>4. left \in Proper
    BY <2>1, <2>2, <2>3 DEF Proper, WindowType, Window
  <2>5. right \in Proper
    <3>1. right = Window(x, y, window.a_end, window.b_end)
      BY DEF x, y
    <3> QED
      BY <2>2, <2>3, <3>1 DEF Proper, WindowType, Window
  <2> QED
    BY <1>1, <2>1, <2>4, <2>5 DEF Corners, Inside, Apart, Before, Extent, Window
<1> HIDE DEF left, right
<1>3. Worthwhile(left) \in {<<>>, <<left>>} /\ Worthwhile(right) \in {<<>>, <<right>>}
  BY DEF Worthwhile
<1>4. Rest(block) = Worthwhile(left) \o Worthwhile(right)
  BY DEF Rest, left, right
<1>5. Rest(block) \in {<<>>, <<left>>, <<right>>, <<left, right>>}
  <2>1. <<>> \o <<>> = <<>> /\ <<left>> \o <<>> = <<left>> /\ <<>> \o <<right>> = <<right>>
    BY <1>2, ConcatEmptySeq
  <2>2. <<left>> \o <<right>> = <<left, right>>
    <3>1. <<left>> \in Seq(Proper) /\ <<right>> \in Seq(Proper) /\ <<left, right>> \in Seq(Proper)
      BY <1>2
    <3>2. Len(<<left>> \o <<right>>) = 2 /\ <<left>> \o <<right>> \in Seq(Proper)
      BY <3>1, ConcatProperties
    <3>3. (<<left>> \o <<right>>)[1] = left /\ (<<left>> \o <<right>>)[2] = right
      BY <3>1, ConcatProperties
    <3> DEFINE s == <<left>> \o <<right>>
               t == <<left, right>>
    <3>4. s \in Seq(Proper) /\ t \in Seq(Proper) /\ Len(s) = 2 /\ Len(t) = 2
      BY <3>1, <3>2
    <3>5. \A k \in 1 .. 2 : s[k] = t[k]
      BY <3>3
    <3> HIDE DEF s, t
    <3>6. s = t
      BY <3>4, <3>5, SeqEqual
    <3> QED
      BY <3>6 DEF s, t
  <2> QED
    BY <1>3, <1>4, <2>1, <2>2
<1> HIDE DEF left, right
<1>6. CASE Rest(block) = <<>>
  BY <1>6
<1>7. CASE Rest(block) = <<left>>
  BY <1>2, <1>7
<1>8. CASE Rest(block) = <<right>>
  BY <1>2, <1>8
<1>9. CASE Rest(block) = <<left, right>>
  <2>1. DOMAIN Rest(block) = {1, 2} /\ Rest(block)[1] = left /\ Rest(block)[2] = right
    BY <1>9
  <2>2. Rest(block) \in Seq(Proper)
    BY <1>2, <1>9
  <2> QED
    BY <1>2, <2>1, <2>2
<1> QED
  BY <1>5, <1>6, <1>7, <1>8, <1>9

LEMMA StartKeepsSeparate ==
  ASSUME Shape, Separate, StartSearch
  PROVE  Separate'
<1>1. work_queue \in Seq(Proper) /\ work_queue # <<>>
  BY DEF Shape, StartSearch
<1>2. /\ pc # "search" /\ match_blocks' = match_blocks
      /\ work_queue' = Front(work_queue) /\ window' = Last(work_queue)
  BY DEF StartSearch
<1> DEFINE n == Len(work_queue)
<1>3. /\ n \in Nat \ {0} /\ DOMAIN work_queue = 1 .. n
      /\ window' = work_queue[n] /\ DOMAIN work_queue' = 1 .. n - 1
      /\ \A k \in 1 .. n - 1 : work_queue'[k] = work_queue[k]
  BY <1>1, <1>2, SubSeqProperties, EmptySeq DEF Front, Last
<1> HIDE DEF n
<1> QED
  BY <1>2, <1>3 DEF Separate, Apart, Before, Extent, Window

LEMMA EndKeepsSeparate ==
  ASSUME Shape, Separate, Longest, EndSearch
  PROVE  /\ Separate'
         /\ work_queue' \in Seq(Proper)
         /\ match_blocks' \in Seq(Extents)
<1>1. pc = "search" /\ pc' = "next" /\ window' = window
  BY DEF EndSearch, search
<1>2. CASE longest = {}
  <2>1. match_blocks' = match_blocks /\ work_queue' = work_queue
    BY <1>2 DEF EndSearch
  <2> QED
    BY <1>1, <2>1 DEF Shape, Separate, Apart, Before, Extent, Window
<1>3. CASE longest # {}
  <2>1. PICK found \in longest :
          /\ match_blocks' = Append(match_blocks, Expanded(found))
          /\ work_queue' = work_queue \o Rest(Expanded(found))
    BY <1>3 DEF EndSearch
  <2> DEFINE block == Expanded(found)
             rest == Rest(block)
             ext == Extent(block)
             blocks == match_blocks
             queue == work_queue
             L == Len(queue)
             N == Len(blocks)
  <2>2. found \in Extents /\ IsAnchor(found.a, found.b, found.len)
    BY <1>1 DEF Longest
  <2>3. block \in Extents /\ Inside(ext, window)
    BY <2>2, ExpandedInside
  <2> HIDE DEF block
  <2>4. /\ rest \in Seq(Proper)
        /\ \A n \in DOMAIN rest : Inside(rest[n], window) /\ Apart(rest[n], ext)
        /\ \A n, m \in DOMAIN rest : n # m => Apart(rest[n], rest[m])
    BY <2>3, RestApart
  <2> HIDE DEF rest
  <2>5. \A w \in Proper : w \in Corners
    BY WindowFields DEF Corners
  <2>6. \A x \in Extents : Extent(x) \in Corners
    BY DEF Extents, Extent, Window, Corners
  <2>7. blocks \in Seq(Extents) /\ queue \in Seq(Proper) /\ window \in Proper
    BY DEF Shape
  <2>8. L \in Nat /\ DOMAIN queue = 1 .. L /\ N \in Nat /\ DOMAIN blocks = 1 .. N
    BY <2>7
  <2>9. /\ ext \in Corners /\ window \in Corners
        /\ \A n \in 1 .. N : Extent(blocks[n]) \in Corners
        /\ \A n \in 1 .. L : queue[n] \in Corners
        /\ \A n \in DOMAIN rest : rest[n] \in Corners
    BY <2>3, <2>4, <2>5, <2>6, <2>7, <2>8
  <2> HIDE DEF ext
  <2>10. /\ \A n \in 1 .. N : Apart(Extent(blocks[n]), window)
         /\ \A n \in 1 .. L : Apart(queue[n], window)
         /\ \A n, m \in 1 .. N : n # m => Apart(Extent(blocks[n]), Extent(blocks[m]))
         /\ \A n \in 1 .. N, m \in 1 .. L : Apart(Extent(blocks[n]), queue[m])
         /\ \A n, m \in 1 .. L : n # m => Apart(queue[n], queue[m])
    BY <1>1, <2>8 DEF Separate
  <2>11. \A n \in 1 .. N : Apart(Extent(blocks[n]), ext)
    BY <2>3, <2>9, <2>10, InsideApart
  <2>12. \A n \in 1 .. L : Apart(queue[n], ext)
    BY <2>3, <2>9, <2>10, InsideApart
  <2>13. \A n \in 1 .. N, m \in DOMAIN rest : Apart(Extent(blocks[n]), rest[m])
    BY <2>4, <2>9, <2>10, InsideApart
  <2>14. \A n \in 1 .. L, m \in DOMAIN rest : Apart(queue[n], rest[m])
    BY <2>4, <2>9, <2>10, InsideApart
  <2>15. /\ match_blocks' \in Seq(Extents)
         /\ DOMAIN match_blocks' = 1 .. N + 1
         /\ \A n \in 1 .. N : match_blocks'[n] = blocks[n]
         /\ match_blocks'[N + 1] = block
    BY <2>1, <2>3, <2>7, <2>8, AppendProperties DEF block
  <2>16. /\ work_queue' \in Seq(Proper)
         /\ Len(rest) \in Nat /\ DOMAIN rest = 1 .. Len(rest)
         /\ DOMAIN work_queue' = 1 .. L + Len(rest)
         /\ \A n \in 1 .. L + Len(rest) :
              work_queue'[n] = IF n <= L THEN queue[n] ELSE rest[n - L]
    <3>1. work_queue' = queue \o rest
      BY <2>1 DEF block, rest
    <3> QED
      BY <2>4, <2>7, <3>1, ConcatProperties
  <2> HIDE DEF blocks, queue, L, N
  <2>17. \A v, w : Apart(v, w) => Apart(w, v)
    BY DEF Apart
  <2>18. ASSUME NEW n \in DOMAIN match_blocks', NEW m \in DOMAIN match_blocks', n # m
         PROVE  Apart(Extent(match_blocks'[n]), Extent(match_blocks'[m]))
    <3>1. CASE n = N + 1
      BY <2>8, <2>11, <2>15, <2>17, <2>18, <3>1 DEF ext
    <3>2. CASE m = N + 1
      BY <2>8, <2>11, <2>15, <2>18, <3>2 DEF ext
    <3>3. CASE n # N + 1 /\ m # N + 1
      BY <2>8, <2>10, <2>15, <2>18, <3>3
    <3> QED
      BY <3>1, <3>2, <3>3
  <2>19. ASSUME NEW m \in DOMAIN work_queue'
         PROVE  \/ m \in 1 .. L /\ work_queue'[m] = queue[m]
                \/ m - L \in DOMAIN rest /\ ~(m \in 1 .. L) /\ work_queue'[m] = rest[m - L]
    BY <2>8, <2>16
  <2>20. ASSUME NEW n \in DOMAIN match_blocks', NEW m \in DOMAIN work_queue'
         PROVE  Apart(Extent(match_blocks'[n]), work_queue'[m])
    <3>1. CASE n = N + 1
      <4>1. Extent(match_blocks'[n]) = ext
        BY <2>15, <3>1 DEF ext
      <4> QED
        BY <2>4, <2>12, <2>17, <2>19, <4>1
    <3>2. CASE n # N + 1
      <4>1. n \in 1 .. N /\ match_blocks'[n] = blocks[n]
        BY <2>8, <2>15, <3>2
      <4> QED
        BY <2>10, <2>13, <2>19, <4>1
    <3> QED
      BY <3>1, <3>2
  <2>21. ASSUME NEW n \in DOMAIN work_queue', NEW m \in DOMAIN work_queue', n # m
         PROVE  Apart(work_queue'[n], work_queue'[m])
    <3>1. n \in Nat /\ m \in Nat /\ n - L # m - L
      BY <2>8, <2>16, <2>21
    <3> QED
      BY <2>4, <2>10, <2>14, <2>17, <2>19, <2>21, <3>1
  <2> QED
    BY <1>1, <2>15, <2>16, <2>18, <2>20, <2>21 DEF Separate, Apart, Before, Extent, Window
<1> QED
  BY <1>2, <1>3

-----------------------------------------------------------------------------
IInv == Shape /\ Runs /\ Longest /\ Separate

LEMMA InitIInv == Init => IInv
<1> SUFFICES ASSUME Init
             PROVE  IInv
  OBVIOUS
<1>1. /\ pc = "next" /\ work_queue = <<WholeWindow>> /\ window = WholeWindow
      /\ i = 1 /\ match_blocks = <<>>
      /\ last_row = NewRow(Len(b)) /\ this_row = NewRow(Len(b))
  BY DEF Init
<1>2. a \in Seq(Token) /\ b \in Seq(Token)
  BY InputsAssumption DEF Init
<1>3. Len(a) \in Nat /\ Len(b) \in Nat /\ DOMAIN b = 1 .. Len(b)
  BY <1>2
<1>4. RowOK(NewRow(Len(b)))
  BY <1>3, LimitsAssumption DEF RowOK, NewRow
<1>5. WholeWindow \in Proper /\ 1 \in WholeWindow.a .. WholeWindow.a_end
  BY <1>3 DEF WholeWindow, Window, Proper, WindowType
<1>6. Shape
  BY <1>1, <1>2, <1>4, <1>5 DEF Shape
<1>7. Separate
  BY <1>1 DEF Separate
<1> QED
  BY <1>1, <1>6, <1>7 DEF IInv, Runs, Longest

LEMMA StartStep == IInv /\ StartSearch => IInv'
<1> SUFFICES ASSUME IInv, StartSearch
             PROVE  IInv'
  OBVIOUS
<1> USE DEF IInv
<1>1. /\ pc' = "search" /\ i' = window'.a /\ longest' = {} /\ a' = a /\ b' = b
      /\ this_row' = Cleared(this_row) /\ last_row' = Cleared(last_row)
      /\ match_blocks' = match_blocks
  BY DEF StartSearch
<1>2. window' \in Proper /\ work_queue' \in Seq(Proper)
  <2>1. work_queue \in Seq(Proper) /\ work_queue # <<>>
    BY DEF Shape, StartSearch
  <2>2. Len(work_queue) \in Nat \ {0}
    BY <2>1, EmptySeq
  <2>3. \A k \in 1 .. Len(work_queue) : work_queue[k] \in Proper
    BY <2>1
  <2> QED
    BY <2>2, <2>3, SubSeqProperties DEF StartSearch, Front, Last
<1>3. /\ RowOK(Cleared(this_row)) /\ RowOK(Cleared(last_row))
      /\ \A j \in DOMAIN b : Read(Cleared(this_row), j) = 0
  BY ClearedRow DEF Shape
<1>4. Proper' = Proper
  BY <1>1 DEF Proper, WindowType
<1>5. Shape'
  <2>1. window'.a \in window'.a .. window'.a_end
    BY <1>2, WindowFields
  <2>2. RowOK(this_row)' /\ RowOK(last_row)'
    BY <1>1, <1>3 DEF RowOK
  <2> QED
    BY <1>1, <1>2, <1>4, <2>1, <2>2 DEF Shape, Extents
<1>6. /\ window' \in [a : Nat, b : Nat, a_end : Nat, b_end : Nat]
      /\ 1 <= window'.a
  BY <1>2, WindowFields
<1>7. Runs'
  <2>1. ASSUME NEW j \in DOMAIN b, NEW m \in Nat \ {0}, RunEnds(i - 1, j, m)'
        PROVE  FALSE
    BY <1>1, <1>6, <2>1 DEF RunEnds, IsAnchor
  <2>2. \A j \in DOMAIN b : Read(this_row, j)' = 0
    BY <1>1, <1>3 DEF Read
  <2> QED
    BY <1>1, <2>1, <2>2 DEF Runs, LongestRun
<1>8. Longest'
  <2>1. ASSUME NEW x \in Nat, NEW y \in Nat, NEW m \in Nat \ {0}, IsAnchor(x, y, m)', x + m <= i'
        PROVE  FALSE
    BY <1>1, <1>6, <2>1 DEF IsAnchor
  <2> QED
    BY <1>1, <2>1 DEF Longest
<1>9. Separate'
  BY StartKeepsSeparate
<1> QED
  BY <1>5, <1>7, <1>8, <1>9

LEMMA FillStep == IInv /\ FillRow => IInv'
<1> SUFFICES ASSUME IInv, FillRow
             PROVE  IInv'
  OBVIOUS
<1> USE DEF IInv
<1>1. /\ pc = "search" /\ pc' = pc /\ i' = i + 1 /\ i < window.a_end
      /\ a' = a /\ b' = b /\ window' = window
      /\ last_row' = this_row /\ this_row' = Written(Cleared(last_row), RunLengths)
      /\ work_queue' = work_queue /\ match_blocks' = match_blocks
  BY DEF FillRow
<1>2. /\ DOMAIN RunLengths \in SUBSET DOMAIN b
      /\ RunLengths \in [DOMAIN RunLengths -> Nat \ {0}]
      /\ \A j \in DOMAIN b :
           LongestRun(i, j, IF j \in DOMAIN RunLengths THEN RunLengths[j] ELSE 0)
  BY <1>1, RowFilled
<1>3. /\ RowOK(this_row')
      /\ \A j \in DOMAIN b :
           Read(this_row', j) = IF j \in DOMAIN RunLengths THEN RunLengths[j] ELSE 0
  <2>1. /\ RowOK(Cleared(last_row))
        /\ \A j \in DOMAIN b : Read(Cleared(last_row), j) = 0
    BY ClearedRow DEF Shape
  <2>2. RunLengths \in [DOMAIN RunLengths -> Nat]
    BY <1>2
  <2> QED
    BY <1>1, <1>2, <2>1, <2>2, WrittenRow
<1>4. Proper' = Proper
  BY <1>1 DEF Proper, WindowType
<1>5. i \in Nat /\ window.a_end \in Nat /\ window.a \in Nat
  BY WindowFields DEF Shape
<1>6. Shape'
  <2>1. i' \in window'.a .. window'.a_end
    BY <1>1, <1>5 DEF Shape
  <2>2. RowOK(this_row)' /\ RowOK(last_row)'
    BY <1>1, <1>3 DEF RowOK, Shape
  <2> QED
    BY <1>1, <1>4, <2>1, <2>2 DEF Shape, Extents
<1>7. Runs'
  <2>1. i' - 1 = i
    BY <1>1, <1>5
  <2>2. \A x, y, m : RunEnds(x, y, m)' <=> RunEnds(x, y, m)
    BY <1>1, AnchorKept DEF RunEnds
  <2>3. ASSUME NEW j \in DOMAIN b
        PROVE  LongestRun(i - 1, j, Read(this_row, j))'
    <3> DEFINE n == IF j \in DOMAIN RunLengths THEN RunLengths[j] ELSE 0
    <3>1. LongestRun(i, j, n)
      BY <1>2
    <3>2. Read(this_row, j)' = n
      BY <1>1, <1>3 DEF Read
    <3> HIDE DEF n
    <3> QED
      BY <2>1, <2>2, <3>1, <3>2 DEF LongestRun
  <2> QED
    BY <1>1, <2>3 DEF Runs
<1>8. Longest'
  BY <1>6, LongestKept
<1>9. Separate'
  BY <1>1 DEF Separate, Apart, Before, Extent, Window
<1> QED
  BY <1>6, <1>7, <1>8, <1>9

LEMMA EndStep == IInv /\ EndSearch => IInv'
<1> SUFFICES ASSUME IInv, EndSearch
             PROVE  IInv'
  OBVIOUS
<1> USE DEF IInv
<1>1. /\ pc' = "next" /\ a' = a /\ b' = b /\ window' = window /\ i' = i
      /\ this_row' = this_row /\ last_row' = last_row
  BY DEF EndSearch, rows, search
<1>2. Separate' /\ work_queue' \in Seq(Proper) /\ match_blocks' \in Seq(Extents)
  BY EndKeepsSeparate
<1>3. Proper' = Proper
  BY <1>1 DEF Proper, WindowType
<1>4. RowOK(this_row)' /\ RowOK(last_row)'
  BY <1>1 DEF RowOK, Shape
<1>5. Shape'
  BY <1>1, <1>2, <1>3, <1>4 DEF Shape, Extents
<1> QED
  BY <1>1, <1>2, <1>5 DEF Runs, Longest

\* Compare reads what was found, and changes none of it.
LEMMA IdleStep == IInv /\ (Compare \/ UNCHANGED vars) => IInv'
<1> SUFFICES ASSUME IInv, Compare \/ UNCHANGED vars
             PROVE  IInv'
  OBVIOUS
<1>1. /\ UNCHANGED <<a, b, last_row, this_row, work_queue, window, i, longest, match_blocks>>
      /\ pc' = pc \/ pc' = "done"
  BY DEF Compare, vars, rows, search
<1>2. Proper' = Proper /\ (RowOK(this_row)' <=> RowOK(this_row)) /\ (RowOK(last_row)' <=> RowOK(last_row))
  BY <1>1 DEF Proper, WindowType, RowOK
<1>3. Shape'
  BY <1>1, <1>2 DEF IInv, Shape, Extents
<1>4. \A x, y, m : IsAnchor(x, y, m)' <=> IsAnchor(x, y, m)
  BY <1>1, AnchorKept
<1>5. Runs'
  BY <1>1, <1>4 DEF IInv, Runs, LongestRun, RunEnds, Read
<1>6. Longest'
  BY <1>1, <1>4 DEF IInv, Longest, AsGood, Extents
<1>7. Separate'
  BY <1>1 DEF IInv, Separate, Apart, Before, Extent, Window
<1> QED
  BY <1>3, <1>5, <1>6, <1>7 DEF IInv

LEMMA Inductive == Spec => []IInv
<1>1. IInv /\ [Next]_vars => IInv'
  BY StartStep, FillStep, EndStep, IdleStep DEF Next, Finished
<1> QED
  BY InitIInv, <1>1, PTL DEF Spec

-----------------------------------------------------------------------------
(* The properties                                                          *)

LEMMA RowHoldsRunsHere == IInv => RowHoldsRuns
<1> SUFFICES ASSUME IInv, pc = "search", i > window.a, NEW j \in DOMAIN b
             PROVE  Read(this_row, j) =
                      Max({0} \cup {n \in 1 .. j : i >= n /\ IsAnchor(i - n, j - n + 1, n)})
  BY DEF RowHoldsRuns
<1> DEFINE S == {0} \cup {n \in 1 .. j : i >= n /\ IsAnchor(i - n, j - n + 1, n)}
           r == Read(this_row, j)
<1>1. LongestRun(i - 1, j, r)
  BY DEF IInv, Runs
<1>2. /\ window \in Corners /\ 1 <= window.a /\ 1 <= window.b
      /\ i \in Nat /\ i >= window.a /\ j \in Nat
  BY WindowFields DEF IInv, Shape, Corners
<1> HIDE DEF r
<1>3. \A n \in Nat \ {0} : RunEnds(i - 1, j, n) <=> n \in S
  <2> TAKE n \in Nat \ {0}
  <2>1. i - 1 + 1 - n = i - n /\ j + 1 - n = j - n + 1
    BY <1>2
  <2>2. RunEnds(i - 1, j, n) <=> IsAnchor(i - n, j - n + 1, n)
    BY <2>1 DEF RunEnds
  <2>3. IsAnchor(i - n, j - n + 1, n) => window.a <= i - n /\ window.b <= j - n + 1
    BY DEF IsAnchor
  <2>4. IsAnchor(i - n, j - n + 1, n) => i >= n /\ n \in 1 .. j
    BY <1>2, <2>3 DEF Corners
  <2> QED
    BY <2>2, <2>4
<1>4. S \in SUBSET Nat /\ 0 \in S /\ \A x \in S : x <= j
  BY <1>2
<1> HIDE DEF S
<1>5. Max(S) \in S /\ \A x \in S : x <= Max(S)
  BY <1>2, <1>4, Greatest
<1>6. r \in S /\ r \in Nat
  BY <1>1, <1>3, <1>4 DEF LongestRun
<1>7. Max(S) \in Nat /\ Max(S) <= r
  <2>1. Max(S) \in Nat
    BY <1>4, <1>5
  <2> QED
    BY <1>1, <1>3, <1>5, <1>6, <2>1 DEF LongestRun
<1>8. r = Max(S)
  BY <1>5, <1>6, <1>7
<1> QED
  BY <1>8 DEF r, S

(***************************************************************************)
(* In every row an entry is the length of the longest run that ends there  *)
(* within the window, whatever the rows held before and however often the  *)
(* generation number has started over.                                     *)
(***************************************************************************)
THEOREM RowsHoldRuns == Spec => []RowHoldsRuns
BY Inductive, RowHoldsRunsHere, PTL

LEMMA LongestAndFirstHere == IInv => LongestAndFirst
<1> DEFINE anchors == {block \in [a : DOMAIN a, b : DOMAIN b, len : 1 .. Len(a)] :
                         IsAnchor(block.a, block.b, block.len)}
<1> SUFFICES ASSUME IInv, pc = "search", i = window.a_end
             PROVE  /\ longest = {} <=> anchors = {}
                    /\ \A found \in longest :
                         /\ found \in anchors
                         /\ \A other \in anchors :
                              \/ other = found
                              \/ other.len < found.len
                              \/ other.len = found.len /\ other.a > found.a
                              \/ other.len = found.len /\ other.a = found.a /\ other.b > found.b
  BY DEF LongestAndFirst
<1>1. /\ longest \subseteq Extents
      /\ \A found, other \in longest : found = other
      /\ \A found \in longest :
           /\ found.len > 0
           /\ found.a + found.len <= i
           /\ IsAnchor(found.a, found.b, found.len)
      /\ \A x, y \in Nat, m \in Nat \ {0} :
           IsAnchor(x, y, m) /\ x + m <= i => \E found \in longest : AsGood(found, x, y, m)
  BY DEF IInv, Longest
<1>2. /\ window \in Proper /\ window \in Corners
      /\ Len(a) \in Nat /\ Len(b) \in Nat /\ DOMAIN a = 1 .. Len(a) /\ DOMAIN b = 1 .. Len(b)
  BY WindowFields DEF IInv, Shape, Corners
<1>3. ASSUME NEW found \in longest
      PROVE  found \in anchors
  <2>1. /\ found \in Extents /\ found.len > 0
        /\ window.a <= found.a /\ found.a + found.len <= window.a_end
        /\ window.b <= found.b /\ found.b + found.len <= window.b_end
    BY <1>1 DEF IsAnchor
  <2>2. found.a \in DOMAIN a /\ found.b \in DOMAIN b /\ found.len \in 1 .. Len(a)
    BY <1>2, <2>1, WindowFields DEF Extents
  <2> QED
    BY <1>1, <2>1, <2>2 DEF Extents
<1>4. ASSUME NEW other \in anchors
      PROVE  /\ other.a \in Nat /\ other.b \in Nat /\ other.len \in Nat \ {0}
             /\ \E found \in longest : AsGood(found, other.a, other.b, other.len)
  <2>1. other.a \in Nat /\ other.b \in Nat /\ other.len \in Nat \ {0}
    BY <1>2
  <2>2. IsAnchor(other.a, other.b, other.len)
    OBVIOUS
  <2>3. other.a + other.len <= i
    BY <2>2 DEF IsAnchor
  <2> QED
    BY <1>1, <2>1, <2>2, <2>3
<1>5. ASSUME NEW found \in longest, NEW other \in anchors
      PROVE  \/ other = found
             \/ other.len < found.len
             \/ other.len = found.len /\ other.a > found.a
             \/ other.len = found.len /\ other.a = found.a /\ other.b > found.b
  <2>1. AsGood(found, other.a, other.b, other.len)
    BY <1>1, <1>4
  <2>2. /\ found.b \in Nat /\ other.b \in Nat
        /\ found \in [a : DOMAIN a, b : DOMAIN b, len : 1 .. Len(a)]
        /\ other \in [a : DOMAIN a, b : DOMAIN b, len : 1 .. Len(a)]
    BY <1>2, <1>3
  <2>3. other.len = found.len /\ other.a = found.a /\ other.b = found.b => other = found
    BY <2>2
  <2> QED
    BY <2>1, <2>2, <2>3 DEF AsGood
<1> HIDE DEF anchors
<1>6. longest = {} <=> anchors = {}
  BY <1>3, <1>4
<1> QED
  BY <1>3, <1>5, <1>6

(***************************************************************************)
(* A search ends with the longest run of the window, and with the first of *)
(* several as long, or without one when the window has none.               *)
(***************************************************************************)
THEOREM LongestIsFirst == Spec => []LongestAndFirst
BY Inductive, LongestAndFirstHere, PTL

LEMMA Concatenation ==
  ASSUME NEW S, NEW s \in Seq(S), NEW t \in Seq(S)
  PROVE  /\ s \o t \in Seq(S)
         /\ Len(s \o t) = Len(s) + Len(t)
         /\ DOMAIN (s \o t) = 1 .. Len(s) + Len(t)
         /\ \A n \in 1 .. Len(s) + Len(t) : (s \o t)[n] = IF n <= Len(s) THEN s[n] ELSE t[n - Len(s)]
<1>1. s \o t \in Seq(S) /\ Len(s \o t) = Len(s) + Len(t)
  BY ConcatProperties
<1>2. DOMAIN (s \o t) = 1 .. Len(s \o t)
  BY <1>1
<1> QED
  BY <1>1, <1>2, ConcatProperties

LEMMA AreasInOrderHere == IInv => AreasInOrder
<1> SUFFICES ASSUME IInv
             PROVE  AreasInOrder
  OBVIOUS
<1> DEFINE extents == [n \in DOMAIN match_blocks |-> Extent(match_blocks[n])]
           last == IF pc = "search" THEN <<window>> ELSE <<>>
           N == Len(match_blocks)
           L == Len(work_queue)
<1>1. match_blocks \in Seq(Extents) /\ work_queue \in Seq(Corners) /\ window \in Corners
  <2>1. \A w \in Proper : w \in Corners
    BY WindowFields DEF Corners
  <2> QED
    BY <2>1 DEF IInv, Shape
<1>2. N \in Nat /\ DOMAIN match_blocks = 1 .. N /\ L \in Nat /\ DOMAIN work_queue = 1 .. L
  BY <1>1
<1>3. extents \in Seq(Corners) /\ Len(extents) = N
  <2>1. \A x \in Extents : Extent(x) \in Corners
    BY DEF Extents, Extent, Window, Corners
  <2>2. \A n \in 1 .. N : match_blocks[n] \in Extents
    BY <1>1, <1>2
  <2> HIDE DEF N
  <2> QED
    BY <1>2, <2>1, <2>2
<1>4. /\ last \in Seq(Corners) /\ Len(last) \in {0, 1}
      /\ Len(last) = 1 => pc = "search" /\ last[1] = window
  BY <1>1
<1>5. Areas = (extents \o work_queue) \o last
  BY DEF Areas
<1> HIDE DEF extents, last
<1>6. /\ extents \o work_queue \in Seq(Corners) /\ Len(extents \o work_queue) = N + L
      /\ \A n \in 1 .. N + L :
           (extents \o work_queue)[n] = IF n <= N THEN extents[n] ELSE work_queue[n - N]
  <2> HIDE DEF N
  <2> QED
    BY <1>1, <1>3, Concatenation
<1> DEFINE front == extents \o work_queue
<1> HIDE DEF front
<1>7. /\ DOMAIN Areas = 1 .. N + L + Len(last)
      /\ \A n \in 1 .. N + L + Len(last) :
           Areas[n] = IF n <= N + L THEN front[n] ELSE last[n - (N + L)]
  <2>1. front \in Seq(Corners) /\ Len(front) = N + L
    BY <1>6 DEF front
  <2>2. Areas = front \o last
    BY <1>5 DEF front
  <2> HIDE DEF N, L
  <2> QED
    BY <1>4, <2>1, <2>2, Concatenation
<1>8. ASSUME NEW n \in DOMAIN Areas
      PROVE  \/ n \in 1 .. N /\ Areas[n] = Extent(match_blocks[n])
             \/ n - N \in 1 .. L /\ Areas[n] = work_queue[n - N]
             \/ pc = "search" /\ n = N + L + 1 /\ Areas[n] = window
  <2>1. n \in Nat /\ n \in 1 .. N + L + Len(last)
    BY <1>7
  <2>2. CASE n <= N
    <3>1. Areas[n] = extents[n] /\ n \in 1 .. N
      BY <1>2, <1>4, <1>6, <1>7, <2>1, <2>2 DEF front
    <3> QED
      BY <1>2, <3>1 DEF extents
  <2>3. CASE n > N /\ n <= N + L
    BY <1>2, <1>4, <1>6, <1>7, <2>1, <2>3 DEF front
  <2>4. CASE n > N + L
    BY <1>2, <1>4, <1>7, <2>1, <2>4
  <2> QED
    BY <1>2, <2>1, <2>2, <2>3, <2>4
<1>9. /\ \A n, m \in 1 .. N : n # m => Apart(Extent(match_blocks[n]), Extent(match_blocks[m]))
      /\ \A n \in 1 .. N, m \in 1 .. L : Apart(Extent(match_blocks[n]), work_queue[m])
      /\ \A n, m \in 1 .. L : n # m => Apart(work_queue[n], work_queue[m])
      /\ pc = "search" =>
           /\ \A n \in 1 .. N : Apart(Extent(match_blocks[n]), window)
           /\ \A n \in 1 .. L : Apart(work_queue[n], window)
  BY <1>2 DEF IInv, Separate
<1>10. \A v, w : Apart(v, w) => Apart(w, v)
  BY DEF Apart
<1>11. ASSUME NEW n \in DOMAIN Areas, NEW m \in DOMAIN Areas, n # m
       PROVE  Apart(Areas[n], Areas[m])
  <2>1. n \in Nat /\ m \in Nat /\ n - N # m - N
    BY <1>2, <1>4, <1>7, <1>11
  <2> HIDE DEF N, L
  <2>2. CASE n \in 1 .. N /\ Areas[n] = Extent(match_blocks[n])
    BY <1>8, <1>9, <1>11, <2>2
  <2>3. CASE n - N \in 1 .. L /\ Areas[n] = work_queue[n - N]
    BY <1>8, <1>9, <1>10, <1>11, <2>1, <2>3
  <2>4. CASE pc = "search" /\ n = N + L + 1 /\ Areas[n] = window
    BY <1>8, <1>9, <1>10, <1>11, <2>4
  <2> QED
    BY <1>8, <2>2, <2>3, <2>4
<1> QED
  BY <1>11 DEF AreasInOrder, Apart

(***************************************************************************)
(* Matched blocks never overlap or cross, though each grows by tokens that *)
(* no search looks at: the blocks can be put in one order for both texts.  *)
(***************************************************************************)
THEOREM BlocksNeverCross == Spec => []AreasInOrder
BY Inductive, AreasInOrderHere, PTL

-----------------------------------------------------------------------------
(* What is matched is equal, and what could be matched is not passed over  *)

Matches ==
  {m \in Extents :
     /\ 1 <= m.a /\ m.a + m.len <= Len(a) + 1
     /\ 1 <= m.b /\ m.b + m.len <= Len(b) + 1
     /\ 0 < m.len
     /\ \A k \in 0 .. m.len - 1 : a[m.a + k] = b[m.b + k]}

Holds(w, x, y) == w.a <= x /\ x < w.a_end /\ w.b <= y /\ y < w.b_end

\* With the block m matched, a[x] and b[y] cannot be.
Bars(m, x, y) == ~(x < m.a /\ y < m.b) /\ ~(m.a + m.len <= x /\ m.b + m.len <= y)

Matched == longest \subseteq Matches /\ match_blocks \in Seq(Matches)

\* Two equal tokens that are not popular are still to be searched or cannot be matched any more.
Covered ==
  \A x \in DOMAIN a : \A y \in b_indices(a[x]) :
    \/ \E n \in DOMAIN work_queue : Holds(work_queue[n], x, y)
    \/ pc = "search" /\ Holds(window, x, y)
    \/ \E n \in DOMAIN match_blocks : Bars(match_blocks[n], x, y)

\* A run is no longer than a.
Bounded(row) == \A j \in DOMAIN b : row.values[j] <= Len(a)

MInv ==
  /\ IInv
  /\ <<a, b>> \in Inputs /\ pc \in {"next", "search", "done"}
  /\ Bounded(last_row) /\ Bounded(this_row)
  /\ Matched /\ Covered

LEMMA AnchorMatches ==
  ASSUME window \in Proper, NEW found \in Extents, found.len > 0,
         IsAnchor(found.a, found.b, found.len)
  PROVE  found \in Matches
<1>1. /\ 1 <= window.a /\ window.a_end <= Len(a) + 1 /\ 1 <= window.b /\ window.b_end <= Len(b) + 1
      /\ window \in Corners
  BY WindowFields DEF Corners
<1>2. \A k \in 0 .. found.len - 1 : a[found.a + k] = b[found.b + k]
  BY DEF IsAnchor, b_indices, Occurrences
<1>3. /\ 1 <= found.a /\ found.a + found.len <= Len(a) + 1
      /\ 1 <= found.b /\ found.b + found.len <= Len(b) + 1
  <2>1. /\ window.a <= found.a /\ found.a + found.len <= window.a_end
        /\ window.b <= found.b /\ found.b + found.len <= window.b_end
        /\ found.a \in Nat /\ found.b \in Nat /\ found.len \in Nat
    BY DEF IsAnchor, Extents
  <2>2. /\ window.a \in Nat /\ window.b \in Nat /\ window.a_end \in Nat /\ window.b_end \in Nat
        /\ Len(a) + 1 \in Int /\ Len(b) + 1 \in Int
    BY <1>1, WindowFields DEF Corners, Proper, WindowType
  <2> QED
    BY <1>1, <2>1, <2>2
<1> QED
  BY <1>2, <1>3 DEF Matches

\* A block that has grown within its window is still a match.
LEMMA ExpandedMatches ==
  ASSUME Shape, NEW found \in Matches, IsAnchor(found.a, found.b, found.len)
  PROVE  Expanded(found) \in Matches
<1> DEFINE new == Expanded(found)
<1>1. /\ found \in Extents /\ found.len > 0
  BY DEF Matches
<1>2. /\ new \in Extents /\ Inside(Extent(new), window) /\ found.len <= new.len
      /\ \A k \in 0 .. new.len - 1 : a[new.a + k] = b[new.b + k]
  BY <1>1, ExpandedInside
<1> HIDE DEF new
<1>3. /\ window.a <= new.a /\ new.a + new.len <= window.a_end
      /\ window.b <= new.b /\ new.b + new.len <= window.b_end
  BY <1>2 DEF Inside, Extent, Window
<1>4. /\ 1 <= window.a /\ window.a_end <= Len(a) + 1 /\ 1 <= window.b /\ window.b_end <= Len(b) + 1
      /\ window.a \in Nat /\ window.b \in Nat /\ window.a_end \in Nat /\ window.b_end \in Nat
      /\ Len(a) \in Nat /\ Len(b) \in Nat
  BY WindowFields DEF Shape
<1>5. new.a \in Nat /\ new.b \in Nat /\ new.len \in Nat /\ found.len \in Nat
  BY <1>1, <1>2 DEF Extents
<1>6. /\ 1 <= new.a /\ new.a + new.len <= Len(a) + 1
      /\ 1 <= new.b /\ new.b + new.len <= Len(b) + 1
      /\ 0 < new.len
  <2>1. 1 <= new.a /\ 1 <= new.b
    BY <1>3, <1>4, <1>5
  <2>2. new.a + new.len <= Len(a) + 1
    BY <1>3, <1>4, <1>5
  <2>3. new.b + new.len <= Len(b) + 1
    BY <1>3, <1>4, <1>5
  <2>4. 0 < new.len
    BY <1>1, <1>2, <1>5
  <2> QED
    BY <2>1, <2>2, <2>3, <2>4
<1> QED
  BY <1>2, <1>6 DEF Matches, new

\* What a window holds is on either side of the block found in it or barred by it.
LEMMA RestHolds ==
  ASSUME Shape, NEW block \in Extents, Inside(Extent(block), window),
         NEW x \in Nat, NEW y \in Nat, Holds(window, x, y), ~Bars(block, x, y)
  PROVE  \E n \in DOMAIN Rest(block) : Holds(Rest(block)[n], x, y)
<1> DEFINE left == Window(window.a, window.b, block.a, block.b)
           right == Window(block.a + block.len, block.b + block.len, window.a_end, window.b_end)
<1>1. /\ block.a \in Nat /\ block.b \in Nat /\ block.len \in Nat
      /\ window.a \in Nat /\ window.b \in Nat /\ window.a_end \in Nat /\ window.b_end \in Nat
  BY WindowFields DEF Shape, Extents
<1>2. Rest(block) = Worthwhile(left) \o Worthwhile(right)
  BY DEF Rest
<1>3. Worthwhile(left) \in {<<>>, <<left>>} /\ Worthwhile(right) \in {<<>>, <<right>>}
  BY DEF Worthwhile
<1>4. Holds(left, x, y) => Worthwhile(left) = <<left>>
  BY <1>1 DEF Holds, Worthwhile, Window
<1>5. Holds(right, x, y) => Worthwhile(right) = <<right>>
  BY <1>1 DEF Holds, Worthwhile, Window
<1>6. Holds(left, x, y) \/ Holds(right, x, y)
  BY <1>1 DEF Holds, Bars, Window
<1> HIDE DEF left, right
<1> DEFINE S == {left, right}
<1>in. Worthwhile(left) \in Seq(S) /\ Worthwhile(right) \in Seq(S)
  <2>1. <<>> \in Seq(S) /\ <<left>> \in Seq(S) /\ <<right>> \in Seq(S)
    OBVIOUS
  <2> QED
    BY <1>3, <2>1
<1> HIDE DEF S
<1>7. /\ DOMAIN Rest(block) = 1 .. Len(Worthwhile(left)) + Len(Worthwhile(right))
      /\ \A n \in 1 .. Len(Worthwhile(left)) + Len(Worthwhile(right)) :
           Rest(block)[n] = IF n <= Len(Worthwhile(left)) THEN Worthwhile(left)[n]
                            ELSE Worthwhile(right)[n - Len(Worthwhile(left))]
  BY <1>2, <1>in, Concatenation
<1>8. Len(Worthwhile(left)) \in {0, 1} /\ Len(Worthwhile(right)) \in {0, 1}
  BY <1>3
<1>9. CASE Holds(left, x, y)
  <2>1. Len(Worthwhile(left)) = 1 /\ Worthwhile(left)[1] = left
    BY <1>4, <1>9
  <2>2. 1 \in DOMAIN Rest(block) /\ Rest(block)[1] = left
    BY <1>7, <1>8, <2>1
  <2> QED
    BY <1>9, <2>2
<1>10. CASE Holds(right, x, y)
  <2>1. Len(Worthwhile(right)) = 1 /\ Worthwhile(right)[1] = right
    BY <1>5, <1>10
  <2> DEFINE k == Len(Worthwhile(left))
  <2>2. k + 1 \in DOMAIN Rest(block) /\ Rest(block)[k + 1] = right
    <3>1. k \in Nat /\ k + 1 \in 1 .. k + 1 /\ ~(k + 1 <= k) /\ (k + 1) - k = 1
      BY <1>8
    <3> HIDE DEF k
    <3> QED
      BY <1>7, <2>1, <3>1 DEF k
  <2> QED
    BY <1>10, <2>2
<1> QED
  BY <1>6, <1>9, <1>10

LEMMA InitMInv == Init => MInv
<1> SUFFICES ASSUME Init
             PROVE  MInv
  OBVIOUS
<1>1. IInv
  BY InitIInv
<1>2. /\ pc = "next" /\ work_queue = <<WholeWindow>> /\ match_blocks = <<>> /\ longest = {}
      /\ last_row = NewRow(Len(b)) /\ this_row = NewRow(Len(b)) /\ <<a, b>> \in Inputs
  <2>1. \A input \in Inputs : input = <<input[1], input[2]>>
    BY InputsAssumption
  <2> QED
    BY <2>1 DEF Init
<1>3. /\ DOMAIN a = 1 .. Len(a) /\ DOMAIN b = 1 .. Len(b) /\ Len(a) \in Nat /\ Len(b) \in Nat
  BY <1>1 DEF IInv, Shape
<1>4. Bounded(last_row) /\ Bounded(this_row)
  BY <1>2, <1>3 DEF Bounded, NewRow
<1>5. Covered
  <2> SUFFICES ASSUME NEW x \in DOMAIN a, NEW y \in b_indices(a[x])
               PROVE  \E n \in DOMAIN work_queue : Holds(work_queue[n], x, y)
    BY DEF Covered
  <2>1. y \in DOMAIN b
    BY DEF b_indices, Occurrences
  <2>2. Holds(WholeWindow, x, y)
    BY <1>3, <2>1 DEF Holds, WholeWindow, Window
  <2> QED
    BY <1>2, <2>2
<1> QED
  BY <1>1, <1>2, <1>4, <1>5 DEF MInv, Matched

LEMMA StartKeepsMatches == MInv /\ StartSearch => MInv'
<1> SUFFICES ASSUME MInv, StartSearch
             PROVE  MInv'
  OBVIOUS
<1>1. IInv'
  BY StartStep DEF MInv
<1>2. /\ pc' = "search" /\ a' = a /\ b' = b /\ longest' = {} /\ match_blocks' = match_blocks
      /\ this_row' = Cleared(this_row) /\ last_row' = Cleared(last_row)
      /\ work_queue \in Seq(Proper) /\ work_queue # <<>>
      /\ work_queue' = Front(work_queue) /\ window' = Last(work_queue)
  BY DEF MInv, IInv, Shape, StartSearch
<1>3. Bounded(this_row)' /\ Bounded(last_row)'
  <2>1. Cleared(this_row).values = this_row.values /\ Cleared(last_row).values = last_row.values
    BY DEF MInv, IInv, Shape, RowOK, Cleared
  <2> QED
    BY <1>2, <2>1 DEF MInv, Bounded
<1>4. Matched'
  <2>1. Matches' = Matches
    BY <1>2 DEF Matches, Extents
  <2> QED
    BY <1>2, <2>1 DEF MInv, Matched
<1>5. Covered'
  <2> DEFINE N == Len(work_queue)
  <2>1. /\ N \in Nat \ {0} /\ DOMAIN work_queue = 1 .. N
        /\ window' = work_queue[N] /\ DOMAIN work_queue' = 1 .. N - 1
        /\ \A k \in 1 .. N - 1 : work_queue'[k] = work_queue[k]
    BY <1>2, SubSeqProperties, EmptySeq DEF Front, Last
  <2> HIDE DEF N
  <2>2. \A x : b_indices(x)' = b_indices(x)
    BY <1>2 DEF b_indices, Popular, Occurrences
  <2>3. pc # "search"
    BY DEF StartSearch
  <2> SUFFICES ASSUME NEW x \in DOMAIN a, NEW y \in b_indices(a[x])
               PROVE  \/ \E n \in DOMAIN work_queue' : Holds(work_queue'[n], x, y)
                      \/ Holds(window', x, y)
                      \/ \E n \in DOMAIN match_blocks : Bars(match_blocks[n], x, y)
    BY <1>2, <2>2 DEF Covered, Holds, Bars
  <2>4. \/ \E n \in DOMAIN work_queue : Holds(work_queue[n], x, y)
        \/ \E n \in DOMAIN match_blocks : Bars(match_blocks[n], x, y)
    BY <2>3 DEF MInv, Covered
  <2>5. \A n \in DOMAIN work_queue : n = N \/ n \in 1 .. N - 1
    BY <2>1
  <2> QED
    BY <2>1, <2>4, <2>5
<1> QED
  BY <1>1, <1>2, <1>3, <1>4, <1>5 DEF MInv

LEMMA FillKeepsMatches == MInv /\ FillRow => MInv'
<1> SUFFICES ASSUME MInv, FillRow
             PROVE  MInv'
  OBVIOUS
<1>1. IInv' /\ IInv
  BY FillStep DEF MInv
<1>2. /\ pc = "search" /\ pc' = pc /\ a' = a /\ b' = b /\ window' = window /\ i < window.a_end
      /\ last_row' = this_row /\ this_row' = Written(Cleared(last_row), RunLengths)
      /\ work_queue' = work_queue /\ match_blocks' = match_blocks
  BY DEF FillRow
<1>3. Matches' = Matches
  BY <1>2 DEF Matches, Extents
<1>4. Matched'
  <2>1. /\ longest' \subseteq Extents
        /\ \A found \in longest' : found.len > 0 /\ IsAnchor(found.a, found.b, found.len)'
    BY <1>1, <1>2 DEF IInv, Longest, Extents
  <2>2. \A x, y, m : IsAnchor(x, y, m)' <=> IsAnchor(x, y, m)
    BY <1>2, AnchorKept
  <2>3. window \in Proper
    BY <1>1 DEF IInv, Shape
  <2>4. \A found \in longest' : found \in Matches
    BY <2>1, <2>2, <2>3, AnchorMatches
  <2> QED
    BY <1>2, <1>3, <2>4 DEF MInv, Matched
<1>5. Covered'
  <2>1. \A x : b_indices(x)' = b_indices(x)
    BY <1>2 DEF b_indices, Popular, Occurrences
  <2> QED
    BY <1>2, <2>1 DEF MInv, Covered, Holds, Bars
<1>6. Bounded(this_row)'
  <2>1. /\ DOMAIN RunLengths \in SUBSET DOMAIN b
        /\ \A j \in DOMAIN b :
             LongestRun(i, j, IF j \in DOMAIN RunLengths THEN RunLengths[j] ELSE 0)
    BY <1>1, <1>2, RowFilled DEF IInv
  <2>2. \A j \in DOMAIN b :
          this_row'.values[j] = IF j \in DOMAIN RunLengths THEN RunLengths[j] ELSE last_row.values[j]
    <3>1. Cleared(last_row).values = last_row.values /\ DOMAIN last_row.values = DOMAIN b
      BY <1>1 DEF IInv, Shape, RowOK, Cleared
    <3>2. this_row'.values = [j \in DOMAIN Cleared(last_row).values |->
             IF j \in DOMAIN RunLengths THEN RunLengths[j] ELSE Cleared(last_row).values[j]]
      <4>1. RowOK(Cleared(last_row))
        BY <1>1, ClearedRow DEF IInv, Shape
      <4> QED
        BY <1>2, <4>1 DEF Written, RowOK
    <3> QED
      BY <3>1, <3>2
  <2>3. /\ window \in Corners /\ 1 <= window.a /\ window.a_end <= Len(a) + 1 /\ i \in Nat
        /\ Len(a) \in Nat
    BY <1>1, WindowFields DEF IInv, Shape, Corners
  <2>4. ASSUME NEW j \in DOMAIN RunLengths
        PROVE  RunLengths[j] <= Len(a)
    <3> DEFINE n == RunLengths[j]
    <3>1. LongestRun(i, j, n)
      BY <2>1
    <3> HIDE DEF n
    <3>2. n \in Nat /\ (n = 0 \/ window.a <= i + 1 - n)
      BY <3>1 DEF LongestRun, RunEnds, IsAnchor
    <3>3. window.a \in Nat /\ window.a_end \in Nat
      BY <2>3 DEF Corners
    <3>4. n <= Len(a)
      BY <1>2, <2>3, <3>2, <3>3
    <3> QED
      BY <3>4 DEF n
  <2> QED
    BY <1>2, <2>2, <2>4 DEF MInv, Bounded
<1>7. Bounded(last_row)'
  BY <1>2 DEF MInv, Bounded
<1> QED
  BY <1>1, <1>2, <1>4, <1>5, <1>6, <1>7 DEF MInv

LEMMA EndKeepsMatches == MInv /\ EndSearch => MInv'
<1> SUFFICES ASSUME MInv, EndSearch
             PROVE  MInv'
  OBVIOUS
<1>1. IInv' /\ IInv
  BY EndStep DEF MInv
<1>2. /\ pc = "search" /\ pc' = "next" /\ a' = a /\ b' = b /\ window' = window
      /\ i = window.a_end /\ longest' = longest /\ this_row' = this_row /\ last_row' = last_row
  BY DEF EndSearch, rows, search
<1>3. Matches' = Matches /\ \A x : b_indices(x)' = b_indices(x)
  BY <1>2 DEF Matches, Extents, b_indices, Popular, Occurrences
<1>4. Bounded(this_row)' /\ Bounded(last_row)'
  BY <1>2 DEF MInv, Bounded
<1>5. \A x \in DOMAIN a : \A y \in b_indices(a[x]) : x \in Nat /\ y \in Nat
  BY <1>1 DEF IInv, Shape, b_indices, Occurrences
<1>6. CASE longest = {}
  <2>1. match_blocks' = match_blocks /\ work_queue' = work_queue
    BY <1>6 DEF EndSearch
  <2>2. \A x, y \in Nat : ~(IsAnchor(x, y, 1) /\ x + 1 <= i)
    BY <1>1, <1>2, <1>6 DEF IInv, Longest
  <2>3. ASSUME NEW x \in DOMAIN a, NEW y \in b_indices(a[x]), Holds(window, x, y)
        PROVE  FALSE
    <3>1. window.a_end \in Nat /\ window.b_end \in Nat /\ x \in Nat /\ y \in Nat
      BY <1>1, <1>5, WindowFields DEF IInv, Shape
    <3>2. x + 1 <= window.a_end /\ y + 1 <= window.b_end
      BY <2>3, <3>1 DEF Holds
    <3>3. IsAnchor(x, y, 1)
      BY <2>3, <3>1, <3>2 DEF Holds, IsAnchor
    <3> QED
      BY <1>2, <2>2, <3>1, <3>2, <3>3
  <2>4. Covered'
    BY <1>2, <1>3, <2>1, <2>3 DEF MInv, Covered, Holds, Bars
  <2> QED
    BY <1>1, <1>2, <1>3, <1>4, <2>1, <2>4 DEF MInv, Matched
<1>7. CASE longest # {}
  <2>1. PICK found \in longest :
          /\ match_blocks' = Append(match_blocks, Expanded(found))
          /\ work_queue' = work_queue \o Rest(Expanded(found))
    BY <1>7 DEF EndSearch
  <2>2. found \in Matches /\ found \in Extents /\ IsAnchor(found.a, found.b, found.len) /\ Shape
    BY <1>1, <1>2 DEF MInv, Matched, IInv, Longest
  <2> DEFINE block == Expanded(found)
             rest == Rest(block)
             L == Len(work_queue)
             N == Len(match_blocks)
  <2>3. block \in Matches /\ block \in Extents /\ Inside(Extent(block), window)
    BY <2>2, ExpandedInside, ExpandedMatches
  <2> HIDE DEF block
  <2>4. rest \in Seq(Proper)
    BY <2>2, <2>3, RestApart
  <2>5. \A x, y \in Nat : Holds(window, x, y) /\ ~Bars(block, x, y)
                            => \E n \in DOMAIN rest : Holds(rest[n], x, y)
    BY <2>2, <2>3, RestHolds
  <2> HIDE DEF rest
  <2>6. /\ N \in Nat /\ DOMAIN match_blocks = 1 .. N
        /\ match_blocks' \in Seq(Matches) /\ DOMAIN match_blocks' = 1 .. N + 1
        /\ \A n \in 1 .. N : match_blocks'[n] = match_blocks[n]
        /\ match_blocks'[N + 1] = block
    BY <2>1, <2>3, AppendProperties DEF MInv, Matched, block
  <2>7. /\ L \in Nat /\ DOMAIN work_queue = 1 .. L
        /\ Len(rest) \in Nat /\ DOMAIN rest = 1 .. Len(rest)
        /\ DOMAIN work_queue' = 1 .. L + Len(rest)
        /\ \A n \in 1 .. L + Len(rest) :
             work_queue'[n] = IF n <= L THEN work_queue[n] ELSE rest[n - L]
    <3>1. work_queue' = work_queue \o rest
      BY <2>1 DEF block, rest
    <3> QED
      BY <2>2, <2>4, <3>1, ConcatProperties DEF Shape
  <2> HIDE DEF L, N
  <2>8. ASSUME NEW x \in DOMAIN a, NEW y \in b_indices(a[x])
        PROVE  \/ \E n \in DOMAIN work_queue' : Holds(work_queue'[n], x, y)
               \/ \E n \in DOMAIN match_blocks' : Bars(match_blocks'[n], x, y)
    <3>1. CASE \E n \in DOMAIN work_queue : Holds(work_queue[n], x, y)
      <4>1. \A n \in 1 .. L : n \in DOMAIN work_queue' /\ work_queue'[n] = work_queue[n]
        BY <2>7
      <4> QED
        BY <2>7, <3>1, <4>1
    <3>2. CASE \E n \in DOMAIN match_blocks : Bars(match_blocks[n], x, y)
      <4>1. \A n \in 1 .. N : n \in DOMAIN match_blocks' /\ match_blocks'[n] = match_blocks[n]
        BY <2>6
      <4> QED
        BY <2>6, <3>2, <4>1
    <3>3. CASE Bars(block, x, y)
      BY <2>6, <3>3
    <3>4. CASE Holds(window, x, y) /\ ~Bars(block, x, y)
      <4>1. PICK n \in DOMAIN rest : Holds(rest[n], x, y)
        BY <1>5, <2>5, <3>4
      <4>2. L + n \in DOMAIN work_queue' /\ work_queue'[L + n] = rest[n]
        <5>1. n \in Nat /\ L + n \in 1 .. L + Len(rest) /\ ~(L + n <= L) /\ (L + n) - L = n
          BY <2>7
        <5> QED
          BY <2>7, <5>1
      <4> QED
        BY <4>1, <4>2
    <3> QED
      BY <1>2, <3>1, <3>2, <3>3, <3>4 DEF MInv, Covered
  <2>9. Covered'
    BY <1>2, <1>3, <2>8 DEF Covered, Holds, Bars
  <2>10. Matched'
    BY <1>2, <1>3, <2>6 DEF MInv, Matched
  <2> QED
    BY <1>1, <1>2, <1>4, <2>9, <2>10 DEF MInv
<1> QED
  BY <1>6, <1>7

LEMMA IdleKeepsMatches == MInv /\ (Compare \/ UNCHANGED vars) => MInv'
<1> SUFFICES ASSUME MInv, Compare \/ UNCHANGED vars
             PROVE  MInv'
  OBVIOUS
<1>1. IInv'
  BY IdleStep DEF MInv
<1>2. /\ UNCHANGED <<a, b, last_row, this_row, work_queue, window, longest, match_blocks>>
      /\ pc' = pc \/ (pc' = "done" /\ pc = "next")
  BY DEF Compare, vars, rows, search
<1>3. Matches' = Matches
  BY <1>2 DEF Matches, Extents
<1>4. Covered'
  <2>1. \A x : b_indices(x)' = b_indices(x)
    BY <1>2 DEF b_indices, Popular, Occurrences
  <2> QED
    BY <1>2, <2>1 DEF MInv, Covered, Holds, Bars
<1> QED
  BY <1>1, <1>2, <1>3, <1>4 DEF MInv, Matched, Bounded

LEMMA MatchesInductive == Spec => []MInv
<1>1. MInv /\ [Next]_vars => MInv'
  BY StartKeepsMatches, FillKeepsMatches, EndKeepsMatches, IdleKeepsMatches DEF Next, Finished
<1> QED
  BY InitMInv, <1>1, PTL DEF Spec

-----------------------------------------------------------------------------
(* The blocks in order                                                     *)

LEMMA BlocksOrdered ==
  ASSUME MInv, NEW c \in Range(match_blocks), NEW d \in Range(match_blocks), c # d
  PROVE  c.a # d.a /\ (c.a < d.a => Before(Extent(c), Extent(d)))
<1>1. match_blocks \in Seq(Matches)
  BY DEF MInv, Matched
<1>2. PICK n \in DOMAIN match_blocks : c = match_blocks[n]
  BY DEF Range
<1>3. PICK m \in DOMAIN match_blocks : d = match_blocks[m]
  BY DEF Range
<1>4. Apart(Extent(c), Extent(d))
  BY <1>2, <1>3 DEF MInv, IInv, Separate
<1>5. c \in Matches /\ d \in Matches
  BY <1>1, <1>2, <1>3
<1> QED
  BY <1>4, <1>5 DEF Matches, Extents, Apart, Before, Extent, Window

\* As many different blocks as there are entries.
LEMMA BlocksCounted ==
  ASSUME MInv
  PROVE  IsFiniteSet(Range(match_blocks)) /\ Cardinality(Range(match_blocks)) = Len(match_blocks)
<1> DEFINE N == Len(match_blocks)
           R == Range(match_blocks)
<1>1. match_blocks \in Seq(Matches) /\ N \in Nat /\ DOMAIN match_blocks = 1 .. N
  BY DEF MInv, Matched
<1>2. ASSUME NEW n \in 1 .. N, NEW m \in 1 .. N, n # m
      PROVE  match_blocks[n] # match_blocks[m]
  <2>1. Apart(Extent(match_blocks[n]), Extent(match_blocks[m]))
    BY <1>1, <1>2 DEF MInv, IInv, Separate
  <2>2. match_blocks[n] \in Matches
    BY <1>1
  <2> QED
    BY <2>1, <2>2 DEF Matches, Extents, Apart, Before, Extent, Window
<1>3. match_blocks \in Bijection(1 .. N, R)
  <2>1. match_blocks \in [1 .. N -> R] /\ \A c \in R : \E n \in 1 .. N : match_blocks[n] = c
    BY <1>1 DEF Range
  <2> HIDE DEF R, N
  <2> QED
    BY <1>2, <2>1 DEF Bijection, Injection, Surjection, IsInjective
<1> HIDE DEF R, N
<1>4. ExistsBijection(1 .. N, R)
  BY <1>3 DEF ExistsBijection
<1>5. IsFiniteSet(R)
  BY <1>1, <1>4, FS_NatBijection
<1> QED
  BY <1>1, <1>4, <1>5, FS_CountingElements DEF R, N

\* Sorted lists every block once, each before the next.
LEMMA SortedBlocks ==
  ASSUME MInv
  PROVE  /\ Sorted \in Seq(Matches) /\ Len(Sorted) = Len(match_blocks)
         /\ \A n, m \in 1 .. Len(match_blocks) :
              n < m => Before(Extent(Sorted[n]), Extent(Sorted[m]))
         /\ \A c \in Range(match_blocks) : \E n \in 1 .. Len(match_blocks) : Sorted[n] = c
<1> DEFINE R == Range(match_blocks)
           Below(c) == {other \in R : other.a < c.a}
           rank(c) == Cardinality(Below(c))
<1>1. PICK N \in Nat : N = Len(match_blocks) /\ DOMAIN match_blocks = 1 .. N
  BY DEF MInv, Matched
<1>2. IsFiniteSet(R) /\ Cardinality(R) = N
  BY <1>1, BlocksCounted
<1>3. \A c \in R : c \in Matches /\ c.a \in Nat
  <2>1. match_blocks \in Seq(Matches)
    BY DEF MInv, Matched
  <2>2. \A n \in 1 .. N : match_blocks[n] \in Matches
    BY <1>1, <2>1
  <2>3. \A c \in Matches : c.a \in Nat
    BY DEF Matches, Extents
  <2> QED
    BY <1>1, <2>2, <2>3 DEF Range
<1>4. \A c, d \in R : c # d => c.a # d.a /\ (c.a < d.a => Before(Extent(c), Extent(d)))
  BY BlocksOrdered
<1>5. Sorted = [n \in 1 .. N |-> CHOOSE c \in R : rank(c) = n - 1]
  BY <1>1 DEF Sorted
<1> HIDE DEF R
<1>6. ASSUME NEW c \in R
      PROVE  IsFiniteSet(Below(c)) /\ rank(c) \in Nat /\ rank(c) < N
  <2>1. Below(c) \in SUBSET (R \ {c})
    BY <1>3
  <2>2. IsFiniteSet(R \ {c}) /\ Cardinality(R \ {c}) = N - 1
    BY <1>2, FS_RemoveElement
  <2> HIDE DEF Below
  <2>3. IsFiniteSet(Below(c)) /\ Cardinality(Below(c)) <= N - 1
    BY <2>1, <2>2, FS_Subset
  <2>4. Cardinality(Below(c)) \in Nat
    BY <2>3, FS_CardinalityType
  <2> QED
    BY <2>3, <2>4
<1>7. ASSUME NEW c \in R, NEW d \in R, c.a < d.a
      PROVE  rank(c) < rank(d)
  <2>1. Below(c) \cup {c} \in SUBSET Below(d) /\ c \notin Below(c)
    BY <1>3, <1>7
  <2> HIDE DEF Below
  <2>2. IsFiniteSet(Below(c)) /\ IsFiniteSet(Below(d)) /\ rank(c) \in Nat /\ rank(d) \in Nat
    BY <1>6
  <2>3. Cardinality(Below(c) \cup {c}) = rank(c) + 1
    BY <2>1, <2>2, FS_AddElement
  <2>4. Cardinality(Below(c) \cup {c}) <= rank(d)
    BY <2>1, <2>2, FS_Subset
  <2> QED
    BY <2>2, <2>3, <2>4
<1>8. \A c, d \in R : c # d => rank(c) # rank(d)
  <2> SUFFICES ASSUME NEW c \in R, NEW d \in R, c # d
               PROVE  rank(c) # rank(d)
    OBVIOUS
  <2>1. c.a < d.a \/ d.a < c.a
    BY <1>3, <1>4
  <2>2. rank(c) \in Nat /\ rank(d) \in Nat
    BY <1>6
  <2>3. rank(c) < rank(d) \/ rank(d) < rank(c)
    BY <1>7, <2>1
  <2> HIDE DEF rank
  <2> QED
    BY <2>2, <2>3
<1> HIDE DEF rank
<1>rank. \A c \in R : rank(c) \in Nat /\ rank(c) + 1 \in 1 .. N /\ (rank(c) + 1) - 1 = rank(c)
  <2> TAKE c \in R
  <2>1. PICK r \in Nat : r = rank(c) /\ r < N
    BY <1>6 DEF rank
  <2> QED
    BY <2>1
<1>9. \A n \in 1 .. N : \E c \in R : rank(c) = n - 1
  <2> DEFINE place == [c \in R |-> rank(c) + 1]
  <2>1. place \in [R -> 1 .. N] /\ \A c \in R : place[c] = rank(c) + 1 /\ rank(c) \in Nat
    BY <1>rank
  <2> HIDE DEF place
  <2>2. \A c, d \in R : place[c] = place[d] => c = d
    BY <1>8, <2>1
  <2>3. place \in Injection(R, 1 .. N)
    BY <2>1, <2>2 DEF Injection, IsInjective
  <2>4. IsFiniteSet(1 .. N) /\ Cardinality(1 .. N) = N
    BY FS_Interval
  <2>5. place \in Surjection(R, 1 .. N)
    BY <1>2, <2>3, <2>4, FS_Injection
  <2>6. \A n \in 1 .. N : \E c \in R : place[c] = n
    BY <2>5 DEF Surjection
  <2> TAKE n \in 1 .. N
  <2>7. PICK c \in R : place[c] = n
    BY <2>6
  <2>8. rank(c) = n - 1
    BY <2>1, <2>7
  <2> QED
    BY <2>8
<1>10. \A n \in 1 .. N : Sorted[n] \in R /\ rank(Sorted[n]) = n - 1
  BY <1>5, <1>9
<1>11. Sorted \in Seq(Matches) /\ Len(Sorted) = N
  <2>1. \A n \in 1 .. N : Sorted[n] \in Matches
    BY <1>3, <1>10
  <2>2. Sorted = [n \in 1 .. N |-> Sorted[n]]
    BY <1>5
  <2> QED
    BY <2>1, <2>2
<1>12. ASSUME NEW n \in 1 .. N, NEW m \in 1 .. N, n < m
       PROVE  Before(Extent(Sorted[n]), Extent(Sorted[m]))
  <2>1. /\ Sorted[n] \in R /\ Sorted[m] \in R
        /\ rank(Sorted[n]) = n - 1 /\ rank(Sorted[m]) = m - 1
    BY <1>10
  <2>2. ~(rank(Sorted[m]) < rank(Sorted[n])) /\ Sorted[n] # Sorted[m]
    BY <1>12, <2>1
  <2>3. Sorted[n].a < Sorted[m].a
    BY <1>3, <1>4, <1>7, <2>1, <2>2
  <2> QED
    BY <1>4, <2>1, <2>2, <2>3
<1>13. ASSUME NEW c \in R
       PROVE  \E n \in 1 .. N : Sorted[n] = c
  <2>1. rank(c) + 1 \in 1 .. N /\ (rank(c) + 1) - 1 = rank(c)
    BY <1>rank
  <2>2. rank(Sorted[rank(c) + 1]) = rank(c) /\ Sorted[rank(c) + 1] \in R
    BY <1>10, <2>1
  <2>3. Sorted[rank(c) + 1] = c
    BY <1>8, <2>2
  <2> QED
    BY <2>1, <2>3
<1> QED
  BY <1>1, <1>11, <1>12, <1>13 DEF R

-----------------------------------------------------------------------------
(* Counting operations                                                     *)

One(op, tags) == IF op.tag \in tags THEN 1 ELSE 0

LEMMA CountStep ==
  ASSUME NEW ops, NEW tags, NEW n \in Nat
  PROVE  /\ Count(ops, tags, n) \in Nat /\ Count(ops, tags, 0) = 0
         /\ Count(ops, tags, n + 1) = Count(ops, tags, n) + One(ops[n + 1], tags)
<1> DEFINE S == {m \in 1 .. n : ops[m].tag \in tags}
           T == {m \in 1 .. n + 1 : ops[m].tag \in tags}
<1>1. IsFiniteSet(1 .. n) /\ S \in SUBSET (1 .. n)
  BY FS_Interval
<1>2. n + 1 \notin S /\ T = (IF ops[n + 1].tag \in tags THEN S \cup {n + 1} ELSE S)
  <2>1. 1 .. n + 1 = (1 .. n) \cup {n + 1} /\ n + 1 \notin 1 .. n
    OBVIOUS
  <2> QED
    BY <2>1
<1>3. 1 .. 0 = {}
  OBVIOUS
<1>4. Count(ops, tags, 0) = 0
  BY <1>3, FS_EmptySet DEF Count
<1> HIDE DEF S, T
<1>5. IsFiniteSet(S) /\ Cardinality(S) \in Nat
  BY <1>1, FS_Subset, FS_CardinalityType
<1>6. Cardinality(T) = Cardinality(S) + (IF ops[n + 1].tag \in tags THEN 1 ELSE 0)
  <2>1. Cardinality(S \cup {n + 1}) = Cardinality(S) + 1
    BY <1>2, <1>5, FS_AddElement
  <2>2. PICK c \in Nat : c = Cardinality(S)
    BY <1>5
  <2>3. CASE ops[n + 1].tag \in tags
    BY <1>2, <2>1, <2>3
  <2>4. CASE ops[n + 1].tag \notin tags
    BY <1>2, <2>2, <2>4
  <2> QED
    BY <2>3, <2>4
<1> QED
  BY <1>4, <1>5, <1>6 DEF Count, S, T, One

\* Operations of one kind.
LEMMA CountUniform ==
  ASSUME NEW ops, NEW tags, NEW tag, NEW n \in Nat, \A m \in 1 .. n : ops[m].tag = tag
  PROVE  Count(ops, tags, n) = IF tag \in tags THEN n ELSE 0
<1>1. IsFiniteSet(1 .. n) /\ Cardinality(1 .. n) = n
  BY FS_Interval
<1>2. {m \in 1 .. n : ops[m].tag \in tags} = IF tag \in tags THEN 1 .. n ELSE {}
  OBVIOUS
<1> QED
  BY <1>1, <1>2, FS_EmptySet DEF Count

LEMMA CountJoined ==
  ASSUME NEW S, NEW s \in Seq(S), NEW t \in Seq(S), NEW tags
  PROVE  /\ \A n \in 0 .. Len(s) : Count(s \o t, tags, n) = Count(s, tags, n)
         /\ \A n \in 0 .. Len(t) :
              Count(s \o t, tags, Len(s) + n) = Count(s, tags, Len(s)) + Count(t, tags, n)
<1>1. PICK k \in Nat : k = Len(s)
  OBVIOUS
<1>2. PICK l \in Nat : l = Len(t)
  OBVIOUS
<1> DEFINE u == s \o t
<1>3. /\ \A n \in 1 .. k : u[n] = s[n]
      /\ \A n \in Nat : n + 1 <= l => u[k + n + 1] = t[n + 1]
  <2>1. \A n \in 1 .. k + l : u[n] = IF n <= k THEN s[n] ELSE t[n - k]
    BY <1>1, <1>2, Concatenation
  <2> HIDE DEF u
  <2>2. ASSUME NEW n \in Nat, n + 1 <= l
        PROVE  u[k + n + 1] = t[n + 1]
    <3>1. k + n + 1 \in 1 .. k + l /\ ~(k + n + 1 <= k) /\ (k + n + 1) - k = n + 1
      BY <2>2
    <3> QED
      BY <2>1, <3>1
  <2> QED
    BY <2>1, <2>2
<1> HIDE DEF u
<1>step. \A n \in Nat :
           /\ Count(u, tags, n + 1) = Count(u, tags, n) + One(u[n + 1], tags)
           /\ Count(t, tags, n + 1) = Count(t, tags, n) + One(t[n + 1], tags)
  <2> TAKE n \in Nat
  <2>1. Count(u, tags, n + 1) = Count(u, tags, n) + One(u[n + 1], tags)
    BY CountStep
  <2>2. Count(t, tags, n + 1) = Count(t, tags, n) + One(t[n + 1], tags)
    BY CountStep
  <2> QED
    BY <2>1, <2>2
<1>4. ASSUME NEW n \in 0 .. k
      PROVE  Count(u, tags, n) = Count(s, tags, n)
  <2>1. \A m \in 1 .. n : u[m] = s[m]
    BY <1>3
  <2>2. {m \in 1 .. n : u[m].tag \in tags} = {m \in 1 .. n : s[m].tag \in tags}
    BY <2>1
  <2> QED
    BY <2>2 DEF Count
<1> DEFINE Agree(n) == Count(u, tags, k + n) = Count(s, tags, k) + Count(t, tags, n)
           Off == {n \in Nat : n <= l /\ ~Agree(n)}
<1>5. Off = {}
  <2> SUFFICES ASSUME Off # {}
               PROVE  FALSE
    OBVIOUS
  <2>1. PICK n \in Off : \A m \in Off : n <= m
    <3> HIDE DEF Off
    <3>1. Off \in SUBSET Nat
      BY DEF Off
    <3> QED
      BY <3>1, Smallest
  <2>2. n \in Nat /\ n <= l /\ ~Agree(n)
    BY <2>1
  <2>3. CASE n = 0
    <3>1. Count(t, tags, 0) = 0
      BY CountStep, Zenon
    <3>2. PICK c \in Nat : c = Count(s, tags, k)
      BY CountStep
    <3>3. Count(u, tags, k + 0) = c
      <4>1. k \in 0 .. k /\ k + 0 = k
        OBVIOUS
      <4> QED
        BY <1>4, <3>2, <4>1
    <3> QED
      BY <2>2, <2>3, <3>1, <3>2, <3>3
  <2>4. CASE n # 0
    <3>1. PICK m \in Nat : n = m + 1
      <4>1. n - 1 \in Nat /\ n = (n - 1) + 1
        BY <2>2, <2>4
      <4> QED
        BY <4>1
    <3>2. m < n /\ m <= l /\ m + 1 <= l /\ k + m \in Nat /\ k + n = (k + m) + 1 /\ k + m + 1 = (k + m) + 1
      BY <2>2, <3>1
    <3>3. Agree(m)
      BY <2>1, <3>2
    <3>4. u[(k + m) + 1] = t[m + 1]
      BY <1>3, <3>2
    <3> DEFINE d == One(t[m + 1], tags)
    <3>d. d \in Nat /\ d = One(t[m + 1], tags)
      BY DEF One
    <3> HIDE DEF d
    <3>5. Count(u, tags, (k + m) + 1) = Count(u, tags, k + m) + d
      <4>1. Count(u, tags, (k + m) + 1) =
              Count(u, tags, k + m) + One(u[(k + m) + 1], tags)
        BY <1>step, <3>2, Zenon
      <4> QED
        BY <3>4, <3>d, <4>1
    <3>6. Count(t, tags, m + 1) = Count(t, tags, m) + d
      <4>1. Count(t, tags, m + 1) = Count(t, tags, m) + One(t[m + 1], tags)
        BY <1>step, Zenon
      <4> QED
        BY <3>d, <4>1
    <3>7. PICK e \in Nat : e = Count(t, tags, m)
      BY CountStep
    <3>8. PICK c \in Nat : c = Count(s, tags, k)
      BY CountStep
    <3>9. Count(u, tags, k + n) = (c + e) + d /\ Count(t, tags, n) = e + d
      BY <3>1, <3>2, <3>3, <3>5, <3>6, <3>7, <3>8
    <3> QED
      BY <2>2, <3>7, <3>8, <3>9, <3>d
  <2> QED
    BY <2>3, <2>4
<1>6. \A n \in 0 .. l : Agree(n)
  BY <1>5
<1> QED
  BY <1>1, <1>2, <1>4, <1>6 DEF u

-----------------------------------------------------------------------------
(* Parts of the script                                                     *)

Old == {"Equal", "Delete"}
New == {"Equal", "Insert"}

\* The operations of these kinds spell seq from one place to another, the latter excluded.
SpellFrom(ops, tags, seq, from, to) ==
  /\ from + Count(ops, tags, Len(ops)) = to
  /\ \A n \in DOMAIN ops :
       ops[n].tag \in tags => ops[n].tok = seq[from + Count(ops, tags, n) - 1]

Orderly(ops) ==
  \A n \in DOMAIN ops : n + 1 \in DOMAIN ops => ~(ops[n].tag = "Insert" /\ ops[n + 1].tag = "Delete")

\* The operations turn the tokens of the area w of a into those of the area of b.
Part(ops, w) ==
  /\ ops \in Seq(OpType)
  /\ SpellFrom(ops, Old, a, w.a, w.a_end)
  /\ SpellFrom(ops, New, b, w.b, w.b_end)
  /\ Orderly(ops)

LEMMA SpellJoined ==
  ASSUME NEW s \in Seq(OpType), NEW t \in Seq(OpType), NEW tags, NEW seq,
         NEW from \in Nat, NEW mid \in Nat, NEW to \in Nat,
         SpellFrom(s, tags, seq, from, mid), SpellFrom(t, tags, seq, mid, to)
  PROVE  SpellFrom(s \o t, tags, seq, from, to)
<1>1. PICK k \in Nat : k = Len(s) /\ DOMAIN s = 1 .. k
  OBVIOUS
<1>2. PICK l \in Nat : l = Len(t) /\ DOMAIN t = 1 .. l
  OBVIOUS
<1> DEFINE u == s \o t
<1>3. /\ Len(u) = k + l /\ DOMAIN u = 1 .. k + l
      /\ \A n \in 1 .. k + l : u[n] = IF n <= k THEN s[n] ELSE t[n - k]
  BY <1>1, <1>2, Concatenation
<1>4. /\ \A n \in 0 .. k : Count(u, tags, n) = Count(s, tags, n)
      /\ \A n \in 0 .. l : Count(u, tags, k + n) = Count(s, tags, k) + Count(t, tags, n)
  BY <1>1, <1>2, CountJoined
<1> HIDE DEF u
<1>5. \A n \in Nat : Count(s, tags, n) \in Nat /\ Count(t, tags, n) \in Nat
  BY CountStep
<1>c. PICK c \in Nat : c = Count(s, tags, k)
  BY <1>5
<1>6. from + c = mid /\ mid + Count(t, tags, l) = to
  BY <1>1, <1>2, <1>c DEF SpellFrom
<1>7. from + Count(u, tags, Len(u)) = to
  <2>1. l \in 0 .. l
    OBVIOUS
  <2>2. PICK e \in Nat : e = Count(t, tags, l)
    BY <1>5
  <2>3. Count(u, tags, k + l) = c + e
    BY <1>4, <1>c, <2>1, <2>2
  <2>4. Count(u, tags, Len(u)) = c + e
    BY <1>3, <2>3
  <2>5. mid + e = to
    BY <1>6, <2>2
  <2> QED
    BY <1>6, <2>4, <2>5
<1>8. ASSUME NEW n \in DOMAIN u, u[n].tag \in tags
      PROVE  u[n].tok = seq[from + Count(u, tags, n) - 1]
  <2>1. n \in Nat /\ 1 <= n /\ n <= k + l
    BY <1>3
  <2>2. CASE n <= k
    <3>1. u[n] = s[n] /\ n \in DOMAIN s /\ Count(u, tags, n) = Count(s, tags, n)
      BY <1>1, <1>3, <1>4, <2>1, <2>2
    <3> QED
      BY <1>8, <3>1 DEF SpellFrom
  <2>3. CASE k < n
    <3>1. PICK m \in Nat : m = n - k
      BY <2>1, <2>3
    <3>2. n = k + m /\ m \in 1 .. l /\ m \in 0 .. l /\ ~(n <= k) /\ n \in 1 .. k + l
      BY <2>1, <2>3, <3>1
    <3>3. u[n] = t[m] /\ m \in DOMAIN t /\ Count(u, tags, n) = Count(s, tags, k) + Count(t, tags, m)
      BY <1>2, <1>3, <1>4, <3>1, <3>2
    <3>e. PICK e \in Nat : e = Count(t, tags, m)
      BY <1>5
    <3>4. from + Count(u, tags, n) - 1 = mid + Count(t, tags, m) - 1
      BY <1>6, <1>c, <3>3, <3>e
    <3> QED
      BY <1>8, <3>3, <3>4 DEF SpellFrom
  <2> QED
    BY <2>1, <2>2, <2>3
<1> QED
  BY <1>7, <1>8 DEF SpellFrom, u

\* Parts put together are a part, unless an insertion meets a deletion.
LEMMA PartsJoined ==
  ASSUME NEW s, NEW t, NEW v \in Corners, NEW w \in Corners, Part(s, v), Part(t, w),
         v.a_end = w.a, v.b_end = w.b,
         \/ s = <<>>
         \/ s[Len(s)].tag # "Insert"
         \/ t[1].tag # "Delete"
  PROVE  Part(s \o t, Window(v.a, v.b, w.a_end, w.b_end))
<1>1. /\ s \in Seq(OpType) /\ t \in Seq(OpType)
      /\ v.a \in Nat /\ v.b \in Nat /\ w.a \in Nat /\ w.b \in Nat /\ w.a_end \in Nat /\ w.b_end \in Nat
  BY DEF Part, Corners
<1>2. SpellFrom(s \o t, Old, a, v.a, w.a_end)
  BY <1>1, SpellJoined DEF Part
<1>3. SpellFrom(s \o t, New, b, v.b, w.b_end)
  BY <1>1, SpellJoined DEF Part
<1>4. Orderly(s \o t)
  <2>1. PICK k \in Nat : k = Len(s) /\ DOMAIN s = 1 .. k
    BY <1>1
  <2>2. PICK l \in Nat : l = Len(t) /\ DOMAIN t = 1 .. l
    BY <1>1
  <2> DEFINE u == s \o t
  <2>3. /\ DOMAIN u = 1 .. k + l
        /\ \A n \in 1 .. k + l : u[n] = IF n <= k THEN s[n] ELSE t[n - k]
    BY <1>1, <2>1, <2>2, Concatenation
  <2> HIDE DEF u
  <2>4. ASSUME NEW n \in DOMAIN u, n + 1 \in DOMAIN u, u[n].tag = "Insert", u[n + 1].tag = "Delete"
        PROVE  FALSE
    <3>1. n \in Nat /\ 1 <= n /\ n + 1 <= k + l
      BY <2>3, <2>4
    <3>2. CASE n + 1 <= k
      <4>1. n \in 1 .. k /\ n + 1 \in 1 .. k /\ n \in 1 .. k + l /\ n + 1 \in 1 .. k + l /\ n <= k
        BY <3>1, <3>2
      <4> QED
        BY <2>1, <2>3, <2>4, <3>2, <4>1 DEF Part, Orderly
    <3>3. CASE n = k
      <4>1. n \in 1 .. k + l /\ n + 1 \in 1 .. k + l /\ n <= k /\ ~(n + 1 <= k) /\ (n + 1) - k = 1
        BY <3>1, <3>3
      <4>2. u[n] = s[Len(s)] /\ u[n + 1] = t[1] /\ s # <<>>
        BY <2>1, <2>3, <3>1, <3>3, <4>1
      <4> QED
        BY <2>4, <4>2
    <3>4. CASE k < n
      <4>1. PICK m \in Nat : m = n - k
        BY <3>1, <3>4
      <4>2. /\ n \in 1 .. k + l /\ n + 1 \in 1 .. k + l /\ ~(n <= k) /\ ~(n + 1 <= k)
            /\ n - k = m /\ (n + 1) - k = m + 1 /\ m \in 1 .. l /\ m + 1 \in 1 .. l
        BY <3>1, <3>4, <4>1
      <4> QED
        BY <2>2, <2>3, <2>4, <4>2 DEF Part, Orderly
    <3> QED
      BY <3>1, <3>2, <3>3, <3>4
  <2> QED
    BY <2>4 DEF Orderly, u
<1>5. s \o t \in Seq(OpType)
  BY <1>1, Concatenation
<1> QED
  BY <1>2, <1>3, <1>4, <1>5 DEF Part, Window

\* ops are operations of one kind for the tokens of seq between two places: kinds that
\* include this one spell the same tokens, wherever they are, others nothing.
OneKind(ops, tag, seq, from, end) ==
  /\ ops \in Seq(OpType)
  /\ Len(ops) = end - from
  /\ \A n \in DOMAIN ops : ops[n].tag = tag
  /\ \A tags, x : \A m \in Nat :
       /\ tag \in tags
       /\ \A k \in 1 .. end - from : x[m + k - 1] = seq[from + k - 1]
       => SpellFrom(ops, tags, x, m, m + (end - from))
  /\ \A tags, x : \A m \in Nat : tag \notin tags => SpellFrom(ops, tags, x, m, m)

LEMMA OpSpells ==
  ASSUME NEW tag \in {"Delete", "Insert", "Equal"}, NEW seq \in Seq(Token),
         NEW from \in 1 .. Len(seq) + 1, NEW end \in 1 .. Len(seq) + 1, from <= end
  PROVE  OneKind(Op(tag, seq, from, end), tag, seq, from, end)
<1> DEFINE ops == Op(tag, seq, from, end)
<1>1. from \in Nat /\ end \in Nat /\ Len(seq) \in Nat /\ DOMAIN seq = 1 .. Len(seq) /\ 1 <= from
  OBVIOUS
<1>2. PICK l \in Nat : l = end - from
  BY <1>1
<1>3. ops = [k \in 1 .. l |-> [tag |-> tag, tok |-> seq[from + k - 1]]]
  BY <1>2 DEF Op
<1>4. \A k \in 1 .. l : from + k - 1 \in 1 .. Len(seq)
  BY <1>1, <1>2
<1>5. ops \in Seq(OpType) /\ Len(ops) = l /\ DOMAIN ops = 1 .. l
  <2>1. \A k \in 1 .. l : [tag |-> tag, tok |-> seq[from + k - 1]] \in OpType
    BY <1>1, <1>4 DEF OpType
  <2> DEFINE f == [k \in 1 .. l |-> [tag |-> tag, tok |-> seq[from + k - 1]]]
  <2>2. f \in [1 .. l -> OpType]
    BY <2>1
  <2> HIDE DEF f
  <2>3. f \in Seq(OpType) /\ Len(f) = l /\ DOMAIN f = 1 .. l
    BY <2>2, SeqDef
  <2> QED
    BY <1>3, <2>3 DEF f
<1>6. \A n \in 1 .. l : ops[n].tag = tag /\ ops[n].tok = seq[from + n - 1]
  BY <1>3
<1> HIDE DEF ops
<1>7. ASSUME NEW tags, NEW n \in 0 .. l
      PROVE  Count(ops, tags, n) = IF tag \in tags THEN n ELSE 0
  <2>1. n \in Nat /\ \A m \in 1 .. n : ops[m].tag = tag
    BY <1>6
  <2> QED
    BY <2>1, CountUniform
<1>8. ASSUME NEW tags, NEW x, NEW m \in Nat, tag \in tags,
             \A k \in 1 .. l : x[m + k - 1] = seq[from + k - 1]
      PROVE  SpellFrom(ops, tags, x, m, m + l)
  <2>1. \A n \in 0 .. l : Count(ops, tags, n) = n
    BY <1>7, <1>8
  <2>2. \A n \in 1 .. l : n \in 0 .. l
    OBVIOUS
  <2>3. Count(ops, tags, Len(ops)) = l
    BY <1>5, <2>1
  <2> QED
    BY <1>5, <1>6, <1>8, <2>1, <2>2, <2>3 DEF SpellFrom
<1>9. ASSUME NEW tags, NEW x, NEW m \in Nat, tag \notin tags
      PROVE  SpellFrom(ops, tags, x, m, m)
  <2>1. Count(ops, tags, Len(ops)) = 0
    BY <1>5, <1>7, <1>9
  <2> QED
    BY <1>5, <1>6, <1>9, <2>1 DEF SpellFrom
<1> QED
  BY <1>2, <1>5, <1>6, <1>8, <1>9 DEF ops, OneKind

-----------------------------------------------------------------------------
(* FlattenSeq                                                              *)

\* f[n] is what the first n sequences of s are put together.
Flattens(f, s, n) == f = [k \in 1 .. n |-> IF k = 1 THEN s[k] ELSE f[k - 1] \o s[k]]

LEMMA FlattensExists ==
  ASSUME NEW s, NEW n \in Nat
  PROVE  \E f : Flattens(f, s, n)
<1> DEFINE Without == {m \in Nat : ~ \E f : Flattens(f, s, m)}
<1>1. ASSUME NEW m \in Without, \A l \in Without : m <= l
      PROVE  FALSE
  <2>1. m \in Nat /\ ~ \E f : Flattens(f, s, m)
    OBVIOUS
  <2>2. CASE m = 0
    <3>1. Flattens([k \in 1 .. 0 |-> 0], s, 0)
      BY DEF Flattens
    <3> QED
      BY <2>1, <2>2, <3>1
  <2>3. CASE m # 0
    <3>1. m - 1 \in Nat /\ ~(m <= m - 1)
      BY <2>1, <2>3
    <3>2. m - 1 \notin Without
      BY <1>1, <3>1
    <3>3. PICK f : Flattens(f, s, m - 1)
      BY <3>1, <3>2
    <3> DEFINE last == IF m = 1 THEN s[m] ELSE f[m - 1] \o s[m]
               g == [k \in 1 .. m |-> IF k = m THEN last ELSE f[k]]
    <3>4. ASSUME NEW k \in 1 .. m
          PROVE  g[k] = IF k = 1 THEN s[k] ELSE g[k - 1] \o s[k]
      <4>1. CASE k = m /\ m = 1
        BY <4>1
      <4>2. CASE k = m /\ m # 1
        <5>1. m - 1 \in 1 .. m /\ m - 1 # m
          BY <2>1, <2>3, <4>2
        <5>2. g[m - 1] = f[m - 1]
          BY <5>1
        <5> QED
          BY <4>2, <5>2
      <4>3. CASE k # m
        <5>1. k \in 1 .. m - 1
          BY <2>1, <4>3
        <5>2. f[k] = IF k = 1 THEN s[k] ELSE f[k - 1] \o s[k]
          BY <3>3, <5>1 DEF Flattens
        <5>3. k # 1 => k - 1 \in 1 .. m /\ k - 1 # m
          BY <2>1, <5>1
        <5>4. g[k] = f[k] /\ (k # 1 => g[k - 1] = f[k - 1])
          BY <4>3, <5>3
        <5> HIDE DEF g, last
        <5> QED
          BY <5>2, <5>4
      <4> QED
        BY <4>1, <4>2, <4>3
    <3>5. g = [k \in 1 .. m |-> g[k]]
      OBVIOUS
    <3> HIDE DEF g, last
    <3>6. Flattens(g, s, m)
      BY <3>4, <3>5 DEF Flattens
    <3> QED
      BY <2>1, <3>6
  <2> QED
    BY <2>2, <2>3
<1>2. Without = {}
  <2>1. Without \in SUBSET Nat
    OBVIOUS
  <2> HIDE DEF Without
  <2> QED
    BY <1>1, <2>1, Smallest
<1> QED
  BY <1>2

LEMMA FlattenUnfolds ==
  ASSUME NEW s, NEW N \in Nat \ {0}, Len(s) = N
  PROVE  \E f : Flattens(f, s, N) /\ FlattenSeq(s) = f[N]
<1> DEFINE flatten == CHOOSE f : f = [k \in 1 .. N |-> IF k = 1 THEN s[k] ELSE f[k - 1] \o s[k]]
<1>1. \E f : f = [k \in 1 .. N |-> IF k = 1 THEN s[k] ELSE f[k - 1] \o s[k]]
  BY FlattensExists DEF Flattens
<1>2. Flattens(flatten, s, N)
  BY <1>1 DEF Flattens
<1>3. FlattenSeq(s) = flatten[N]
  BY Zenon DEF FlattenSeq
<1> QED
  BY <1>2, <1>3

-----------------------------------------------------------------------------
(* The whole script                                                        *)

LEMMA GapPart ==
  ASSUME Shape, NEW g \in Proper
  PROVE  Part(GapOps(g), g)
<1> DEFINE del == Op("Delete", a, g.a, g.a_end)
           ins == Op("Insert", b, g.b, g.b_end)
           v == Window(g.a, g.b, g.a_end, g.b)
           w == Window(g.a_end, g.b, g.a_end, g.b_end)
<1>1. /\ a \in Seq(Token) /\ b \in Seq(Token)
      /\ g.a \in 1 .. Len(a) + 1 /\ g.a_end \in 1 .. Len(a) + 1 /\ g.a <= g.a_end
      /\ g.b \in 1 .. Len(b) + 1 /\ g.b_end \in 1 .. Len(b) + 1 /\ g.b <= g.b_end
      /\ g.a \in Nat /\ g.b \in Nat /\ g.a_end \in Nat /\ g.b_end \in Nat
  BY WindowFields DEF Shape, Proper, WindowType
<1>2. /\ del \in Seq(OpType) /\ \A n \in DOMAIN del : del[n].tag = "Delete"
      /\ SpellFrom(del, Old, a, g.a, g.a_end) /\ SpellFrom(del, New, b, g.b, g.b)
  <2>1. /\ del \in Seq(OpType) /\ \A n \in DOMAIN del : del[n].tag = "Delete"
        /\ SpellFrom(del, Old, a, g.a, g.a + (g.a_end - g.a)) /\ SpellFrom(del, New, b, g.b, g.b)
    <3>1. "Delete" \in {"Delete", "Insert", "Equal"} /\ "Delete" \in Old /\ "Delete" \notin New
      BY DEF Old, New
    <3>2. OneKind(del, "Delete", a, g.a, g.a_end)
      BY <1>1, <3>1, OpSpells
    <3> HIDE DEF del
    <3>3. SpellFrom(del, Old, a, g.a, g.a + (g.a_end - g.a))
      BY <1>1, <3>1, <3>2 DEF OneKind
    <3>4. SpellFrom(del, New, b, g.b, g.b)
      BY <1>1, <3>1, <3>2 DEF OneKind
    <3> QED
      BY <3>2, <3>3, <3>4 DEF OneKind
  <2>2. g.a + (g.a_end - g.a) = g.a_end
    BY <1>1
  <2> QED
    BY <2>1, <2>2
<1>3. /\ ins \in Seq(OpType) /\ \A n \in DOMAIN ins : ins[n].tag = "Insert"
      /\ SpellFrom(ins, Old, a, g.a_end, g.a_end) /\ SpellFrom(ins, New, b, g.b, g.b_end)
  <2>1. /\ ins \in Seq(OpType) /\ \A n \in DOMAIN ins : ins[n].tag = "Insert"
        /\ SpellFrom(ins, Old, a, g.a_end, g.a_end) /\ SpellFrom(ins, New, b, g.b, g.b + (g.b_end - g.b))
    <3>1. "Insert" \in {"Delete", "Insert", "Equal"} /\ "Insert" \in New /\ "Insert" \notin Old
      BY DEF Old, New
    <3>2. OneKind(ins, "Insert", b, g.b, g.b_end)
      BY <1>1, <3>1, OpSpells
    <3> HIDE DEF ins
    <3>3. SpellFrom(ins, New, b, g.b, g.b + (g.b_end - g.b))
      BY <1>1, <3>1, <3>2 DEF OneKind
    <3>4. SpellFrom(ins, Old, a, g.a_end, g.a_end)
      BY <1>1, <3>1, <3>2 DEF OneKind
    <3> QED
      BY <3>2, <3>3, <3>4 DEF OneKind
  <2>2. g.b + (g.b_end - g.b) = g.b_end
    BY <1>1
  <2> QED
    BY <2>1, <2>2
<1>4. GapOps(g) = del \o ins
  BY DEF GapOps
<1> HIDE DEF del, ins
<1>5. Part(del, v) /\ Part(ins, w)
  BY <1>2, <1>3 DEF Part, Orderly, Window
<1>6. v \in Corners /\ w \in Corners /\ v.a_end = w.a /\ v.b_end = w.b
  BY <1>1 DEF Corners, Window
<1>7. del = <<>> \/ del[Len(del)].tag # "Insert"
  <2>1. ASSUME del # <<>>
        PROVE  Len(del) \in DOMAIN del
    BY <1>2, <2>1, EmptySeq
  <2> QED
    BY <1>2, <2>1
<1>8. Part(del \o ins, Window(v.a, v.b, w.a_end, w.b_end))
  <2> HIDE DEF v, w
  <2> QED
    BY <1>5, <1>6, <1>7, PartsJoined
<1> QED
  BY <1>4, <1>8 DEF Part, Window

LEMMA EqualPart ==
  ASSUME Shape, NEW c \in Matches
  PROVE  /\ Part(EqualOps(c), Extent(c))
         /\ Len(EqualOps(c)) \in Nat \ {0}
         /\ \A n \in DOMAIN EqualOps(c) : EqualOps(c)[n].tag = "Equal"
<1> DEFINE ops == Op("Equal", a, c.a, c.a + c.len)
<1>1. /\ a \in Seq(Token) /\ c.a \in Nat /\ c.b \in Nat /\ c.len \in Nat /\ 0 < c.len
      /\ Len(a) \in Nat /\ c.a \in 1 .. Len(a) + 1 /\ c.a + c.len \in 1 .. Len(a) + 1
      /\ c.a <= c.a + c.len /\ (c.a + c.len) - c.a = c.len
      /\ \A k \in 0 .. c.len - 1 : a[c.a + k] = b[c.b + k]
  <2>1. /\ a \in Seq(Token) /\ c.a \in Nat /\ c.b \in Nat /\ c.len \in Nat /\ 0 < c.len
        /\ 1 <= c.a /\ c.a + c.len <= Len(a) + 1
        /\ \A k \in 0 .. c.len - 1 : a[c.a + k] = b[c.b + k]
    BY DEF Shape, Matches, Extents
  <2>2. Len(a) \in Nat
    BY <2>1
  <2>3. /\ c.a \in 1 .. Len(a) + 1 /\ c.a + c.len \in 1 .. Len(a) + 1
        /\ c.a <= c.a + c.len /\ (c.a + c.len) - c.a = c.len
    BY <2>1, <2>2
  <2> QED
    BY <2>1, <2>2, <2>3
<1>2. \A k \in 1 .. c.len : b[c.b + k - 1] = a[c.a + k - 1]
  <2> TAKE k \in 1 .. c.len
  <2>1. k - 1 \in 0 .. c.len - 1 /\ c.b + k - 1 = c.b + (k - 1) /\ c.a + k - 1 = c.a + (k - 1)
    BY <1>1
  <2> QED
    BY <1>1, <2>1
<1>3. /\ ops \in Seq(OpType) /\ Len(ops) = c.len /\ \A n \in DOMAIN ops : ops[n].tag = "Equal"
      /\ SpellFrom(ops, Old, a, c.a, c.a + c.len) /\ SpellFrom(ops, New, b, c.b, c.b + c.len)
  <2>1. "Equal" \in {"Delete", "Insert", "Equal"} /\ "Equal" \in Old /\ "Equal" \in New
    BY DEF Old, New
  <2>2. OneKind(ops, "Equal", a, c.a, c.a + c.len)
    BY <1>1, <2>1, OpSpells
  <2> HIDE DEF ops
  <2>3. SpellFrom(ops, Old, a, c.a, c.a + c.len)
    BY <1>1, <2>1, <2>2 DEF OneKind
  <2>4. SpellFrom(ops, New, b, c.b, c.b + c.len)
    BY <1>1, <1>2, <2>1, <2>2 DEF OneKind
  <2> QED
    BY <1>1, <2>2, <2>3, <2>4 DEF OneKind
<1>4. EqualOps(c) = ops
  BY DEF EqualOps
<1> HIDE DEF ops
<1> QED
  BY <1>1, <1>3, <1>4 DEF Part, Orderly, Extent, Window

\* The gaps lie between the blocks.
LEMMA GapFits ==
  ASSUME MInv, NEW N \in Nat, N = Len(match_blocks), NEW n \in 1 .. N + 1, NEW g, g = GapBefore(Sorted, n)
  PROVE  /\ g \in Proper
         /\ n = 1 => g.a = 1 /\ g.b = 1
         /\ n # 1 => g.a = Extent(Sorted[n - 1]).a_end /\ g.b = Extent(Sorted[n - 1]).b_end
         /\ n <= N => g.a_end = Sorted[n].a /\ g.b_end = Sorted[n].b
         /\ n = N + 1 => g.a_end = Len(a) + 1 /\ g.b_end = Len(b) + 1
<1> DEFINE from == IF n = 1 THEN Block(1, 1, 0) ELSE Sorted[n - 1]
           to == IF n > Len(Sorted) THEN Block(Len(a) + 1, Len(b) + 1, 0) ELSE Sorted[n]
<1>1. g = Window(from.a + from.len, from.b + from.len, to.a, to.b)
  BY DEF GapBefore
<1>2. /\ Sorted \in Seq(Matches) /\ Len(Sorted) = N
      /\ \A k, m \in 1 .. N : k < m => Before(Extent(Sorted[k]), Extent(Sorted[m]))
  BY SortedBlocks
<1>3. n \in Nat /\ 1 <= n /\ n <= N + 1 /\ Len(a) \in Nat /\ Len(b) \in Nat
  BY DEF MInv, IInv, Shape
<1>4. \A k \in 1 .. N :
        /\ Sorted[k].a \in Nat /\ Sorted[k].b \in Nat /\ Sorted[k].len \in Nat /\ 0 < Sorted[k].len
        /\ 1 <= Sorted[k].a /\ Sorted[k].a + Sorted[k].len <= Len(a) + 1
        /\ 1 <= Sorted[k].b /\ Sorted[k].b + Sorted[k].len <= Len(b) + 1
  <2>1. \A k \in 1 .. N : Sorted[k] \in Matches
    BY <1>2
  <2> QED
    BY <2>1 DEF Matches, Extents
<1>5. n # 1 => n - 1 \in 1 .. N
  BY <1>3
<1>6. n <= N => n \in 1 .. N
  BY <1>3
<1>7. /\ n = 1 => from.a = 1 /\ from.b = 1 /\ from.len = 0
      /\ n # 1 => from = Sorted[n - 1]
      /\ n <= N => to = Sorted[n]
      /\ n = N + 1 => to.a = Len(a) + 1 /\ to.b = Len(b) + 1
  BY <1>2, <1>3 DEF Block
<1> HIDE DEF from, to
<1>8. /\ from.a \in Nat /\ from.b \in Nat /\ from.len \in Nat
      /\ 1 <= from.a /\ from.a + from.len <= Len(a) + 1
      /\ 1 <= from.b /\ from.b + from.len <= Len(b) + 1
  <2>1. CASE n = 1
    BY <1>3, <1>7, <2>1
  <2>2. CASE n # 1
    BY <1>4, <1>5, <1>7, <2>2
  <2> QED
    BY <2>1, <2>2
<1>9. /\ to.a \in Nat /\ to.b \in Nat /\ 1 <= to.a /\ to.a <= Len(a) + 1
      /\ 1 <= to.b /\ to.b <= Len(b) + 1
  <2>1. CASE n = N + 1
    BY <1>3, <1>7, <2>1
  <2>2. CASE n <= N
    <3>1. to = Sorted[n] /\ n \in 1 .. N
      BY <1>6, <1>7, <2>2
    <3>2. to.len \in Nat /\ to.a \in Nat /\ to.b \in Nat
      BY <1>4, <3>1
    <3>3. 1 <= to.a /\ 1 <= to.b /\ to.a + to.len <= Len(a) + 1 /\ to.b + to.len <= Len(b) + 1
      BY <1>4, <3>1
    <3> QED
      BY <1>3, <3>2, <3>3
  <2> QED
    BY <1>3, <2>1, <2>2
<1>10. from.a + from.len <= to.a /\ from.b + from.len <= to.b
  <2>1. CASE n = N + 1
    BY <1>7, <1>8, <2>1
  <2>2. CASE n = 1 /\ n <= N
    BY <1>7, <1>8, <1>9, <2>2
  <2>3. CASE n # 1 /\ n <= N
    <3>1. n - 1 \in 1 .. N /\ n \in 1 .. N /\ n - 1 < n
      BY <1>3, <1>5, <1>6, <2>3
    <3>2. Before(Extent(Sorted[n - 1]), Extent(Sorted[n]))
      BY <1>2, <3>1
    <3> QED
      BY <1>7, <2>3, <3>2 DEF Before, Extent, Window
  <2> QED
    BY <1>3, <2>1, <2>2, <2>3
<1>11. /\ g.a = from.a + from.len /\ g.b = from.b + from.len /\ g.a_end = to.a /\ g.b_end = to.b
       /\ g = [a |-> from.a + from.len, b |-> from.b + from.len, a_end |-> to.a, b_end |-> to.b]
  BY <1>1 DEF Window
<1>12. g \in Proper
  <2>1. from.a + from.len \in 1 .. Len(a) + 1 /\ to.a \in 1 .. Len(a) + 1
    BY <1>3, <1>8, <1>9
  <2>2. from.b + from.len \in 1 .. Len(b) + 1 /\ to.b \in 1 .. Len(b) + 1
    BY <1>3, <1>8, <1>9
  <2>3. g \in WindowType
    BY <1>11, <2>1, <2>2 DEF WindowType
  <2> QED
    BY <1>10, <1>11, <2>3 DEF Proper
<1> QED
  BY <1>7, <1>11, <1>12 DEF Extent, Window

EndsEqual(ops) == ops # <<>> /\ ops[Len(ops)].tag = "Equal"

LEMMA EndsEqualJoined ==
  ASSUME NEW s \in Seq(OpType), NEW t \in Seq(OpType), EndsEqual(t)
  PROVE  EndsEqual(s \o t)
<1>1. PICK k \in Nat : k = Len(s)
  OBVIOUS
<1>2. PICK l \in Nat \ {0} : l = Len(t)
  BY EmptySeq DEF EndsEqual
<1>3. /\ Len(s \o t) = k + l
      /\ \A n \in 1 .. k + l : (s \o t)[n] = IF n <= k THEN s[n] ELSE t[n - k]
  BY <1>1, <1>2, Concatenation
<1>4. k + l \in 1 .. k + l /\ ~(k + l <= k) /\ (k + l) - k = l /\ k + l # 0
  OBVIOUS
<1>5. (s \o t)[k + l] = t[l]
  BY <1>3, <1>4
<1>6. s \o t # <<>>
  BY <1>3, <1>4
<1> QED
  BY <1>2, <1>3, <1>5, <1>6 DEF EndsEqual

\* The part of the script for a gap and the block after it.
Stretch(n) == GapOps(GapBefore(Sorted, n)) \o EqualOps(Sorted[n])

LEMMA StretchPart ==
  ASSUME MInv, NEW N \in Nat, N = Len(match_blocks), NEW n \in 1 .. N,
         NEW g, g = GapBefore(Sorted, n), NEW e, e = Extent(Sorted[n])
  PROVE  Part(Stretch(n), Window(g.a, g.b, e.a_end, e.b_end)) /\ EndsEqual(Stretch(n))
<1> DEFINE gap == GapOps(g)
           same == EqualOps(Sorted[n])
<1>1. Shape /\ n \in 1 .. N + 1 /\ n <= N /\ n # N + 1
  BY DEF MInv, IInv
<1>2. Sorted[n] \in Matches
  BY SortedBlocks
<1>3. Part(same, e) /\ Len(same) \in Nat \ {0} /\ \A m \in DOMAIN same : same[m].tag = "Equal"
  BY <1>1, <1>2, EqualPart
<1>4. g \in Proper /\ g.a_end = Sorted[n].a /\ g.b_end = Sorted[n].b
  BY <1>1, GapFits
<1>5. Part(gap, g)
  BY <1>1, <1>4, GapPart
<1>6. g \in Corners /\ e \in Corners /\ g.a_end = e.a /\ g.b_end = e.b
  <2>1. g \in Corners
    BY <1>4, WindowFields DEF Corners
  <2> QED
    BY <1>2, <1>4, <2>1 DEF Corners, Matches, Extents, Extent, Window
<1>7. Stretch(n) = gap \o same
  BY DEF Stretch
<1> HIDE DEF gap, same
<1>8. same \in Seq(OpType) /\ gap \in Seq(OpType)
  BY <1>3, <1>5 DEF Part
<1>9. same[1].tag # "Delete" /\ EndsEqual(same)
  <2>1. 1 \in DOMAIN same /\ Len(same) \in DOMAIN same /\ same # <<>>
    BY <1>3, <1>8
  <2> QED
    BY <1>3, <2>1 DEF EndsEqual
<1>10. Part(gap \o same, Window(g.a, g.b, e.a_end, e.b_end))
  BY <1>3, <1>5, <1>6, <1>9, PartsJoined
<1>11. EndsEqual(gap \o same)
  BY <1>8, <1>9, EndsEqualJoined
<1> QED
  BY <1>7, <1>10, <1>11

Script ==
  FlattenSeq([n \in DOMAIN Sorted |-> Stretch(n)]) \o GapOps(GapBefore(Sorted, Len(Sorted) + 1))

\* The script turns all of a into all of b.
LEMMA ScriptPart ==
  ASSUME MInv
  PROVE  Part(Script, Window(1, 1, Len(a) + 1, Len(b) + 1))
<1>1. PICK N \in Nat : N = Len(match_blocks)
  BY DEF MInv, Matched
<1>2. Sorted \in Seq(Matches) /\ Len(Sorted) = N /\ DOMAIN Sorted = 1 .. N
  BY <1>1, SortedBlocks
<1>3. Shape
  BY DEF MInv, IInv
<1> DEFINE s == [n \in 1 .. N |-> Stretch(n)]
           last == GapBefore(Sorted, N + 1)
<1>4. Script = FlattenSeq(s) \o GapOps(last)
  BY <1>2 DEF Script
<1>5. /\ last \in Proper /\ N + 1 \in 1 .. N + 1
      /\ last.a_end = Len(a) + 1 /\ last.b_end = Len(b) + 1
      /\ N + 1 = 1 => last.a = 1 /\ last.b = 1
      /\ N + 1 # 1 => last.a = Extent(Sorted[N]).a_end /\ last.b = Extent(Sorted[N]).b_end
  <2>1. N + 1 \in 1 .. N + 1 /\ (N + 1) - 1 = N
    OBVIOUS
  <2> QED
    BY <1>1, <2>1, GapFits
<1>6. Part(GapOps(last), last)
  BY <1>3, <1>5, GapPart
<1>7. last \in Corners
  BY <1>5, WindowFields DEF Corners
<1>8. CASE N = 0
  <2>1. FlattenSeq(s) = <<>>
    <3>1. s = <<>>
      BY <1>8
    <3> HIDE DEF s
    <3>2. Len(s) = 0
      BY <3>1
    <3> QED
      BY <3>1, <3>2, Zenon DEF FlattenSeq
  <2>2. GapOps(last) \in Seq(OpType)
    BY <1>6 DEF Part
  <2>3. Script = GapOps(last)
    <3> HIDE DEF s, last
    <3> QED
      BY <1>4, <2>1, <2>2, ConcatEmptySeq
  <2> HIDE DEF last
  <2> QED
    BY <1>5, <1>6, <1>8, <2>3 DEF Part, Window
<1>9. CASE N # 0
  <2>1. Len(s) = N
    OBVIOUS
  <2>2. PICK f : Flattens(f, s, N) /\ FlattenSeq(s) = f[N]
    <3> HIDE DEF s
    <3> QED
      BY <1>9, <2>1, FlattenUnfolds
  <2>3. \A n \in 1 .. N : f[n] = IF n = 1 THEN Stretch(n) ELSE f[n - 1] \o Stretch(n)
    BY <2>2 DEF Flattens
  <2> HIDE DEF s
  <2> DEFINE Ext(n) == Extent(Sorted[n])
             Upto(n) == Part(f[n], Window(1, 1, Ext(n).a_end, Ext(n).b_end)) /\ EndsEqual(f[n])
             Off == {n \in Nat : n \in 1 .. N /\ ~Upto(n)}
  <2>4. \A n \in 1 .. N : Ext(n) \in Corners
    <3>1. \A n \in 1 .. N : Sorted[n] \in Extents
      BY <1>2 DEF Matches
    <3>2. \A c \in Extents : Extent(c) \in Corners
      BY DEF Extents, Extent, Window, Corners
    <3> QED
      BY <3>1, <3>2
  <2>5. ASSUME NEW n \in 1 .. N, n # 1 => Upto(n - 1)
        PROVE  Upto(n)
    <3>1. PICK g : g = GapBefore(Sorted, n)
      OBVIOUS
    <3>2. PICK e : e = Ext(n)
      OBVIOUS
    <3>3. Part(Stretch(n), Window(g.a, g.b, e.a_end, e.b_end)) /\ EndsEqual(Stretch(n))
      BY <1>1, <3>1, <3>2, StretchPart
    <3>4. n \in 1 .. N + 1
      OBVIOUS
    <3>5. /\ n = 1 => g.a = 1 /\ g.b = 1
          /\ n # 1 => g.a = Ext(n - 1).a_end /\ g.b = Ext(n - 1).b_end
      BY <1>1, <3>1, <3>4, GapFits
    <3>6. CASE n = 1
      <4>1. f[n] = Stretch(n)
        BY <2>3, <3>6
      <4> HIDE DEF Ext
      <4>2. g.a = 1 /\ g.b = 1
        BY <3>5, <3>6
      <4> DEFINE w == Window(g.a, g.b, e.a_end, e.b_end)
      <4>w. w = Window(1, 1, Ext(n).a_end, Ext(n).b_end)
        BY <3>2, <4>2 DEF Window
      <4> HIDE DEF w
      <4>3. Part(f[n], Window(1, 1, Ext(n).a_end, Ext(n).b_end)) /\ EndsEqual(f[n])
        BY <3>3, <4>1, <4>w DEF w
      <4> QED
        BY <4>3
    <3>7. CASE n # 1
      <4>1. f[n] = f[n - 1] \o Stretch(n) /\ n - 1 \in 1 .. N
        <5>1. n - 1 \in 1 .. N
          BY <3>7
        <5>2. f[n] = f[n - 1] \o Stretch(n)
          BY <2>3, <3>7, Zenon
        <5> QED
          BY <5>1, <5>2
      <4> DEFINE v == Window(1, 1, Ext(n - 1).a_end, Ext(n - 1).b_end)
                 w == Window(g.a, g.b, e.a_end, e.b_end)
      <4>2. /\ Ext(n - 1).a_end \in Nat /\ Ext(n - 1).b_end \in Nat
            /\ g.a = Ext(n - 1).a_end /\ g.b = Ext(n - 1).b_end
            /\ e.a_end \in Nat /\ e.b_end \in Nat
        <5>1. Ext(n - 1) \in Corners /\ Ext(n) \in Corners
          BY <2>4, <4>1
        <5>2. g.a = Ext(n - 1).a_end /\ g.b = Ext(n - 1).b_end
          BY <3>5, <3>7
        <5> HIDE DEF Ext
        <5> QED
          BY <3>2, <5>1, <5>2 DEF Corners
      <4>3. v \in Corners /\ w \in Corners /\ v.a_end = w.a /\ v.b_end = w.b
        BY <4>2 DEF Corners, Window
      <4>4. Part(f[n - 1], v) /\ f[n - 1][Len(f[n - 1])].tag # "Insert" /\ Part(Stretch(n), w)
        BY <2>5, <3>3, <3>7 DEF EndsEqual
      <4>5. v.a = 1 /\ v.b = 1 /\ w.a_end = e.a_end /\ w.b_end = e.b_end
        BY DEF Window
      <4> HIDE DEF v, w, Ext
      <4>6. Part(f[n - 1] \o Stretch(n), Window(v.a, v.b, w.a_end, w.b_end))
        BY <4>3, <4>4, PartsJoined
      <4>7. EndsEqual(f[n - 1] \o Stretch(n))
        BY <3>3, <4>4, EndsEqualJoined DEF Part
      <4> QED
        BY <3>2, <4>1, <4>5, <4>6, <4>7
    <3> QED
      BY <3>6, <3>7
  <2> HIDE DEF Upto
  <2>6. ASSUME NEW n \in Off, \A m \in Off : n <= m
        PROVE  FALSE
    <3>1. n \in 1 .. N /\ ~Upto(n)
      OBVIOUS
    <3>2. n # 1 => n - 1 \in Nat /\ n - 1 \in 1 .. N /\ ~(n <= n - 1)
      BY <3>1
    <3>3. n # 1 => Upto(n - 1)
      BY <2>6, <3>2
    <3> QED
      BY <2>5, <3>1, <3>3
  <2>7. Off = {}
    <3>1. Off \in SUBSET Nat
      OBVIOUS
    <3> HIDE DEF Off
    <3> QED
      BY <2>6, <3>1, Smallest
  <2>8. Upto(N)
    <3>1. N \in Nat /\ N \in 1 .. N
      BY <1>9
    <3> QED
      BY <2>7, <3>1
  <2> DEFINE v == Window(1, 1, Ext(N).a_end, Ext(N).b_end)
  <2>9. /\ Part(f[N], v) /\ f[N][Len(f[N])].tag # "Insert"
        /\ v \in Corners /\ v.a_end = last.a /\ v.b_end = last.b /\ v.a = 1 /\ v.b = 1
    <3>1. N \in 1 .. N /\ N + 1 # 1
      BY <1>9
    <3>2. Ext(N).a_end \in Nat /\ Ext(N).b_end \in Nat
      BY <2>4, <3>1 DEF Corners
    <3>3. last.a = Ext(N).a_end /\ last.b = Ext(N).b_end
      BY <1>5, <3>1
    <3> HIDE DEF last
    <3> QED
      BY <2>8, <3>2, <3>3 DEF Upto, EndsEqual, Corners, Window
  <2> HIDE DEF v, last
  <2>10. Part(f[N] \o GapOps(last), Window(v.a, v.b, last.a_end, last.b_end))
    BY <1>6, <1>7, <2>9, PartsJoined
  <2> QED
    BY <1>4, <1>5, <2>2, <2>9, <2>10
<1> QED
  BY <1>8, <1>9

-----------------------------------------------------------------------------
(* A finished comparison                                                   *)

\* Nothing is left to be searched when the script is written.
ScriptInv ==
  /\ MInv
  /\ pc = "done" => work_queue = <<>> /\ diff_ops = Script
  /\ pc # "done" => diff_ops = <<>>

LEMMA ScriptKept ==
  ASSUME a' = a, b' = b, match_blocks' = match_blocks
  PROVE  Script' = Script
<1>1. Sorted' = Sorted
  BY DEF Sorted
<1>2. \A w : GapOps(w)' = GapOps(w)
  BY DEF GapOps, Op
<1>3. \A c : EqualOps(c)' = EqualOps(c)
  BY DEF EqualOps, Op
<1>4. \A s, n : GapBefore(s, n)' = GapBefore(s, n)
  BY DEF GapBefore
<1>5. \A n : Stretch(n)' = Stretch(n)
  BY <1>1, <1>2, <1>3, <1>4 DEF Stretch
<1> QED
  BY <1>1, <1>2, <1>4, <1>5 DEF Script

LEMMA ScriptStep == ScriptInv /\ [Next]_vars => ScriptInv'
<1> SUFFICES ASSUME ScriptInv, [Next]_vars
             PROVE  ScriptInv'
  OBVIOUS
<1>1. MInv'
  BY StartKeepsMatches, FillKeepsMatches, EndKeepsMatches, IdleKeepsMatches
     DEF ScriptInv, Next, Finished
<1>2. CASE StartSearch \/ FillRow \/ EndSearch
  <2>1. pc # "done" /\ pc' # "done" /\ diff_ops' = diff_ops
    BY <1>2 DEF StartSearch, FillRow, EndSearch
  <2> QED
    BY <1>1, <2>1 DEF ScriptInv
<1>3. CASE Compare
  <2>1. a' = a /\ b' = b /\ match_blocks' = match_blocks /\ work_queue' = <<>> /\ pc' = "done"
    BY <1>3 DEF Compare
  <2>2. diff_ops' = Script
    BY <1>3, Zenon DEF Compare, Script, Stretch
  <2>3. Script' = Script
    BY <2>1, ScriptKept
  <2> QED
    BY <1>1, <2>1, <2>2, <2>3 DEF ScriptInv
<1>4. CASE UNCHANGED vars
  <2>1. UNCHANGED <<pc, a, b, match_blocks, work_queue, diff_ops>>
    BY <1>4 DEF vars
  <2>2. Script' = Script
    BY <2>1, ScriptKept
  <2> QED
    BY <1>1, <2>1, <2>2 DEF ScriptInv
<1> QED
  BY <1>2, <1>3, <1>4 DEF Next, Finished

LEMMA ScriptInductive == Spec => []ScriptInv
<1>1. Init => ScriptInv
  BY InitMInv DEF Init, ScriptInv
<1> QED
  BY <1>1, ScriptStep, PTL DEF Spec

LEMMA SpellsAll ==
  ASSUME NEW ops \in Seq(OpType), NEW tags, NEW seq, Len(seq) \in Nat,
         SpellFrom(ops, tags, seq, 1, Len(seq) + 1)
  PROVE  Spell(ops, tags, seq)
<1>1. \A n \in Nat : Count(ops, tags, n) \in Nat
  BY CountStep
<1>2. Len(ops) \in Nat /\ DOMAIN ops = 1 .. Len(ops)
  OBVIOUS
<1>3. 1 + Count(ops, tags, Len(ops)) = Len(seq) + 1
  BY DEF SpellFrom
<1>4. Count(ops, tags, Len(ops)) = Len(seq)
  BY <1>1, <1>2, <1>3
<1>5. \A n \in DOMAIN ops : 1 + Count(ops, tags, n) - 1 = Count(ops, tags, n)
  BY <1>1, <1>2
<1> QED
  BY <1>4, <1>5 DEF Spell, SpellFrom

LEMMA TurnsAIntoBHere == ScriptInv => TurnsAIntoB
<1> SUFFICES ASSUME ScriptInv, pc = "done"
             PROVE  /\ Spell(diff_ops, {"Equal", "Delete"}, a)
                    /\ Spell(diff_ops, {"Equal", "Insert"}, b)
                    /\ \A n \in 1 .. Len(diff_ops) - 1 :
                         ~(diff_ops[n].tag = "Insert" /\ diff_ops[n + 1].tag = "Delete")
  BY DEF TurnsAIntoB
<1>1. Part(diff_ops, Window(1, 1, Len(a) + 1, Len(b) + 1))
  BY ScriptPart DEF ScriptInv
<1>2. /\ diff_ops \in Seq(OpType)
      /\ SpellFrom(diff_ops, Old, a, 1, Len(a) + 1)
      /\ SpellFrom(diff_ops, New, b, 1, Len(b) + 1)
      /\ Orderly(diff_ops)
  BY <1>1 DEF Part, Window
<1>3. Len(a) \in Nat /\ Len(b) \in Nat
  BY DEF ScriptInv, MInv, IInv, Shape
<1>4. Spell(diff_ops, Old, a) /\ Spell(diff_ops, New, b)
  BY <1>2, <1>3, SpellsAll
<1>5. \A n \in 1 .. Len(diff_ops) - 1 : n \in DOMAIN diff_ops /\ n + 1 \in DOMAIN diff_ops
  BY <1>2
<1> QED
  BY <1>2, <1>4, <1>5 DEF Old, New, Orderly

(***************************************************************************)
(* The operations turn a into b, for every pair of texts of any length:    *)
(* whatever order the blocks were found in, they are put in order, and     *)
(* with what lies between them they spell both texts from end to end.      *)
(***************************************************************************)
THEOREM DiffTurnsAIntoB == Spec => []TurnsAIntoB
BY ScriptInductive, TurnsAIntoBHere, PTL

LEMMA GapsHaveNoAnchorHere == ScriptInv => GapsHaveNoAnchor
<1> SUFFICES ASSUME ScriptInv, pc = "done", NEW n \in 1 .. Len(Sorted) + 1,
                    NEW g, g = GapBefore(Sorted, n),
                    NEW k \in g.a .. g.a_end - 1, NEW j \in g.b .. g.b_end - 1, a[k] = b[j],
                    ~Popular(a[k])
             PROVE  FALSE
  BY DEF GapsHaveNoAnchor
<1>1. PICK N \in Nat : N = Len(match_blocks)
  BY DEF ScriptInv, MInv, Matched
<1>2. /\ MInv /\ Sorted \in Seq(Matches) /\ Len(Sorted) = N /\ n \in 1 .. N + 1
      /\ \A p, m \in 1 .. N : p < m => Before(Extent(Sorted[p]), Extent(Sorted[m]))
      /\ \A c \in Range(match_blocks) : \E p \in 1 .. N : Sorted[p] = c
  BY <1>1, SortedBlocks DEF ScriptInv
<1>3. /\ g \in Proper
      /\ n # 1 => g.a = Extent(Sorted[n - 1]).a_end /\ g.b = Extent(Sorted[n - 1]).b_end
      /\ n <= N => g.a_end = Sorted[n].a /\ g.b_end = Sorted[n].b
  BY <1>1, <1>2, GapFits
<1>4. PICK ga, gb, ga_end, gb_end \in Nat :
         g.a = ga /\ g.b = gb /\ g.a_end = ga_end /\ g.b_end = gb_end
  BY <1>3, WindowFields
<1>5. PICK la, lb \in Nat :
         Len(a) = la /\ Len(b) = lb /\ DOMAIN a = 1 .. la /\ DOMAIN b = 1 .. lb
  BY DEF ScriptInv, MInv, IInv, Shape
<1>6. 1 <= ga /\ ga_end <= la + 1 /\ 1 <= gb /\ gb_end <= lb + 1
  BY <1>3, <1>4, <1>5, WindowFields
<1>7. k \in ga .. ga_end - 1 /\ j \in gb .. gb_end - 1
  BY <1>4
<1>8. /\ k \in Nat /\ ga <= k /\ k < ga_end /\ k \in 1 .. la
      /\ j \in Nat /\ gb <= j /\ j < gb_end /\ j \in 1 .. lb
  BY <1>6, <1>7
<1>9. j \in b_indices(a[k])
  BY <1>5, <1>8 DEF b_indices, Occurrences
<1>10. PICK m \in DOMAIN match_blocks : Bars(match_blocks[m], k, j)
  <2>1. pc = "done" /\ work_queue = <<>> /\ Covered
    BY DEF ScriptInv, MInv
  <2>2. DOMAIN work_queue = {}
    BY <2>1
  <2> QED
    BY <1>5, <1>8, <1>9, <2>1, <2>2 DEF Covered
<1>11. PICK p \in 1 .. N : Sorted[p] = match_blocks[m]
  BY <1>2 DEF Range
<1>12. \A q \in 1 .. N : Sorted[q].a \in Nat /\ Sorted[q].b \in Nat /\ Sorted[q].len \in Nat
  <2>1. \A q \in 1 .. N : Sorted[q] \in Matches
    BY <1>2
  <2> QED
    BY <2>1 DEF Matches, Extents
<1>13. PICK pa, pb, pl \in Nat : Sorted[p].a = pa /\ Sorted[p].b = pb /\ Sorted[p].len = pl
  BY <1>12
<1>14. ~(k < pa /\ j < pb) /\ ~(pa + pl <= k /\ pb + pl <= j)
  BY <1>10, <1>11, <1>13 DEF Bars
<1>15. \A q, r \in 1 .. N :
         q < r => /\ Sorted[q].a + Sorted[q].len <= Sorted[r].a
                  /\ Sorted[q].b + Sorted[q].len <= Sorted[r].b
  BY <1>2 DEF Before, Extent, Window
<1>16. p \in Nat /\ n \in Nat /\ 1 <= p /\ p <= N /\ 1 <= n /\ n <= N + 1
  BY <1>2
<1>17. CASE p < n
  <2>1. n # 1 /\ n - 1 \in 1 .. N /\ (p = n - 1 \/ p < n - 1)
    BY <1>16, <1>17
  <2>2. PICK qa, qb, ql \in Nat :
          Sorted[n - 1].a = qa /\ Sorted[n - 1].b = qb /\ Sorted[n - 1].len = ql
    BY <1>12, <2>1
  <2>3. ga = qa + ql /\ gb = qb + ql
    BY <1>3, <1>4, <2>1, <2>2 DEF Extent, Window
  <2>4. CASE p = n - 1
    BY <1>8, <1>13, <1>14, <2>2, <2>3, <2>4
  <2>5. CASE p < n - 1
    <3>1. pa + pl <= qa /\ pb + pl <= qb
      BY <1>13, <1>15, <2>1, <2>2, <2>5
    <3> QED
      BY <1>8, <1>14, <2>3, <3>1
  <2> QED
    BY <2>1, <2>4, <2>5
<1>18. CASE n <= p
  <2>1. n \in 1 .. N /\ n <= N /\ (p = n \/ n < p)
    BY <1>16, <1>18
  <2>2. PICK qa, qb, ql \in Nat : Sorted[n].a = qa /\ Sorted[n].b = qb /\ Sorted[n].len = ql
    BY <1>12, <2>1
  <2>3. ga_end = qa /\ gb_end = qb
    BY <1>3, <1>4, <2>1, <2>2
  <2>4. CASE p = n
    BY <1>8, <1>13, <1>14, <2>2, <2>3, <2>4
  <2>5. CASE n < p
    <3>1. qa + ql <= pa /\ qb + ql <= pb
      BY <1>13, <1>15, <2>1, <2>2, <2>5
    <3> QED
      BY <1>8, <1>14, <2>3, <3>1
  <2> QED
    BY <2>1, <2>4, <2>5
<1> QED
  BY <1>16, <1>17, <1>18

(***************************************************************************)
(* Nothing that could be matched is left in a gap, but for popular tokens: *)
(* every window is searched until it holds no run, and what is cut off a   *)
(* window on one side only is barred by the block found there.             *)
(***************************************************************************)
THEOREM NothingOverlooked == Spec => []GapsHaveNoAnchor
BY ScriptInductive, GapsHaveNoAnchorHere, PTL

LEMMA TypeOKHere == ScriptInv => TypeOK
<1> SUFFICES ASSUME ScriptInv
             PROVE  TypeOK
  OBVIOUS
<1>1. MInv /\ Shape
  BY DEF ScriptInv, MInv, IInv
<1>2. \A c \in Matches : c \in BlockType
  <2> SUFFICES ASSUME NEW c \in Matches
               PROVE  c \in BlockType
    OBVIOUS
  <2>1. /\ c \in [a : Nat, b : Nat, len : Nat] /\ 1 <= c.a /\ c.a + c.len <= Len(a) + 1
        /\ 1 <= c.b /\ c.b + c.len <= Len(b) + 1 /\ 0 < c.len
    BY DEF Matches, Extents
  <2>2. DOMAIN a = 1 .. Len(a) /\ DOMAIN b = 1 .. Len(b) /\ Len(a) \in Nat /\ Len(b) \in Nat
    BY <1>1 DEF Shape
  <2>3. c.a \in DOMAIN a /\ c.b \in DOMAIN b /\ c.len \in Nat \ {0}
    BY <2>1, <2>2
  <2> QED
    BY <2>1, <2>3 DEF BlockType
<1>3. longest \subseteq BlockType /\ match_blocks \in Seq(BlockType)
  BY <1>1, <1>2 DEF MInv, Matched
<1>4. ASSUME NEW row, RowOK(row), Bounded(row)
      PROVE  row \in RowType
  <2>1. row = [values |-> row.values, generations |-> row.generations, generation |-> row.generation]
    BY <1>4 DEF RowOK
  <2>2. Len(a) \in Nat
    BY <1>1 DEF Shape
  <2>3. row.values \in [DOMAIN b -> 0 .. Len(a)]
    BY <1>4, <2>2 DEF RowOK, Bounded
  <2>4. row.generations \in [DOMAIN b -> 0 .. MaxGeneration]
    BY <1>4, LimitsAssumption DEF RowOK
  <2>5. row.generation \in 1 .. MaxGeneration
    BY <1>4 DEF RowOK
  <2> QED
    BY <2>1, <2>3, <2>4, <2>5 DEF RowType
<1>5. last_row \in RowType /\ this_row \in RowType
  <2>1. RowOK(last_row) /\ Bounded(last_row) /\ RowOK(this_row) /\ Bounded(this_row)
    BY <1>1 DEF MInv, Shape
  <2> QED
    BY <1>4, <2>1
<1>6. work_queue \in Seq(WindowType) /\ window \in WindowType /\ i \in window.a .. window.a_end
  <2>1. Proper \subseteq WindowType
    BY DEF Proper
  <2>2. work_queue \in Seq(Proper) /\ window \in Proper /\ i \in window.a .. window.a_end
    BY <1>1 DEF Shape
  <2> QED
    BY <2>1, <2>2
<1>7. diff_ops \in Seq(OpType)
  <2>1. Script \in Seq(OpType)
    BY <1>1, ScriptPart DEF Part
  <2>2. CASE pc = "done"
    <3>1. diff_ops = Script
      BY <2>2 DEF ScriptInv
    <3> QED
      BY <2>1, <3>1, Zenon
  <2>3. CASE pc # "done"
    <3>1. diff_ops = <<>>
      BY <2>3 DEF ScriptInv
    <3> QED
      BY <3>1
  <2> QED
    BY <2>2, <2>3
<1> QED
  BY <1>1, <1>3, <1>5, <1>6, <1>7 DEF TypeOK, MInv

(***************************************************************************)
(* Every index is within its slice, the generation number within its       *)
(* width, and a row holds no length greater than that of a.                *)
(***************************************************************************)
THEOREM DifflibTypeCorrect == Spec => []TypeOK
BY ScriptInductive, TypeOKHere, PTL


-----------------------------------------------------------------------------
(* Every comparison ends                                                   *)

\* The tokens of a that no block covers yet.
Uncovered ==
  {n \in DOMAIN a : \A m \in DOMAIN match_blocks :
     n < match_blocks[m].a \/ match_blocks[m].a + match_blocks[m].len <= n}

\* A block takes at least one token and leaves at most two windows, and a window is
\* searched in as many steps as it has tokens, and two more.
Searches == 2 * Cardinality(Uncovered) + Len(work_queue)
Remaining ==
  Searches * (Len(a) + 3)
  + (IF pc = "search" THEN window.a_end - i + 1 ELSE 0)
  + (IF pc = "done" THEN 0 ELSE 1)

LEMMA Heavier ==
  ASSUME NEW u \in Nat, NEW v \in Nat, NEW w \in Nat
  PROVE  /\ u * w \in Nat
         /\ u <= v => u * w <= v * w
         /\ u + 1 = v => u * w + w = v * w
<1>1. u * w \in Nat /\ v * w \in Nat
  OBVIOUS
<1>2. ASSUME u <= v PROVE u * w <= v * w
  <2>1. PICK d \in Nat : v = u + d
    BY <1>2
  <2>2. v * w = u * w + d * w /\ d * w \in Nat
    BY <2>1
  <2> QED
    BY <1>1, <2>2
<1>3. ASSUME u + 1 = v PROVE u * w + w = v * w
  BY <1>3
<1> QED
  BY <1>1, <1>2, <1>3

LEMMA SearchesCount ==
  ASSUME IInv
  PROVE  Len(a) \in Nat /\ IsFiniteSet(Uncovered) /\ Cardinality(Uncovered) \in Nat /\ Searches \in Nat
<1>1. Len(a) \in Nat /\ Len(work_queue) \in Nat /\ DOMAIN a = 1 .. Len(a)
  BY LenProperties DEF IInv, Shape
<1>2. IsFiniteSet(1 .. Len(a))
  BY <1>1, FS_Interval
<1>3. Uncovered \subseteq 1 .. Len(a)
  BY <1>1 DEF Uncovered
<1>4. IsFiniteSet(Uncovered) /\ Cardinality(Uncovered) \in Nat
  BY <1>2, <1>3, FS_Subset, FS_CardinalityType
<1> QED
  BY <1>1, <1>4 DEF Searches

\* What a block covers was not covered before.
LEMMA BlockCovers ==
  ASSUME IInv, EndSearch
  PROVE  Searches' \in Nat /\ Searches' <= Searches
<1>1. pc = "search" /\ a' = a
  BY DEF EndSearch
<1>2. CASE longest = {}
  <2>1. match_blocks' = match_blocks /\ work_queue' = work_queue
    BY <1>2 DEF EndSearch
  <2>2. Searches' = Searches
    BY <1>1, <2>1 DEF Searches, Uncovered
  <2> QED
    BY <2>2, SearchesCount
<1>3. CASE longest # {}
  <2>1. PICK found \in longest :
          /\ match_blocks' = Append(match_blocks, Expanded(found))
          /\ work_queue' = work_queue \o Rest(Expanded(found))
    BY <1>3 DEF EndSearch
  <2>2. found \in Extents /\ found.len > 0 /\ IsAnchor(found.a, found.b, found.len) /\ Shape
    BY <1>1 DEF IInv, Longest
  <2>3. PICK block : block = Expanded(found)
    OBVIOUS
  <2>4. block \in Extents /\ Inside(Extent(block), window) /\ found.len <= block.len
    BY <2>2, <2>3, ExpandedInside
  <2>5. /\ block.a \in Nat /\ block.len \in Nat /\ block.len > 0
        /\ window.a <= block.a /\ block.a + block.len <= window.a_end
    BY <2>2, <2>4 DEF Extents, Inside, Extent, Window
  <2>6. /\ window.a \in Nat /\ 1 <= window.a /\ window.a_end \in Nat /\ window.a_end <= Len(a) + 1
        /\ Len(a) \in Nat /\ DOMAIN a = 1 .. Len(a)
    BY WindowFields, LenProperties DEF IInv, Shape
  <2>7. block.a \in DOMAIN a
    BY <2>5, <2>6
  <2>8. /\ match_blocks \in Seq(Extents) /\ Len(match_blocks) \in Nat
        /\ DOMAIN match_blocks = 1 .. Len(match_blocks)
    BY LenProperties DEF IInv, Shape
  <2>9. /\ DOMAIN match_blocks' = 1 .. Len(match_blocks) + 1
        /\ \A n \in 1 .. Len(match_blocks) : match_blocks'[n] = match_blocks[n]
        /\ match_blocks'[Len(match_blocks) + 1] = block
    BY <2>1, <2>3, <2>4, <2>8, AppendProperties
  <2>10. block.a \in Uncovered
    <3> SUFFICES ASSUME NEW m \in DOMAIN match_blocks
                 PROVE  block.a < match_blocks[m].a \/ match_blocks[m].a + match_blocks[m].len <= block.a
      BY <2>7 DEF Uncovered
    <3>1. Apart(Extent(match_blocks[m]), window)
      BY <1>1 DEF IInv, Separate
    <3>2. match_blocks[m] \in Extents
      BY <2>8
    <3> QED
      BY <2>5, <2>6, <3>1, <3>2 DEF Apart, Before, Extent, Window, Extents
  <2>11. Uncovered' \subseteq Uncovered \ {block.a}
    <3> SUFFICES ASSUME NEW n \in Uncovered' PROVE n \in Uncovered /\ n # block.a
      OBVIOUS
    <3>1. n \in DOMAIN a /\ \A m \in DOMAIN match_blocks' :
            n < match_blocks'[m].a \/ match_blocks'[m].a + match_blocks'[m].len <= n
      BY <1>1 DEF Uncovered
    <3>2. n \in Uncovered
      BY <2>8, <2>9, <3>1 DEF Uncovered
    <3>3. n < block.a \/ block.a + block.len <= n
      BY <2>8, <2>9, <3>1
    <3> QED
      BY <2>5, <3>2, <3>3
  <2>12. Cardinality(Uncovered') <= Cardinality(Uncovered) - 1 /\ Cardinality(Uncovered') \in Nat
    <3>1. IsFiniteSet(Uncovered) /\ Cardinality(Uncovered) \in Nat
      BY SearchesCount
    <3>2. /\ IsFiniteSet(Uncovered \ {block.a})
          /\ Cardinality(Uncovered \ {block.a}) = Cardinality(Uncovered) - 1
      BY <2>10, <3>1, FS_RemoveElement
    <3> QED
      BY <2>11, <3>1, <3>2, FS_Subset, FS_CardinalityType
  <2>13. Len(work_queue') <= Len(work_queue) + 2 /\ Len(work_queue') \in Nat /\ Len(work_queue) \in Nat
    <3>1. Rest(block) \in Seq(Proper)
      BY <2>2, <2>4, RestApart
    <3>2. Len(Rest(block)) <= 2 /\ Len(Rest(block)) \in Nat
      BY <3>1, LenProperties DEF Rest, Worthwhile
    <3>3. Len(work_queue') = Len(work_queue) + Len(Rest(block)) /\ Len(work_queue) \in Nat
      BY <2>1, <2>3, <3>1, ConcatProperties, LenProperties DEF IInv, Shape
    <3> QED
      BY <3>2, <3>3
  <2> QED
    BY <2>12, <2>13, SearchesCount DEF Searches
<1> QED
  BY <1>2, <1>3

LEMMA RemainingIsNumber == IInv => Remaining \in Nat
<1> SUFFICES ASSUME IInv PROVE Remaining \in Nat
  OBVIOUS
<1>1. Searches * (Len(a) + 3) \in Nat
  BY SearchesCount, Heavier
<1>2. window.a_end \in Nat /\ i \in Nat /\ i <= window.a_end
  BY WindowFields DEF IInv, Shape
<1> QED
  BY <1>1, <1>2 DEF Remaining

\* Each step searches one token more, takes a window off the queue or ends a search.
LEMMA StepCounts ==
  ASSUME IInv, [Next]_vars
  PROVE  [Remaining' < Remaining]_vars
<1> DEFINE W == Len(a) + 3
           Within == IF pc = "search" THEN window.a_end - i + 1 ELSE 0
           ToCompare == IF pc = "done" THEN 0 ELSE 1
<1>1. Searches \in Nat /\ W \in Nat /\ Len(a) \in Nat
  BY SearchesCount
<1>2. /\ window.a \in Nat /\ window.a_end \in Nat /\ i \in Nat /\ window.a <= i /\ i <= window.a_end
      /\ window.a_end <= Len(a) + 1
  BY WindowFields DEF IInv, Shape
<1>3. Within \in Nat /\ ToCompare \in Nat
  BY <1>2
<1>4. Remaining = Searches * W + Within + ToCompare
  BY DEF Remaining
<1>5. Searches * W \in Nat
  BY <1>1, Heavier
<1>6. CASE StartSearch
  <2>1. /\ pc = "next" /\ pc' = "search" /\ a' = a /\ work_queue # <<>> /\ match_blocks' = match_blocks
        /\ work_queue' = Front(work_queue) /\ window' = Last(work_queue) /\ i' = window'.a
    BY <1>6 DEF StartSearch
  <2>2. /\ work_queue \in Seq(Proper) /\ Len(work_queue) \in Nat /\ Len(work_queue) > 0
        /\ DOMAIN work_queue = 1 .. Len(work_queue)
    BY <2>1, LenProperties, EmptySeq DEF IInv, Shape
  <2>3. window' \in Proper
    BY <2>1, <2>2 DEF Last
  <2>4. Len(work_queue') + 1 = Len(work_queue) /\ Len(work_queue') \in Nat
    BY <2>1, <2>2, SubSeqProperties, EmptySeq DEF Front
  <2>5. Uncovered' = Uncovered
    BY <2>1 DEF Uncovered
  <2>6. Searches' + 1 = Searches /\ Searches' \in Nat
    BY <2>4, <2>5, SearchesCount DEF Searches
  <2>7. /\ window'.a \in Nat /\ window'.a_end \in Nat /\ 1 <= window'.a
        /\ window'.a_end <= Len(a) + 1 /\ window'.a <= window'.a_end
    BY <2>3, WindowFields
  <2>8. Within' \in Nat /\ Within' <= Len(a) + 1
    BY <1>1, <2>1, <2>7
  <2>9. Within = 0 /\ ToCompare = 1 /\ ToCompare' = 1
    BY <2>1
  <2>10. W' = W
    BY <2>1
  <2>11. Remaining' = Searches' * W + Within' + ToCompare'
    BY <2>10 DEF Remaining
  <2>12. Searches' * W + W = Searches * W /\ Searches' * W \in Nat
    <3>1. Searches' \in Nat
      BY <2>6
    <3>2. Searches \in Nat
      BY <1>1
    <3>3. W \in Nat
      BY <1>1
    <3>4. Searches' + 1 = Searches
      BY <2>6
    <3> HIDE DEF W
    <3> QED
      BY <3>1, <3>2, <3>3, <3>4, Heavier, Zenon
  <2>13. W = Len(a) + 3
    OBVIOUS
  <2> HIDE DEF W, Within, ToCompare
  <2> QED
    BY <1>1, <1>4, <1>5, <2>8, <2>9, <2>11, <2>12, <2>13
<1>7. CASE FillRow
  <2>1. /\ pc = "search" /\ pc' = pc /\ a' = a /\ i < window.a_end /\ i' = i + 1 /\ window' = window
        /\ work_queue' = work_queue /\ match_blocks' = match_blocks
    BY <1>7 DEF FillRow
  <2>2. Searches' = Searches /\ W' = W /\ ToCompare' = ToCompare
    BY <2>1 DEF Searches, Uncovered
  <2>3. Within' < Within /\ Within' \in Nat
    BY <1>2, <2>1
  <2>4. Remaining' = Searches * W + Within' + ToCompare
    BY <2>2 DEF Remaining
  <2> HIDE DEF W, Within, ToCompare
  <2> QED
    BY <1>3, <1>4, <1>5, <2>3, <2>4
<1>8. CASE EndSearch
  <2>1. /\ pc = "search" /\ pc' = "next" /\ a' = a
    BY <1>8 DEF EndSearch
  <2>2. Searches' <= Searches
    BY <1>8, BlockCovers
  <2>4. Searches' \in Nat
    BY <1>8, BlockCovers
  <2>5. Searches' * W <= Searches * W /\ Searches' * W \in Nat
    BY <1>1, <2>2, <2>4, Heavier
  <2>6. W' = W /\ ToCompare' = ToCompare /\ Within' = 0 /\ Within > 0
    BY <1>2, <2>1
  <2>7. Remaining' = Searches' * W + Within' + ToCompare
    BY <2>6 DEF Remaining
  <2> HIDE DEF W, Within, ToCompare
  <2> QED
    BY <1>3, <1>4, <1>5, <2>5, <2>6, <2>7
<1>9. CASE Compare
  <2>1. /\ pc = "next" /\ pc' = "done" /\ a' = a /\ work_queue' = work_queue /\ match_blocks' = match_blocks
    BY <1>9 DEF Compare
  <2>2. Searches' = Searches /\ W' = W /\ Within' = Within /\ ToCompare' = 0 /\ ToCompare = 1
    BY <2>1 DEF Searches, Uncovered
  <2>3. Remaining' = Searches * W + Within + 0
    BY <2>2 DEF Remaining
  <2> HIDE DEF W, Within, ToCompare
  <2> QED
    BY <1>3, <1>4, <1>5, <2>2, <2>3
<1> QED
  BY <1>6, <1>7, <1>8, <1>9 DEF Next, Finished

(***************************************************************************)
(* Every step of a comparison brings its end nearer, whatever the texts    *)
(* and whichever tokens are popular: the windows get smaller, and there    *)
(* are never more of them than the tokens that are left allow.             *)
(***************************************************************************)
THEOREM EverySearchCounts == Spec => [](Remaining \in Nat) /\ [][Remaining' < Remaining]_vars
<1>1. IInv => Remaining \in Nat
  BY RemainingIsNumber
<1>2. IInv /\ [Next]_vars => [Remaining' < Remaining]_vars
  BY StepCounts
<1> QED
  BY <1>1, <1>2, Inductive, PTL DEF Spec
=============================================================================
