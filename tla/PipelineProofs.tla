---------------------------- MODULE PipelineProofs ----------------------------
(***************************************************************************)
(* Proofs about Pipeline for every dump, limit and format, every number of *)
(* workers and every channel size, with and without failing writes: no     *)
(* accepted page is lost, success means that all pages are settled, the    *)
(* output is a document, no page is at two places, the pipeline is a page  *)
(* stream, no thread can be stuck but after a failed write, and every step *)
(* brings the end of the run nearer.                                       *)
(***************************************************************************)
EXTENDS Pipeline, SequenceTheorems, FiniteSetTheorems, TLAPS

-----------------------------------------------------------------------------
(* The output                                                              *)

\* The items of an output of a dump's first n pages; a mark has page 0.
Items(n) == [kind : {"page", "part", "open", "comma", "close", "newline"}, page : 0 .. n]

\* The pieces appended to the output.
LEMMA Pieces ==
  ASSUME NEW S, NEW s \in Seq(S), NEW x \in S, NEW y \in S
  PROVE  /\ Len(s) \in Nat
         /\ s \o <<>> = s
         /\ Len(s \o <<x>>) = Len(s) + 1 /\ DOMAIN (s \o <<x>>) = 1 .. Len(s) + 1
         /\ \A n \in 1 .. Len(s) : (s \o <<x>>)[n] = s[n]
         /\ (s \o <<x>>)[Len(s) + 1] = x
         /\ Len(s \o <<x, y>>) = Len(s) + 2 /\ DOMAIN (s \o <<x, y>>) = 1 .. Len(s) + 2
         /\ \A n \in 1 .. Len(s) : (s \o <<x, y>>)[n] = s[n]
         /\ (s \o <<x, y>>)[Len(s) + 1] = x
         /\ (s \o <<x, y>>)[Len(s) + 2] = y
<1>1. /\ <<>> \in Seq(S) /\ <<x>> \in Seq(S) /\ <<x, y>> \in Seq(S)
      /\ Len(<<x>>) = 1 /\ Len(<<x, y>>) = 2
      /\ <<x>>[1] = x /\ <<x, y>>[1] = x /\ <<x, y>>[2] = y
  OBVIOUS
<1>2. Len(s) \in Nat /\ s \o <<>> = s
  BY LenProperties, ConcatEmptySeq
<1>3. /\ s \o <<x>> \in Seq(S) /\ Len(s \o <<x>>) = Len(s) + 1
      /\ s \o <<x, y>> \in Seq(S) /\ Len(s \o <<x, y>>) = Len(s) + 2
      /\ \A n \in 1 .. Len(s) + 1 :
           (s \o <<x>>)[n] = IF n <= Len(s) THEN s[n] ELSE <<x>>[n - Len(s)]
      /\ \A n \in 1 .. Len(s) + 2 :
           (s \o <<x, y>>)[n] = IF n <= Len(s) THEN s[n] ELSE <<x, y>>[n - Len(s)]
  BY <1>1, ConcatProperties
<1>4. /\ DOMAIN (s \o <<x>>) = 1 .. Len(s) + 1
      /\ DOMAIN (s \o <<x, y>>) = 1 .. Len(s) + 2
  BY <1>3, LenProperties
<1> QED
  BY <1>1, <1>2, <1>3, <1>4

\* Concatenation, for the output.
LEMMA PagesOfConcat ==
  ASSUME NEW S, NEW s \in Seq(S), NEW t \in Seq(S)
  PROVE  s \o t \in Seq(S) /\ Pages(s \o t) = Pages(s) \cup Pages(t)
<1>1. s \o t \in Seq(S)
  BY ConcatProperties
<1>2. Range(s \o t) = Range(s) \cup Range(t)
  BY RangeConcatenation
<1> QED
  BY <1>1, <1>2 DEF Pages

\* The pages of the pieces the output is made of.
LEMMA PagesOfPieces ==
  ASSUME NEW S, NEW i \in S, NEW j \in S
  PROVE  /\ <<>> \in Seq(S) /\ Pages(<<>>) = {}
         /\ <<i>> \in Seq(S)
         /\ i.kind = "page" => Pages(<<i>>) = {i.page}
         /\ i.kind # "page" => Pages(<<i>>) = {}
         /\ <<i, j>> \in Seq(S)
         /\ i.kind # "page" => Pages(<<i, j>>) = Pages(<<j>>)
         /\ j.kind # "page" => Pages(<<i, j>>) = Pages(<<i>>)
<1>1. Range(<<>>) = {} /\ Range(<<i>>) = {i} /\ Range(<<j>>) = {j} /\ Range(<<i, j>>) = {i, j}
  <2>1. /\ DOMAIN <<>> = {} /\ DOMAIN <<i>> = {1} /\ DOMAIN <<j>> = {1}
        /\ DOMAIN <<i, j>> = {1, 2}
        /\ <<i>>[1] = i /\ <<j>>[1] = j /\ <<i, j>>[1] = i /\ <<i, j>>[2] = j
    OBVIOUS
  <2> QED
    BY <2>1 DEF Range
<1>2. \A x : {y \in {x} : y.kind = "page"} = IF x.kind = "page" THEN {x} ELSE {}
  OBVIOUS
<1>3. \A x : {y.page : y \in {x}} = {x.page}
  OBVIOUS
<1>4. {y.page : y \in {}} = {}
  OBVIOUS
<1>5. Pages(<<>>) = {}
  BY <1>1, <1>4 DEF Pages
<1>6. /\ i.kind = "page" => Pages(<<i>>) = {i.page}
      /\ i.kind # "page" => Pages(<<i>>) = {}
  BY <1>1, <1>2, <1>3, <1>4 DEF Pages
<1>7. i.kind # "page" => {y \in {i, j} : y.kind = "page"} = {y \in {j} : y.kind = "page"}
  OBVIOUS
<1>8. j.kind # "page" => {y \in {i, j} : y.kind = "page"} = {y \in {i} : y.kind = "page"}
  OBVIOUS
<1>9. /\ i.kind # "page" => Pages(<<i, j>>) = Pages(<<j>>)
      /\ j.kind # "page" => Pages(<<i, j>>) = Pages(<<i>>)
  BY <1>1, <1>7, <1>8 DEF Pages
<1>10. <<>> \in Seq(S) /\ <<i>> \in Seq(S) /\ <<i, j>> \in Seq(S)
  OBVIOUS
<1> QED
  BY <1>5, <1>6, <1>9, <1>10

LEMMA ItemsAre ==
  ASSUME NEW n \in Nat
  PROVE  /\ \A m \in {"part", "open", "comma", "close", "newline"} :
              Mark(m) \in Items(n) /\ Mark(m).kind # "page"
         /\ \A p \in 1 .. n :
              /\ PageItem(p) \in Items(n)
              /\ PageItem(p).kind = "page" /\ PageItem(p).page = p
<1>1. ASSUME NEW m \in {"part", "open", "comma", "close", "newline"}
      PROVE  Mark(m) \in Items(n) /\ Mark(m).kind # "page"
  <2>1. 0 \in 0 .. n /\ m # "page"
    OBVIOUS
  <2> QED
    BY <2>1 DEF Mark, Items
<1>2. ASSUME NEW p \in 1 .. n
      PROVE  PageItem(p) \in Items(n) /\ PageItem(p).kind = "page" /\ PageItem(p).page = p
  <2>1. p \in 0 .. n
    OBVIOUS
  <2> QED
    BY <2>1 DEF PageItem, Items
<1> QED
  BY <1>1, <1>2

\* Only write_page_result adds a page to the output.
LEMMA OutputPages ==
  ASSUME NEW j \in JobKind, NEW n \in Nat, NEW out \in Seq(Items(n)), NEW count \in Nat
  PROVE  /\ out \o OpenOutput(j) \in Seq(Items(n))
         /\ Pages(out \o OpenOutput(j)) = Pages(out)
         /\ out \o CloseOutput(j) \in Seq(Items(n))
         /\ Pages(out \o CloseOutput(j)) = Pages(out)
         /\ \A p \in 1 .. n :
              /\ WritePageResult(j, out, p, count) \in Seq(Items(n))
              /\ Pages(WritePageResult(j, out, p, count)) = Pages(out) \cup {p}
<1>1. j.format \in {"json", "lines"}
  BY DEF JobKind
<1>2. \A m \in {"part", "open", "comma", "close", "newline"} :
        Mark(m) \in Items(n) /\ Mark(m).kind # "page"
  BY ItemsAre
<1>4. OpenOutput(j) \in Seq(Items(n)) /\ Pages(OpenOutput(j)) = {}
  BY <1>1, <1>2, PagesOfPieces DEF OpenOutput
<1>5. CloseOutput(j) \in Seq(Items(n)) /\ Pages(CloseOutput(j)) = {}
  BY <1>1, <1>2, PagesOfPieces DEF CloseOutput
<1>6. ASSUME NEW p \in 1 .. n
      PROVE  /\ <<PageItem(p)>> \in Seq(Items(n)) /\ Pages(<<PageItem(p)>>) = {p}
             /\ <<Mark("comma"), PageItem(p)>> \in Seq(Items(n))
             /\ Pages(<<Mark("comma"), PageItem(p)>>) = {p}
             /\ <<PageItem(p), Mark("newline")>> \in Seq(Items(n))
             /\ Pages(<<PageItem(p), Mark("newline")>>) = {p}
  <2>1. /\ PageItem(p) \in Items(n) /\ PageItem(p).kind = "page" /\ PageItem(p).page = p
        /\ Mark("comma") \in Items(n) /\ Mark("comma").kind # "page"
        /\ Mark("newline") \in Items(n) /\ Mark("newline").kind # "page"
    BY ItemsAre
  <2>2. ASSUME NEW x \in Items(n), NEW y \in Items(n)
        PROVE  /\ <<x>> \in Seq(Items(n)) /\ <<x, y>> \in Seq(Items(n))
               /\ x.kind = "page" => Pages(<<x>>) = {x.page}
               /\ x.kind # "page" => Pages(<<x, y>>) = Pages(<<y>>)
               /\ y.kind # "page" => Pages(<<x, y>>) = Pages(<<x>>)
    BY PagesOfPieces
  <2>3. <<PageItem(p)>> \in Seq(Items(n)) /\ Pages(<<PageItem(p)>>) = {p}
    BY <2>1, <2>2
  <2>4. /\ <<Mark("comma"), PageItem(p)>> \in Seq(Items(n))
        /\ Pages(<<Mark("comma"), PageItem(p)>>) = Pages(<<PageItem(p)>>)
    BY <2>1, <2>2
  <2>5. /\ <<PageItem(p), Mark("newline")>> \in Seq(Items(n))
        /\ Pages(<<PageItem(p), Mark("newline")>>) = Pages(<<PageItem(p)>>)
    BY <2>1, <2>2
  <2> QED
    BY <2>3, <2>4, <2>5
<1>7. ASSUME NEW p \in 1 .. n
       PROVE  /\ WritePageResult(j, out, p, count) \in Seq(Items(n))
              /\ Pages(WritePageResult(j, out, p, count)) = Pages(out) \cup {p}
  <2>1. PICK t \in Seq(Items(n)) :
          Pages(t) = {p} /\ WritePageResult(j, out, p, count) = out \o t
    <3>1. CASE j.format = "lines"
      BY <3>1, <1>6 DEF WritePageResult
    <3>2. CASE j.format = "json" /\ count = 0
      BY <3>2, <1>6 DEF WritePageResult
    <3>3. CASE j.format = "json" /\ count # 0
      <4>1. count > 0
        BY <3>3, <1>1
      <4> QED
        BY <3>3, <4>1, <1>6 DEF WritePageResult
    <3> QED
      BY <1>1, <3>1, <3>2, <3>3
  <2> QED
    BY <1>1, PagesOfConcat, <2>1
<1>8. /\ out \o OpenOutput(j) \in Seq(Items(n))
      /\ Pages(out \o OpenOutput(j)) = Pages(out)
      /\ out \o CloseOutput(j) \in Seq(Items(n))
      /\ Pages(out \o CloseOutput(j)) = Pages(out)
  <2>1. \A t \in Seq(Items(n)) :
          out \o t \in Seq(Items(n)) /\ Pages(out \o t) = Pages(out) \cup Pages(t)
    BY <1>1, PagesOfConcat
  <2> QED
    BY <2>1, <1>4, <1>5
<1> QED
  BY <1>7, <1>8

\* A write that is refused adds no page to the output.
LEMMA RefusedPages ==
  ASSUME NEW j \in JobKind, NEW n \in Nat, NEW out \in Seq(Items(n)), NEW count \in Nat
  PROVE  \A new \in RefusedPage(j, out, count) \cup RefusedClose(j, out) :
           new \in Seq(Items(n)) /\ Pages(new) = Pages(out)
<1>1. ASSUME NEW m \in {"part", "comma"}, NEW s \in Seq(Items(n))
      PROVE  s \o <<Mark(m)>> \in Seq(Items(n)) /\ Pages(s \o <<Mark(m)>>) = Pages(s)
  <2>1. Mark(m) \in Items(n) /\ Mark(m).kind # "page"
    BY ItemsAre
  <2>2. <<Mark(m)>> \in Seq(Items(n)) /\ Pages(<<Mark(m)>>) = {}
    BY <2>1, PagesOfPieces
  <2>3. /\ s \o <<Mark(m)>> \in Seq(Items(n))
        /\ Pages(s \o <<Mark(m)>>) = Pages(s) \cup Pages(<<Mark(m)>>)
    <3>1. PICK t \in Seq(Items(n)) : t = <<Mark(m)>>
      BY <2>2
    <3>2. s \o t \in Seq(Items(n)) /\ Pages(s \o t) = Pages(s) \cup Pages(t)
      BY PagesOfConcat
    <3> QED
      BY <3>1, <3>2
  <2> QED
    BY <2>2, <2>3
<1>2. /\ out \o <<Mark("comma")>> \in Seq(Items(n))
      /\ Pages(out \o <<Mark("comma")>>) = Pages(out)
  BY <1>1
<1>3. /\ (out \o <<Mark("comma")>>) \o <<Mark("part")>> \in Seq(Items(n))
      /\ Pages((out \o <<Mark("comma")>>) \o <<Mark("part")>>) = Pages(out)
  BY <1>1, <1>2
<1>4. /\ out \o <<Mark("part")>> \in Seq(Items(n))
      /\ Pages(out \o <<Mark("part")>>) = Pages(out)
  BY <1>1
<1>5. out \o CloseOutput(j) \in Seq(Items(n)) /\ Pages(out \o CloseOutput(j)) = Pages(out)
  BY OutputPages
<1> QED
  BY <1>2, <1>3, <1>4, <1>5 DEF RefusedPage, RefusedClose

-----------------------------------------------------------------------------
(* The document                                                            *)

\* out is what is written of a document with count pages before it is closed.
IsBody(j, out, count) ==
  /\ j.format = "json" =>
       /\ Len(out) = IF count = 0 THEN 1 ELSE 2 * count
       /\ out[1] = Mark("open")
       /\ \A n \in 2 .. Len(out) :
            IF n % 2 = 0 THEN out[n].kind = "page" ELSE out[n] = Mark("comma")
  /\ j.format = "lines" =>
       /\ Len(out) = 2 * count
       /\ \A n \in 1 .. Len(out) :
            IF n % 2 = 1 THEN out[n].kind = "page" ELSE out[n] = Mark("newline")

LEMMA OpenedBody ==
  ASSUME NEW j \in JobKind
  PROVE  IsBody(j, OpenOutput(j), 0)
<1>1. /\ j.format = "json" => OpenOutput(j) = <<Mark("open")>>
      /\ j.format = "lines" => OpenOutput(j) = <<>>
  BY DEF OpenOutput
<1> QED
  BY <1>1 DEF IsBody

\* A page goes after the pages that are there, with what separates them.
LEMMA WrittenBody ==
  ASSUME NEW j \in JobKind, NEW m \in Nat, NEW out \in Seq(Items(m)), NEW count \in Nat,
         IsBody(j, out, count), NEW p \in 1 .. m
  PROVE  IsBody(j, WritePageResult(j, out, p, count), count + 1)
<1> DEFINE new == WritePageResult(j, out, p, count)
<1>1. j.format \in {"json", "lines"} /\ Len(out) \in Nat
  BY LenProperties DEF JobKind
<1>2. /\ PageItem(p) \in Items(m) /\ PageItem(p).kind = "page"
      /\ Mark("comma") \in Items(m) /\ Mark("newline") \in Items(m)
  BY ItemsAre
<1>3. CASE j.format = "lines"
  <2>1. new = out \o <<PageItem(p), Mark("newline")>>
    BY <1>3 DEF WritePageResult
  <2> HIDE DEF new
  <2>2. /\ Len(new) = Len(out) + 2
        /\ \A n \in 1 .. Len(out) : new[n] = out[n]
        /\ new[Len(out) + 1] = PageItem(p)
        /\ new[Len(out) + 2] = Mark("newline")
    BY <2>1, <1>1, <1>2, Pieces
  <2>3. /\ Len(out) = 2 * count
        /\ \A n \in 1 .. Len(out) :
             IF n % 2 = 1 THEN out[n].kind = "page" ELSE out[n] = Mark("newline")
    BY <1>3 DEF IsBody
  <2>4. (Len(out) + 1) % 2 = 1 /\ (Len(out) + 2) % 2 = 0
    BY <2>3, <1>1
  <2>5. \A n \in 1 .. Len(out) + 2 :
          IF n % 2 = 1 THEN new[n].kind = "page" ELSE new[n] = Mark("newline")
    <3>1. \A n \in 1 .. Len(out) + 2 :
            n \in 1 .. Len(out) \/ n = Len(out) + 1 \/ n = Len(out) + 2
      BY <1>1
    <3> QED
      BY <2>2, <2>3, <2>4, <3>1, <1>2
  <2>6. Len(new) = 2 * (count + 1)
    BY <2>2, <2>3, <1>1
  <2>7. IsBody(j, new, count + 1)
    BY <1>3, <2>2, <2>5, <2>6 DEF IsBody
  <2> QED
    BY <2>7 DEF new
<1>4. CASE j.format = "json" /\ count = 0
  <2>1. new = out \o <<PageItem(p)>>
    BY <1>4 DEF WritePageResult
  <2> HIDE DEF new
  <2>2. /\ Len(out) = 1 /\ out[1] = Mark("open")
    BY <1>4 DEF IsBody
  <2>3. /\ Len(new) = 2 /\ new[1] = Mark("open") /\ new[2] = PageItem(p)
    <3>1. /\ Len(new) = Len(out) + 1
          /\ \A n \in 1 .. Len(out) : new[n] = out[n]
          /\ new[Len(out) + 1] = PageItem(p)
      BY <2>1, <1>1, <1>2, Pieces
    <3> QED
      BY <2>2, <3>1
  <2>4. \A n \in 2 .. Len(new) : n = 2
    BY <2>3
  <2>5. IsBody(j, new, count + 1)
    BY <1>2, <1>4, <2>3, <2>4 DEF IsBody
  <2> QED
    BY <2>5 DEF new
<1>5. CASE j.format = "json" /\ count # 0
  <2>1. new = out \o <<Mark("comma"), PageItem(p)>>
    <3>1. count > 0
      BY <1>5
    <3> QED
      BY <1>5, <3>1 DEF WritePageResult
  <2> HIDE DEF new
  <2>2. /\ Len(new) = Len(out) + 2
        /\ \A n \in 1 .. Len(out) : new[n] = out[n]
        /\ new[Len(out) + 1] = Mark("comma")
        /\ new[Len(out) + 2] = PageItem(p)
    BY <2>1, <1>1, <1>2, Pieces
  <2>3. /\ Len(out) = 2 * count /\ out[1] = Mark("open")
        /\ \A n \in 2 .. Len(out) :
             IF n % 2 = 0 THEN out[n].kind = "page" ELSE out[n] = Mark("comma")
    BY <1>5 DEF IsBody
  <2>4. (Len(out) + 1) % 2 = 1 /\ (Len(out) + 2) % 2 = 0
    BY <2>3, <1>1
  <2>5. \A n \in 2 .. Len(out) + 2 :
          IF n % 2 = 0 THEN new[n].kind = "page" ELSE new[n] = Mark("comma")
    <3> SUFFICES ASSUME NEW n \in 2 .. Len(out) + 2
                 PROVE  IF n % 2 = 0 THEN new[n].kind = "page" ELSE new[n] = Mark("comma")
      OBVIOUS
    <3>1. CASE n \in 2 .. Len(out)
      <4>1. n \in 1 .. Len(out)
        BY <1>1, <3>1
      <4>2. new[n] = out[n]
        BY <2>2, <4>1
      <4> QED
        BY <2>3, <3>1, <4>2
    <3>2. CASE n = Len(out) + 1
      BY <2>2, <2>4, <3>2
    <3>3. CASE n = Len(out) + 2
      BY <1>2, <2>2, <2>4, <3>3
    <3> QED
      BY <1>1, <3>1, <3>2, <3>3
  <2>6. Len(new) = 2 * (count + 1) /\ count + 1 # 0 /\ new[1] = Mark("open")
    BY <2>2, <2>3, <1>5, <1>1
  <2>7. IsBody(j, new, count + 1)
    BY <1>5, <2>2, <2>5, <2>6 DEF IsBody
  <2> QED
    BY <2>7 DEF new
<1> QED
  BY <1>1, <1>3, <1>4, <1>5

LEMMA ClosedBody ==
  ASSUME NEW j \in JobKind, NEW m \in Nat, NEW out \in Seq(Items(m)), NEW count \in Nat,
         IsBody(j, out, count)
  PROVE  IsDocument(j, out \o CloseOutput(j))
<1>1. j.format \in {"json", "lines"} /\ Len(out) \in Nat /\ DOMAIN out = 1 .. Len(out)
  BY LenProperties DEF JobKind
<1>2. CASE j.format = "json"
  <2> DEFINE new == out \o CloseOutput(j)
  <2>1. new = out \o <<Mark("close")>>
    BY <1>2 DEF CloseOutput
  <2> HIDE DEF new
  <2>2. /\ Len(out) = IF count = 0 THEN 1 ELSE 2 * count
        /\ out[1] = Mark("open")
        /\ \A n \in 2 .. Len(out) :
             IF n % 2 = 0 THEN out[n].kind = "page" ELSE out[n] = Mark("comma")
    BY <1>2 DEF IsBody
  <2>3. /\ Len(new) = Len(out) + 1
        /\ \A n \in 1 .. Len(out) : new[n] = out[n]
        /\ new[Len(out) + 1] = Mark("close")
    BY <2>1, <1>1, ItemsAre, Pieces
  <2>4. Len(new) >= 2 /\ (Len(new) = 2 \/ Len(new) % 2 = 1) /\ Len(out) >= 1
    BY <2>2, <2>3, <1>1
  <2>5. \A n \in 2 .. Len(new) - 1 :
          IF n % 2 = 0 THEN new[n].kind = "page" ELSE new[n] = Mark("comma")
    BY <2>2, <2>3, <1>1
  <2>6. IsDocument(j, new)
    BY <1>2, <2>2, <2>3, <2>4, <2>5, <1>1 DEF IsDocument
  <2> QED
    BY <2>6 DEF new
<1>3. CASE j.format = "lines"
  <2>1. out \o CloseOutput(j) = out
    BY <1>3, ConcatEmptySeq DEF CloseOutput
  <2>2. /\ Len(out) = 2 * count
        /\ \A n \in 1 .. Len(out) :
             IF n % 2 = 1 THEN out[n].kind = "page" ELSE out[n] = Mark("newline")
    BY <1>3 DEF IsBody
  <2>3. Len(out) % 2 = 0
    BY <2>2, <1>1
  <2> QED
    BY <1>1, <1>3, <2>1, <2>2, <2>3 DEF IsDocument
<1> QED
  BY <1>1, <1>2, <1>3

\* A document may be cut off before it is closed, and in a page.
LEMMA BegunBody ==
  ASSUME NEW j \in JobKind, NEW m \in Nat, NEW out \in Seq(Items(m)), NEW count \in Nat,
         IsBody(j, out, count)
  PROVE  /\ BeginsDocument(j, out)
         /\ \A new \in RefusedPage(j, out, count) \cup RefusedClose(j, out) :
              BeginsDocument(j, new)
<1>1. j.format \in {"json", "lines"} /\ Len(out) \in Nat /\ DOMAIN out = 1 .. Len(out)
  BY LenProperties DEF JobKind
<1>2. \A k \in {"part", "comma", "close"} : Mark(k) \in Items(m)
  BY ItemsAre
<1>3. ASSUME NEW s \in Seq(Items(m)), NEW k \in {"part", "comma", "close"}
      PROVE  /\ s \o <<Mark(k)>> \in Seq(Items(m))
             /\ Len(s \o <<Mark(k)>>) = Len(s) + 1
             /\ DOMAIN (s \o <<Mark(k)>>) = 1 .. Len(s) + 1
             /\ \A n \in 1 .. Len(s) : (s \o <<Mark(k)>>)[n] = s[n]
             /\ (s \o <<Mark(k)>>)[Len(s) + 1] = Mark(k)
  <2>1. <<Mark(k)>> \in Seq(Items(m))
    BY <1>2
  <2> QED
    BY <1>2, <2>1, ConcatProperties, Pieces
<1>4. CASE j.format = "json"
  <2> DEFINE comma == out \o <<Mark("comma")>>
             part == out \o <<Mark("part")>>
             next == comma \o <<Mark("part")>>
             close == out \o <<Mark("close")>>
  <2>1. /\ Len(out) = IF count = 0 THEN 1 ELSE 2 * count
        /\ \A n \in 1 .. Len(out) :
             IF n = 1 THEN out[n] = Mark("open")
             ELSE IF n % 2 = 0 THEN out[n].kind = "page" ELSE out[n] = Mark("comma")
    <3>1. /\ Len(out) = IF count = 0 THEN 1 ELSE 2 * count
          /\ out[1] = Mark("open")
          /\ \A n \in 2 .. Len(out) :
               IF n % 2 = 0 THEN out[n].kind = "page" ELSE out[n] = Mark("comma")
      BY <1>4 DEF IsBody
    <3> QED
      BY <1>1, <3>1
  <2>2. /\ count = 0 => Len(out) = 1
        /\ count > 0 => Len(out) >= 2 /\ Len(out) % 2 = 0 /\ (Len(out) + 1) % 2 = 1
                          /\ (Len(out) + 2) % 2 = 0
    BY <2>1
  <2>3. BeginsDocument(j, out)
    BY <1>1, <1>4, <2>1 DEF BeginsDocument
  <2>4. /\ comma \in Seq(Items(m)) /\ Len(comma) = Len(out) + 1
        /\ DOMAIN comma = 1 .. Len(out) + 1
        /\ \A n \in 1 .. Len(out) : comma[n] = out[n]
        /\ comma[Len(out) + 1] = Mark("comma")
    BY <1>3
  <2>5. /\ Len(part) = Len(out) + 1 /\ DOMAIN part = 1 .. Len(out) + 1
        /\ \A n \in 1 .. Len(out) : part[n] = out[n]
        /\ part[Len(out) + 1] = Mark("part")
    BY <1>3
  <2>6. /\ Len(close) = Len(out) + 1 /\ DOMAIN close = 1 .. Len(out) + 1
        /\ \A n \in 1 .. Len(out) : close[n] = out[n]
        /\ close[Len(out) + 1] = Mark("close")
    BY <1>3
  <2> HIDE DEF comma, part, close
  <2>7. /\ Len(next) = Len(out) + 2 /\ DOMAIN next = 1 .. Len(out) + 2
        /\ \A n \in 1 .. Len(out) : next[n] = out[n]
        /\ next[Len(out) + 1] = Mark("comma") /\ next[Len(out) + 2] = Mark("part")
    <3>1. /\ Len(next) = Len(comma) + 1 /\ DOMAIN next = 1 .. Len(comma) + 1
          /\ \A n \in 1 .. Len(comma) : next[n] = comma[n]
          /\ next[Len(comma) + 1] = Mark("part")
      BY <2>4, <1>3
    <3>2. /\ Len(comma) + 1 = Len(out) + 2 /\ Len(out) + 1 \in 1 .. Len(comma)
          /\ 1 .. Len(out) \subseteq 1 .. Len(comma)
      BY <1>1, <2>4
    <3> QED
      BY <2>4, <3>1, <3>2
  <2> HIDE DEF next
  <2>8. count > 0 => BeginsDocument(j, comma)
    BY <1>1, <1>4, <2>1, <2>2, <2>4 DEF BeginsDocument
  <2>9. count = 0 => BeginsDocument(j, part)
    BY <1>1, <1>4, <2>1, <2>2, <2>5 DEF BeginsDocument
  <2>10. count > 0 => BeginsDocument(j, next)
    <3> SUFFICES ASSUME count > 0, NEW n \in 1 .. Len(out) + 2
                 PROVE  IF n = 1 THEN next[n] = Mark("open")
                        ELSE IF n % 2 = 0
                             THEN next[n].kind = "page" \/ (n = Len(next) /\ next[n] = Mark("part"))
                             ELSE next[n] = Mark("comma")
      BY <1>4, <2>7 DEF BeginsDocument
    <3>1. CASE n \in 1 .. Len(out)
      BY <2>1, <2>7, <3>1
    <3>2. CASE n = Len(out) + 1
      BY <1>1, <2>2, <2>7, <3>2
    <3>3. CASE n = Len(out) + 2
      BY <1>1, <2>2, <2>7, <3>3
    <3> QED
      BY <1>1, <3>1, <3>2, <3>3
  <2>11. BeginsDocument(j, close)
    BY <1>1, <1>4, <2>1, <2>2, <2>6 DEF BeginsDocument
  <2>12. RefusedPage(j, out, count) \cup RefusedClose(j, out)
           = {out, close} \cup (IF count > 0 THEN {comma, next} ELSE {part})
    BY <1>4 DEF RefusedPage, RefusedClose, CloseOutput, comma, part, next, close
  <2> QED
    BY <2>3, <2>8, <2>9, <2>10, <2>11, <2>12
<1>5. CASE j.format = "lines"
  <2> DEFINE part == out \o <<Mark("part")>>
  <2>1. /\ Len(out) = 2 * count
        /\ \A n \in 1 .. Len(out) :
             IF n % 2 = 1 THEN out[n].kind = "page" ELSE out[n] = Mark("newline")
    BY <1>5 DEF IsBody
  <2>2. (Len(out) + 1) % 2 = 1
    BY <2>1
  <2>3. BeginsDocument(j, out)
    BY <1>1, <1>5, <2>1 DEF BeginsDocument
  <2>4. /\ Len(part) = Len(out) + 1 /\ DOMAIN part = 1 .. Len(out) + 1
        /\ \A n \in 1 .. Len(out) : part[n] = out[n]
        /\ part[Len(out) + 1] = Mark("part")
    BY <1>3
  <2> HIDE DEF part
  <2>5. BeginsDocument(j, part)
    BY <1>1, <1>5, <2>1, <2>2, <2>4 DEF BeginsDocument
  <2>6. out \o CloseOutput(j) = out
    BY <1>5, ConcatEmptySeq DEF CloseOutput
  <2>7. RefusedPage(j, out, count) \cup RefusedClose(j, out) = {out, part}
    BY <1>5, <2>6 DEF RefusedPage, RefusedClose, part
  <2> QED
    BY <2>3, <2>5, <2>7
<1> QED
  BY <1>1, <1>4, <1>5

LEMMA NothingBegun == ASSUME NEW j PROVE BeginsDocument(j, <<>>)
BY DEF BeginsDocument

-----------------------------------------------------------------------------
(* The limit                                                               *)

\* The selected pages before a place are finitely many, and more before a later one.
LEMMA SelectedBefore ==
  ASSUME NEW j \in JobKind
  PROVE  /\ \A n \in Nat :
              /\ IsFiniteSet({q \in SelectedPages(j) : q < n})
              /\ Cardinality({q \in SelectedPages(j) : q < n}) \in Nat
         /\ \A n, m \in Nat : n <= m =>
              Cardinality({q \in SelectedPages(j) : q < n})
                <= Cardinality({q \in SelectedPages(j) : q < m})
<1>1. DOMAIN j.pages = 1 .. Len(j.pages) /\ Len(j.pages) \in Nat
  BY LenProperties DEF JobKind
<1>2. SelectedPages(j) \subseteq 1 .. Len(j.pages) /\ SelectedPages(j) \subseteq Nat
  BY <1>1 DEF SelectedPages
<1>3. IsFiniteSet(SelectedPages(j))
  <2>1. IsFiniteSet(1 .. Len(j.pages))
    BY <1>1, FS_Interval
  <2> QED
    BY <2>1, <1>2, FS_Subset
<1>4. ASSUME NEW n \in Nat
      PROVE  /\ IsFiniteSet({q \in SelectedPages(j) : q < n})
             /\ Cardinality({q \in SelectedPages(j) : q < n}) \in Nat
  BY <1>3, FS_Subset, FS_CardinalityType
<1>5. ASSUME NEW n \in Nat, NEW m \in Nat, n <= m
      PROVE  Cardinality({q \in SelectedPages(j) : q < n})
               <= Cardinality({q \in SelectedPages(j) : q < m})
  <2>1. {q \in SelectedPages(j) : q < n} \subseteq {q \in SelectedPages(j) : q < m}
    BY <1>2, <1>5
  <2> QED
    BY <2>1, <1>4, FS_Subset
<1> QED
  BY <1>4, <1>5

\* A selected page is one of the first unless the limit is reached before it, and
\* then no later page is one either.
LEMMA FirstOrLimited ==
  ASSUME NEW j \in JobKind, NEW p \in SelectedPages(j), NEW count,
         count = Cardinality({q \in SelectedPages(j) : q < p})
  PROVE  /\ p \in FirstPages(j) <=> ~LimitReached(j, count)
         /\ LimitReached(j, count) => \A q \in FirstPages(j) : q < p
<1>1. p \in FirstPages(j) <=> ~LimitReached(j, count)
  BY DEF FirstPages
<1>2. SelectedPages(j) \subseteq Nat
  BY LenProperties DEF SelectedPages, JobKind
<1>3. ASSUME LimitReached(j, count), NEW q \in FirstPages(j), ~(q < p)
      PROVE  FALSE
  <2>1. q \in Nat /\ p \in Nat /\ p <= q
    BY <1>2, <1>3 DEF FirstPages
  <2>2. /\ count <= Cardinality({r \in SelectedPages(j) : r < q}) /\ count \in Nat
        /\ Cardinality({r \in SelectedPages(j) : r < q}) \in Nat
    BY <2>1, SelectedBefore
  <2>3. j.limit # NoLimit /\ j.limit \in Nat /\ count >= j.limit
    BY <1>3 DEF LimitReached, JobKind
  <2>4. LimitReached(j, Cardinality({r \in SelectedPages(j) : r < q}))
    BY <2>2, <2>3 DEF LimitReached
  <2> QED
    BY <1>3, <2>4 DEF FirstPages
<1> QED
  BY <1>1, <1>3

-----------------------------------------------------------------------------
(* Channels                                                                *)

\* Appending to a channel.
LEMMA AppendToChannel ==
  ASSUME NEW S, NEW s \in Seq(S), NEW e \in S
  PROVE  /\ Append(s, e) \in Seq(S)
         /\ Len(Append(s, e)) = Len(s) + 1
         /\ Range(Append(s, e)) = Range(s) \cup {e}
<1>1. /\ Append(s, e) \in Seq(S)
      /\ Len(s) \in Nat
      /\ DOMAIN s = 1 .. Len(s)
      /\ Len(Append(s, e)) = Len(s) + 1
      /\ DOMAIN Append(s, e) = 1 .. Len(s) + 1
      /\ \A i \in 1 .. Len(s) : Append(s, e)[i] = s[i]
      /\ Append(s, e)[Len(s) + 1] = e
  BY AppendProperties, LenProperties
<1>2. 1 .. Len(s) + 1 = (1 .. Len(s)) \cup {Len(s) + 1}
  BY <1>1
<1> QED
  BY <1>1, <1>2 DEF Range

\* Receiving from a channel.
LEMMA ReceiveFromChannel ==
  ASSUME NEW S, NEW s \in Seq(S), s # <<>>
  PROVE  /\ Head(s) \in S
         /\ Tail(s) \in Seq(S)
         /\ Len(s) \in Nat /\ Len(Tail(s)) = Len(s) - 1
         /\ Range(s) = Range(Tail(s)) \cup {Head(s)}
<1>1. /\ Head(s) \in S /\ Tail(s) \in Seq(S)
      /\ Len(s) \in Nat \ {0}
      /\ Len(Tail(s)) = Len(s) - 1
      /\ \A i \in 1 .. Len(s) - 1 : Tail(s)[i] = s[i + 1]
      /\ DOMAIN s = 1 .. Len(s) /\ DOMAIN Tail(s) = 1 .. Len(s) - 1
      /\ Head(s) = s[1]
  BY HeadTailProperties, EmptySeq, LenProperties
<1>2. Range(s) \subseteq Range(Tail(s)) \cup {Head(s)}
  <2> SUFFICES ASSUME NEW i \in 1 .. Len(s)
               PROVE  s[i] \in Range(Tail(s)) \cup {Head(s)}
    BY <1>1 DEF Range
  <2>1. CASE i = 1
    BY <2>1, <1>1
  <2>2. CASE i # 1
    <3>1. i - 1 \in 1 .. Len(s) - 1 /\ s[i] = Tail(s)[i - 1]
      BY <2>2, <1>1
    <3> QED
      BY <3>1, <1>1 DEF Range
  <2> QED
    BY <2>1, <2>2
<1>3. Range(Tail(s)) \cup {Head(s)} \subseteq Range(s)
  <2>1. \A i \in 1 .. Len(s) - 1 : i + 1 \in 1 .. Len(s)
    BY <1>1
  <2> QED
    BY <1>1, <2>1 DEF Range
<1> QED
  BY <1>1, <1>2, <1>3

-----------------------------------------------------------------------------
(* The output                                                              *)

\* Only write_page_result adds a page to the output.
LEMMA PagesOfOutput ==
  ASSUME TypeOK
  PROVE  /\ output \o OpenOutput(job) \in Seq(OutputItem)
         /\ Pages(output \o OpenOutput(job)) = Pages(output)
         /\ output \o CloseOutput(job) \in Seq(OutputItem)
         /\ Pages(output \o CloseOutput(job)) = Pages(output)
         /\ \A p \in 1 .. pos :
              /\ WritePageResult(job, output, p, page_count) \in Seq(OutputItem)
              /\ Pages(WritePageResult(job, output, p, page_count)) = Pages(output) \cup {p}
         /\ \A out \in RefusedPage(job, output, page_count) \cup RefusedClose(job, output) :
              out \in Seq(OutputItem) /\ Pages(out) = Pages(output)
<1>1. OutputItem = Items(pos)
  BY DEF OutputItem, Items
<1>2. job \in JobKind /\ pos \in Nat /\ output \in Seq(Items(pos)) /\ page_count \in Nat
  BY <1>1, JobAssumption, LenProperties DEF TypeOK, JobKind
<1>3. /\ output \o OpenOutput(job) \in Seq(Items(pos))
      /\ Pages(output \o OpenOutput(job)) = Pages(output)
      /\ output \o CloseOutput(job) \in Seq(Items(pos))
      /\ Pages(output \o CloseOutput(job)) = Pages(output)
  BY <1>2, OutputPages
<1>4. ASSUME NEW p \in 1 .. pos
      PROVE  /\ WritePageResult(job, output, p, page_count) \in Seq(Items(pos))
             /\ Pages(WritePageResult(job, output, p, page_count)) = Pages(output) \cup {p}
  BY <1>2, OutputPages
<1>5. \A out \in RefusedPage(job, output, page_count) \cup RefusedClose(job, output) :
        out \in Seq(Items(pos)) /\ Pages(out) = Pages(output)
  BY <1>2, RefusedPages
<1> QED
  BY <1>1, <1>3, <1>4, <1>5

-----------------------------------------------------------------------------
(* Types                                                                   *)

LEMMA InitType == Init => TypeOK
<1> SUFFICES ASSUME Init
             PROVE  TypeOK
  OBVIOUS
<1>1. Len(job.pages) \in Nat
  BY JobAssumption, LenProperties DEF Init, JobKind
<1>2. Cardinality(Workers) \in Nat /\ Capacity \in Nat
  BY WorkersAssumption, FS_CardinalityType DEF Capacity
<1>3. \A S : <<>> \in Seq(S)
  OBVIOUS
<1>4. Len(<<>>) = 0
  OBVIOUS
<1>5. /\ pos \in 0 .. Len(job.pages) /\ Len(work) <= Capacity /\ Len(results) <= Capacity
      /\ item \in [Workers -> 0 .. pos]
  BY <1>1, <1>2, <1>4 DEF Init, NoPage
<1>6. /\ work \in Seq(1 .. pos) /\ results \in Seq(1 .. pos) /\ output \in Seq(OutputItem)
  BY <1>3 DEF Init
<1> QED
  BY <1>5, <1>6 DEF Init, TypeOK

\* The parser moves on; what it has read before stays readable.
LEMMA ParserType ==
  ASSUME TypeOK, Parser
  PROVE  TypeOK'
<1>1. /\ job.pages \in Seq(PageKind) /\ Len(job.pages) \in Nat /\ pos \in Nat
  BY JobAssumption, LenProperties DEF TypeOK, JobKind
<1>2. Capacity \in Nat
  BY WorkersAssumption, FS_CardinalityType DEF Capacity
<1>3. CASE ParsePage
  <2>1. pos' = pos + 1 /\ pos' \in 0 .. Len(job.pages) /\ 1 .. pos \subseteq 1 .. pos'
    BY <1>1, <1>3 DEF ParsePage
  <2>2. Seq(1 .. pos) \subseteq Seq(1 .. pos')
    BY <2>1, SeqMonotonic
  <2>3. OutputItem \subseteq OutputItem'
    BY <2>1, <1>1 DEF OutputItem
  <2>4. Seq(OutputItem) \subseteq Seq(OutputItem')
    BY <2>3, SeqMonotonic
  <2>5. parser' \in {"parsing", "sending", "done"}
    BY <1>3 DEF ParsePage
  <2>6. 0 .. pos \subseteq 0 .. pos' /\ pos' > 0
    BY <2>1, <1>1
  <2>7. item' \in [Workers -> 0 .. pos']
    BY <2>6, <1>3 DEF ParsePage, workerVars, TypeOK
  <2> QED
    BY <2>1, <2>2, <2>4, <2>5, <2>6, <2>7, <1>3
    DEF ParsePage, TypeOK, workerVars, writerVars, Capacity
<1>4. CASE EndOfDump
  <2>1. job.malformed \in BOOLEAN
    BY JobAssumption DEF TypeOK, JobKind
  <2> QED
    BY <2>1, <1>4 DEF EndOfDump, TypeOK, workerVars, writerVars, Capacity, OutputItem
<1>5. CASE SendPage
  <2>1. pos \in 1 .. pos
    BY <1>1, <1>5 DEF SendPage, TypeOK
  <2>2. /\ work' \in Seq(1 .. pos) /\ Len(work') = Len(work) + 1 /\ Len(work) \in Nat
    BY <2>1, <1>5, AppendToChannel, LenProperties DEF SendPage, TypeOK
  <2>3. Len(work') <= Capacity
    BY <2>2, <1>2, <1>5 DEF SendPage
  <2> QED
    BY <2>2, <2>3, <1>5 DEF SendPage, TypeOK, workerVars, writerVars, Capacity, OutputItem
<1> QED
  BY <1>3, <1>4, <1>5 DEF Parser

\* Worker w hands on what it has.
LEMMA WorkerType ==
  ASSUME TypeOK, NEW w \in Workers, Worker(w)
  PROVE  TypeOK'
<1>1. pos \in Nat /\ Capacity \in Nat
  BY JobAssumption, LenProperties, WorkersAssumption, FS_CardinalityType
  DEF TypeOK, JobKind, Capacity
<1>2. CASE Lock(w)
  BY <1>2 DEF Lock, TypeOK, parserVars, writerVars, Capacity, OutputItem
<1>3. CASE TakePage(w)
  <2>1. /\ Head(work) \in 1 .. pos /\ work' \in Seq(1 .. pos)
        /\ Len(work) \in Nat /\ Len(work') = Len(work) - 1
    BY <1>3, ReceiveFromChannel DEF TakePage, TypeOK
  <2>2. Head(work) \in 0 .. pos /\ Head(work) # NoPage /\ Len(work') <= Capacity
    BY <2>1, <1>1 DEF TypeOK, NoPage
  <2>3. /\ item' \in [Workers -> 0 .. pos]
        /\ \A v \in Workers : worker'[v] = "busy" => item'[v] # NoPage
    BY <2>2, <1>3 DEF TakePage, TypeOK
  <2> QED
    BY <2>1, <2>2, <2>3, <1>3 DEF TakePage, TypeOK, parserVars, writerVars, Capacity, OutputItem
<1>4. CASE Leave(w)
  BY <1>4 DEF Leave, TypeOK, parserVars, writerVars, Capacity, OutputItem
<1>5. CASE SendResult(w)
  <2>1. item[w] \in 1 .. pos
    BY <1>1, <1>5 DEF SendResult, TypeOK, NoPage
  <2>2. /\ results' \in Seq(1 .. pos) /\ Len(results) \in Nat
        /\ Len(results') = Len(results) + 1
    BY <2>1, <1>5, AppendToChannel, LenProperties DEF SendResult, TypeOK
  <2>3. Len(results') <= Capacity /\ NoPage \in 0 .. pos
    BY <2>2, <1>1, <1>5 DEF SendResult, NoPage
  <2>4. /\ item' \in [Workers -> 0 .. pos]
        /\ \A v \in Workers : worker'[v] = "busy" => item'[v] # NoPage
    BY <2>3, <1>5 DEF SendResult, TypeOK
  <2> QED
    BY <2>2, <2>3, <2>4, <1>5 DEF SendResult, TypeOK, parserVars, writerVars, Capacity, OutputItem
<1> QED
  BY <1>2, <1>3, <1>4, <1>5 DEF Worker

\* The main thread writes what it receives.
LEMMA WriterType ==
  ASSUME TypeOK, Writer
  PROVE  TypeOK'
<1>1. pos \in Nat /\ Capacity \in Nat
  BY JobAssumption, LenProperties, WorkersAssumption, FS_CardinalityType
  DEF TypeOK, JobKind, Capacity
<1>2. ASSUME results # <<>>
      PROVE  /\ Head(results) \in 1 .. pos /\ Tail(results) \in Seq(1 .. pos)
             /\ Len(Tail(results)) <= Capacity
  <2>1. /\ Head(results) \in 1 .. pos /\ Tail(results) \in Seq(1 .. pos)
        /\ Len(results) \in Nat /\ Len(Tail(results)) = Len(results) - 1
    BY <1>2, ReceiveFromChannel DEF TypeOK
  <2> QED
    BY <2>1, <1>1 DEF TypeOK
<1>3. CASE Open
  BY <1>3, PagesOfOutput DEF Open, TypeOK, parserVars, workerVars, Capacity, OutputItem
<1>4. CASE Skip
  BY <1>4, <1>2 DEF Skip, TypeOK, parserVars, workerVars, Capacity, OutputItem
<1>5. CASE Write
  <2>1. output' \in Seq(OutputItem) /\ page_count' \in Nat
    BY <1>5, <1>2, PagesOfOutput DEF Write, TypeOK
  <2> QED
    BY <2>1, <1>5, <1>2 DEF Write, TypeOK, parserVars, workerVars, Capacity, OutputItem
<1>6. CASE FailWrite
  <2>1. results' \in Seq(1 .. pos) /\ Len(results') <= Capacity
    BY <1>6, <1>2 DEF FailWrite, TypeOK
  <2>2. output' \in Seq(OutputItem)
    <3>1. \/ output' = output
          \/ output' \in RefusedPage(job, output, page_count) \cup RefusedClose(job, output)
      BY <1>6 DEF FailWrite
    <3> QED
      BY <3>1, PagesOfOutput DEF TypeOK
  <2> QED
    BY <2>1, <2>2, <1>6 DEF FailWrite, TypeOK, parserVars, workerVars, Capacity, OutputItem
<1>7. CASE Close
  BY <1>7, PagesOfOutput DEF Close, TypeOK, parserVars, workerVars, Capacity, OutputItem
<1>8. CASE Return
  BY <1>8 DEF Return, TypeOK, parserVars, workerVars, writerVars, Capacity, OutputItem
<1>9. CASE Start
  BY <1>9 DEF Start, TypeOK, parserVars, workerVars, Capacity, OutputItem
<1>10. CASE Reject
  BY <1>10 DEF Reject, TypeOK, parserVars, workerVars, writerVars, Capacity, OutputItem
<1> QED
  BY <1>3, <1>4, <1>5, <1>6, <1>7, <1>8, <1>9, <1>10 DEF Writer

LEMMA TypeStep == TypeOK /\ [Next]_vars => TypeOK'
<1> SUFFICES ASSUME TypeOK, [Next]_vars
             PROVE  TypeOK'
  OBVIOUS
<1>1. CASE UNCHANGED vars
  BY <1>1 DEF vars, parserVars, workerVars, writerVars, TypeOK, Capacity, OutputItem
<1> QED
  BY <1>1, ParserType, WorkerType, WriterType DEF Next, Finished

(***************************************************************************)
(* Every page a thread or a channel has is one the parser has read, and    *)
(* neither channel holds more than two pages per worker.                   *)
(***************************************************************************)
THEOREM TypeCorrect == Spec => []TypeOK
<1> QED
  BY InitType, TypeStep, PTL DEF Spec
-----------------------------------------------------------------------------
(* The inductive invariant.                                                *)

\* The selected pages the parser has counted.
Counted ==
  parser # "done" =>
    parsed_count = Cardinality({q \in SelectedPages(job) :
                                  q < IF parser = "sending" THEN pos ELSE pos + 1})

\* The parser stops at the end of the dump or behind the limit.
Ended ==
  parser = "done" =>
    /\ \A p \in FirstPages(job) : p <= pos
    /\ ~parse_error => ~ReportsError(job)

\* Only a worker without a page waits for one.
LockHeld == \A w \in Workers : lock = w => worker[w] = "idle"

\* A worker leaves behind an empty channel that stays empty.
Drained == (\E w \in Workers : worker[w] = "done") => parser = "done" /\ work = <<>>

\* So does the writer.
Closed == writer = "done" => ResultsClosed

\* Success is reported last.
Left == exit = "ok" => writer = "done" /\ Joined /\ ~parse_error

IInv == /\ TypeOK /\ Counted /\ Ended /\ LockHeld /\ Drained /\ Closed /\ Left
        /\ NothingLost

-----------------------------------------------------------------------------
(* The limit                                                               *)

\* What the parser does with the next page is what FirstPages says of it.
LEMMA NextPage ==
  ASSUME IInv, ParsePage
  PROVE  /\ pos' = pos + 1 /\ pos' \in DOMAIN job.pages
         /\ pos' \in FirstPages(job) <=> parser' = "sending"
         /\ parser' = "done" => /\ pos' \in SelectedPages(job) \ FirstPages(job)
                               /\ \A p \in FirstPages(job) : p <= pos'
<1>1. /\ job \in Jobs /\ pos \in Nat /\ parsed_count \in Nat
      /\ DOMAIN job.pages = 1 .. Len(job.pages) /\ Len(job.pages) \in Nat
      /\ job.limit \in Nat \cup {NoLimit}
  <2>1. job \in Jobs /\ pos \in 0 .. Len(job.pages) /\ parsed_count \in Nat
    BY DEF IInv, TypeOK
  <2>2. job.pages \in Seq(PageKind) /\ job.limit \in Nat \cup {NoLimit}
    BY <2>1, JobAssumption DEF JobKind
  <2>3. DOMAIN job.pages = 1 .. Len(job.pages) /\ Len(job.pages) \in Nat
    BY <2>2, LenProperties
  <2> QED
    BY <2>1, <2>2, <2>3
<1>2. pos' = pos + 1 /\ pos' \in DOMAIN job.pages
  BY <1>1 DEF ParsePage
<1>3. parsed_count = Cardinality({q \in SelectedPages(job) : q < pos'})
  BY <1>2 DEF IInv, Counted, ParsePage
<1>4. pos' \in SelectedPages(job) <=> job.pages[pos'].selected
  BY <1>2 DEF SelectedPages
<1>5. pos' \in SelectedPages(job) =>
        /\ pos' \in FirstPages(job) <=> ~LimitReached(job, parsed_count)
        /\ LimitReached(job, parsed_count) => \A p \in FirstPages(job) : p < pos'
  BY <1>1, <1>3, JobAssumption, FirstOrLimited
<1>6. pos' \in FirstPages(job) <=> parser' = "sending"
  BY <1>4, <1>5 DEF ParsePage, FirstPages
<1>7. ASSUME parser' = "done"
      PROVE  /\ pos' \in SelectedPages(job) \ FirstPages(job)
             /\ \A p \in FirstPages(job) : p <= pos'
  <2>1. pos' \in SelectedPages(job) /\ LimitReached(job, parsed_count)
    BY <1>4, <1>7 DEF ParsePage
  <2>2. \A p \in FirstPages(job) : p \in Nat /\ pos' \in Nat
    BY <1>1, <1>2 DEF FirstPages, SelectedPages
  <2> QED
    BY <1>5, <2>1, <2>2
<1> QED
  BY <1>2, <1>6, <1>7
-----------------------------------------------------------------------------
(* The threads' steps                                                      *)

\* Only the parser counts, and it does not start again.
LEMMA ParserProgress ==
  ASSUME IInv, [Next]_vars
  PROVE  Counted' /\ Ended'
<1>1. /\ job \in Jobs /\ pos \in Nat
      /\ DOMAIN job.pages = 1 .. Len(job.pages) /\ Len(job.pages) \in Nat
  BY JobAssumption, LenProperties DEF IInv, TypeOK, JobKind
<1>2. CASE ParsePage
  <2>1. pos' = pos + 1 /\ job' = job
    BY <1>2 DEF ParsePage
  <2>2. Counted'
    <3>1. \A q \in SelectedPages(job) : q \in Nat
      BY <1>1 DEF SelectedPages
    <3>2. CASE parser' = "parsing"
      <4>1. pos' \notin SelectedPages(job)
        BY <3>2, <1>2 DEF ParsePage, SelectedPages
      <4>2. {q \in SelectedPages(job) : q < pos' + 1} = {q \in SelectedPages(job) : q < pos + 1}
        BY <4>1, <3>1, <2>1, <1>1
      <4> QED
        BY <4>2, <3>2, <2>1, <1>2 DEF ParsePage, IInv, Counted
    <3>3. CASE parser' = "sending"
      BY <3>3, <2>1, <1>2 DEF ParsePage, IInv, Counted
    <3> QED
      BY <3>2, <3>3, <1>2 DEF ParsePage, Counted
  <2>3. Ended'
    <3> SUFFICES ASSUME parser' = "done"
                 PROVE  Ended'
      BY DEF Ended
    <3>1. /\ pos' \in SelectedPages(job) \ FirstPages(job)
          /\ \A p \in FirstPages(job) : p <= pos'
      BY <1>2, NextPage
    <3> QED
      BY <3>1, <2>1 DEF Ended, ReportsError
  <2> QED
    BY <2>2, <2>3
<1>3. CASE EndOfDump
  <2>1. job' = job /\ pos' = Len(job.pages)
    BY <1>3 DEF EndOfDump
  <2>2. \A p \in FirstPages(job) : p <= pos'
    BY <2>1, <1>1 DEF FirstPages, SelectedPages
  <2> QED
    BY <2>1, <2>2, <1>3 DEF EndOfDump, Counted, Ended, ReportsError
<1>4. CASE SendPage
  <2>1. /\ job' = job /\ pos' = pos /\ parser = "sending" /\ parser' = "parsing"
        /\ parsed_count' = parsed_count + 1
    BY <1>4 DEF SendPage
  <2> DEFINE Before == {q \in SelectedPages(job) : q < pos}
  <2>2. pos \in SelectedPages(job)
    BY <2>1 DEF IInv, NothingLost, Somewhere, Outgoing, Accepted, FirstPages
  <2>3. \A q \in SelectedPages(job) : q \in Nat
    BY <1>1 DEF SelectedPages
  <2>4. {q \in SelectedPages(job) : q < pos + 1} = Before \cup {pos}
    <3>1. \A q \in SelectedPages(job) : q < pos + 1 <=> q < pos \/ q = pos
      BY <2>3, <1>1
    <3> QED
      BY <3>1, <2>2
  <2>5. pos \notin Before
    BY <1>1
  <2>6. IsFiniteSet(Before)
    BY <1>1, JobAssumption, SelectedBefore
  <2>7. Cardinality(Before \cup {pos}) = Cardinality(Before) + 1
    BY <2>5, <2>6, FS_AddElement
  <2>8. parsed_count = Cardinality(Before)
    BY <2>1 DEF IInv, Counted
  <2> QED
    BY <2>1, <2>4, <2>7, <2>8 DEF Counted, Ended
<1>5. CASE UNCHANGED <<job, parserVars>>
  BY <1>5 DEF IInv, parserVars, Counted, Ended
<1> QED
  BY <1>2, <1>3, <1>4, <1>5
  DEF Next, Parser, Worker, Writer, Lock, TakePage, Leave, SendResult,
      Start, Reject, Open, Skip, Write, FailWrite, Close, Return, Finished, vars

\* The threads end in their order: the parser, the workers, the writer.
LEMMA EndsInOrder ==
  ASSUME IInv, [Next]_vars
  PROVE  LockHeld' /\ Drained' /\ Closed' /\ Left'
<1> USE DEF IInv, LockHeld, Drained, Closed, Left, ResultsClosed, Joined
<1>1. /\ Nobody \notin Workers /\ lock \in Workers \cup {Nobody}
      /\ worker \in [Workers -> {"idle", "busy", "done"}]
  BY WorkersAssumption DEF TypeOK
<1>2. CASE Parser
  BY <1>2, <1>1 DEF Parser, ParsePage, EndOfDump, SendPage, workerVars, writerVars
<1>3. ASSUME NEW w \in Workers, Worker(w)
      PROVE  LockHeld' /\ Drained' /\ Closed' /\ Left'
  <2>1. CASE Lock(w)
    BY <2>1, <1>1 DEF Lock, parserVars, writerVars
  <2>2. CASE TakePage(w)
    BY <2>2, <1>1 DEF TakePage, parserVars, writerVars
  <2>3. CASE Leave(w)
    BY <2>3, <1>1 DEF Leave, parserVars, writerVars
  <2>4. CASE SendResult(w)
    BY <2>4, <1>1 DEF SendResult, parserVars, writerVars
  <2> QED
    BY <1>3, <2>1, <2>2, <2>3, <2>4 DEF Worker
<1>4. CASE Writer
  <2>1. CASE Open \/ Skip \/ Write
    BY <2>1 DEF Open, Skip, Write, parserVars, workerVars
  <2>5. CASE Start \/ Reject
    BY <2>5 DEF Start, Reject, parserVars, workerVars, writerVars
  <2>2. CASE FailWrite
    BY <2>2 DEF FailWrite, parserVars, workerVars
  <2>3. CASE Close
    BY <2>3 DEF Close, parserVars, workerVars
  <2>4. CASE Return
    <3>1. exit' = "ok" => writer = "done" /\ ~parse_error
      <4>1. writer # "done" => writer = "panicked"
        BY <2>4 DEF Return
      <4>2. CASE writer = "panicked"
        BY <2>4, <4>2 DEF Return
      <4>3. CASE writer = "done" /\ parse_error
        BY <2>4, <4>3 DEF Return
      <4> QED
        BY <4>1, <4>2, <4>3
    <3> QED
      BY <3>1, <2>4 DEF Return, parserVars, workerVars, writerVars
  <2> QED
    BY <1>4, <2>1, <2>2, <2>3, <2>4, <2>5 DEF Writer
<1>5. CASE UNCHANGED vars
  BY <1>5 DEF vars, parserVars, workerVars, writerVars
<1> QED
  BY <1>2, <1>3, <1>4, <1>5 DEF Next, Finished
-----------------------------------------------------------------------------
(* No page is lost                                                         *)

\* A page moves from its place to the next one.
LEMMA Moves ==
  ASSUME IInv, [Next]_vars
  PROVE  NothingLost'
<1> DEFINE Rest == Range(results) \cup SettledPages
<1>1. /\ TypeOK /\ Somewhere \subseteq Accepted
      /\ writer # "panicked" => Somewhere = Accepted
  BY DEF IInv, NothingLost
<1>2. SUFFICES ASSUME ~ParsePage
               PROVE  NothingLost'
  <2> SUFFICES ASSUME ParsePage
               PROVE  NothingLost'
    OBVIOUS
  <2>1. /\ pos' = pos + 1 /\ pos' \in DOMAIN job.pages /\ pos \in Nat
        /\ pos' \in FirstPages(job) <=> parser' = "sending"
    BY NextPage DEF IInv, TypeOK
  <2>2. Accepted' = Accepted \cup (IF parser' = "sending" THEN {pos'} ELSE {})
    <3>1. \A p \in FirstPages(job) : p <= pos' <=> p <= pos \/ p = pos'
      <4>1. job.pages \in Seq(PageKind) /\ DOMAIN job.pages = 1 .. Len(job.pages)
            /\ Len(job.pages) \in Nat
        BY <1>1, JobAssumption, LenProperties DEF TypeOK, JobKind
      <4> QED
        BY <4>1, <2>1 DEF FirstPages, SelectedPages
    <3> QED
      BY <2>1, <3>1 DEF Accepted, ParsePage
  <2>3. Outgoing = {} /\ Outgoing' = IF parser' = "sending" THEN {pos'} ELSE {}
    BY DEF ParsePage, Outgoing
  <2>4. /\ Range(work)' = Range(work) /\ AtWorkers' = AtWorkers
        /\ Rest' = Rest /\ writer' = writer
    BY DEF ParsePage, AtWorkers, SettledPages, workerVars, writerVars
  <2>5. Somewhere' = Somewhere \cup Outgoing'
    BY <2>3, <2>4 DEF Somewhere
  <2> QED
    BY <1>1, <2>2, <2>3, <2>4, <2>5 DEF NothingLost
<1>3. SUFFICES /\ Accepted' = Accepted
               /\ Somewhere' \subseteq Somewhere
               /\ writer' # "panicked" => writer # "panicked" /\ Somewhere' = Somewhere
  BY <1>1 DEF NothingLost
<1>4. Accepted' = Accepted
  <2>1. UNCHANGED <<job, pos>>
    BY <1>2
    DEF Next, Parser, EndOfDump, SendPage, Worker, Writer, Lock, TakePage, Leave, SendResult,
        Start, Reject, Open, Skip, Write, FailWrite, Close, Return, Finished, vars, parserVars
  <2> QED
    BY <2>1 DEF Accepted
<1>5. CASE EndOfDump
  <2>1. /\ Outgoing' = Outgoing /\ Range(work)' = Range(work) /\ AtWorkers' = AtWorkers
        /\ Rest' = Rest /\ writer' = writer
    BY <1>5 DEF EndOfDump, Outgoing, AtWorkers, SettledPages, workerVars, writerVars
  <2> QED
    BY <2>1, <1>4 DEF Somewhere
<1>6. CASE SendPage
  <2>1. pos \in 1 .. pos /\ work \in Seq(1 .. pos)
    <3>1. pos \in Nat /\ pos > 0
      BY <1>1, <1>6, JobAssumption, LenProperties DEF TypeOK, JobKind, SendPage
    <3> QED
      BY <1>1, <3>1 DEF TypeOK
  <2>2. Range(work)' = Range(work) \cup {pos}
    BY <2>1, <1>6, AppendToChannel DEF SendPage
  <2>3. Outgoing = {pos} /\ Outgoing' = {}
    BY <1>6 DEF SendPage, Outgoing
  <2>4. AtWorkers' = AtWorkers /\ Rest' = Rest /\ writer' = writer
    BY <1>6 DEF SendPage, AtWorkers, SettledPages, workerVars, writerVars
  <2> QED
    BY <2>2, <2>3, <2>4, <1>4 DEF Somewhere
<1>7. ASSUME NEW w \in Workers, Worker(w)
      PROVE  Somewhere' = Somewhere /\ writer' = writer
  <2>1. CASE Lock(w) \/ Leave(w)
    <3>1. \A v \in Workers : worker'[v] = "busy" <=> worker[v] = "busy"
      BY <2>1, <1>1 DEF Lock, Leave, TypeOK, IInv, LockHeld
    <3>2. AtWorkers' = AtWorkers
      BY <3>1, <2>1 DEF Lock, Leave, AtWorkers
    <3>3. Outgoing' = Outgoing /\ Range(work)' = Range(work) /\ Rest' = Rest /\ writer' = writer
      BY <2>1 DEF Lock, Leave, Outgoing, SettledPages, parserVars, writerVars
    <3> QED
      BY <3>2, <3>3 DEF Somewhere
  <2>2. CASE TakePage(w)
    <3>1. Range(work) = Range(work)' \cup {Head(work)}
      BY <2>2, <1>1, ReceiveFromChannel DEF TakePage, TypeOK
    <3>2. worker[w] # "busy"
      BY <2>2 DEF TakePage, IInv, LockHeld
    <3>3. AtWorkers' = AtWorkers \cup {Head(work)}
      BY <2>2, <3>2, <1>1 DEF TakePage, AtWorkers, TypeOK
    <3>4. Outgoing' = Outgoing /\ Rest' = Rest /\ writer' = writer
      BY <2>2 DEF TakePage, Outgoing, SettledPages, parserVars, writerVars
    <3> QED
      BY <3>1, <3>3, <3>4 DEF Somewhere
  <2>3. CASE SendResult(w)
    <3>1. item[w] \in 1 .. pos /\ results \in Seq(1 .. pos)
      <4>1. pos \in Nat
        BY <1>1, JobAssumption, LenProperties DEF TypeOK, JobKind
      <4> QED
        BY <4>1, <1>1, <2>3 DEF SendResult, TypeOK, NoPage
    <3>2. Range(results)' = Range(results) \cup {item[w]}
      <4>1. results' = Append(results, item[w])
        BY <2>3 DEF SendResult
      <4>2. ASSUME NEW S, results \in Seq(S), NEW e \in S
            PROVE  Range(Append(results, e)) = Range(results) \cup {e}
        BY <4>2, AppendToChannel
      <4>3. Range(Append(results, item[w])) = Range(results) \cup {item[w]}
        BY <3>1, <4>2
      <4> QED
        BY <4>1, <4>3
    <3>3. AtWorkers = AtWorkers' \cup {item[w]}
      <4>1. /\ worker[w] = "busy"
            /\ \A v \in Workers : worker'[v] = "busy" <=> worker[v] = "busy" /\ v # w
            /\ \A v \in Workers : v # w => item'[v] = item[v]
        BY <2>3, <1>1 DEF SendResult, TypeOK
      <4> QED
        BY <4>1 DEF AtWorkers
    <3>4. /\ Outgoing' = Outgoing /\ Range(work)' = Range(work)
          /\ SettledPages' = SettledPages /\ writer' = writer
      BY <2>3 DEF SendResult, Outgoing, SettledPages, parserVars, writerVars
    <3> QED
      BY <3>2, <3>3, <3>4 DEF Somewhere
  <2> QED
    BY <1>7, <2>1, <2>2, <2>3 DEF Worker
<1>8. CASE Writer
  <2>1. Outgoing' = Outgoing /\ Range(work)' = Range(work) /\ AtWorkers' = AtWorkers
    BY <1>8
    DEF Writer, Start, Reject, Open, Skip, Write, FailWrite, Close, Return,
        Outgoing, AtWorkers, parserVars, workerVars
  <2>2. SUFFICES /\ Rest' \subseteq Rest
                 /\ writer' # "panicked" => writer # "panicked" /\ Rest' = Rest
    BY <2>1, <1>4 DEF Somewhere
  <2>3. results # <<>> =>
          Head(results) \in 1 .. pos /\ Range(results) = Range(Tail(results)) \cup {Head(results)}
    BY <1>1, ReceiveFromChannel DEF TypeOK
  <2>4. CASE Open
    BY <2>4, <1>1, PagesOfOutput DEF Open, SettledPages
  <2>5. CASE Skip
    BY <2>5, <2>3 DEF Skip, SettledPages
  <2>6. CASE Write
    <3>1. Pages(output)' = Pages(output) \cup {Head(results)}
      BY <2>6, <2>3, <1>1, PagesOfOutput DEF Write
    <3> QED
      BY <2>6, <3>1, <2>3 DEF Write, SettledPages
  <2>7. CASE FailWrite
    <3>1. Pages(output)' = Pages(output)
      <4>1. \/ output' = output
            \/ output' \in RefusedPage(job, output, page_count) \cup RefusedClose(job, output)
        BY <2>7 DEF FailWrite
      <4> QED
        BY <4>1, <1>1, PagesOfOutput
    <3> QED
      BY <2>7, <2>3, <3>1 DEF FailWrite, SettledPages
  <2>8. CASE Close
    BY <2>8, <1>1, PagesOfOutput DEF Close, SettledPages
  <2>9. CASE Return
    BY <2>9 DEF Return, SettledPages, writerVars
  <2>10. CASE Start \/ Reject
    BY <2>10 DEF Start, Reject, SettledPages, writerVars
  <2> QED
    BY <1>8, <2>4, <2>5, <2>6, <2>7, <2>8, <2>9, <2>10 DEF Writer
<1>9. CASE UNCHANGED vars
  BY <1>9, <1>4
  DEF Somewhere, Outgoing, AtWorkers, SettledPages, vars, parserVars, workerVars, writerVars
<1> QED
  BY <1>2, <1>4, <1>5, <1>6, <1>7, <1>8, <1>9 DEF Next, Parser, Finished
-----------------------------------------------------------------------------
(* The theorems                                                            *)

LEMMA InitInv == Init => IInv
<1> SUFFICES ASSUME Init
             PROVE  IInv
  OBVIOUS
<1>1. job \in Jobs /\ job.pages \in Seq(PageKind) /\ Len(job.pages) \in Nat
      /\ DOMAIN job.pages = 1 .. Len(job.pages)
  BY JobAssumption, LenProperties DEF Init, JobKind
<1>2. \A p \in SelectedPages(job) : p \in Nat /\ p >= 1
  BY <1>1 DEF SelectedPages
<1>3. Counted
  <2>1. {q \in SelectedPages(job) : q < pos + 1} = {}
    BY <1>2 DEF Init
  <2> QED
    BY <2>1, FS_EmptySet DEF Init, Counted
<1>4. NothingLost
  <2>1. Accepted = {}
    BY <1>2 DEF Init, Accepted, FirstPages
  <2>2. Range(<<>>) = {} /\ Pages(<<>>) = {}
    <3>1. DOMAIN <<>> = {}
      OBVIOUS
    <3>2. Range(<<>>) = {}
      BY <3>1 DEF Range
    <3> QED
      BY <3>2 DEF Pages
  <2>3. AtWorkers = {}
    BY DEF Init, AtWorkers
  <2> QED
    BY <2>1, <2>2, <2>3 DEF Init, NothingLost, Somewhere, Outgoing, SettledPages
<1>5. LockHeld
  BY WorkersAssumption DEF Init, LockHeld
<1> QED
  BY <1>3, <1>4, <1>5, InitType DEF Init, IInv, Ended, Drained, Closed, Left

LEMMA StepInv == IInv /\ [Next]_vars => IInv'
BY TypeStep, ParserProgress, EndsInOrder, Moves DEF IInv

LEMMA Invariance == Spec => []IInv
BY InitInv, StepInv, PTL DEF Spec

(***************************************************************************)
(* No page is lost between the threads: every page the parser accepted is  *)
(* with a thread, in a channel or settled, until a write fails.            *)
(***************************************************************************)
THEOREM PagesAreKept == Spec => []NothingLost
<1>1. IInv => NothingLost
  BY DEF IInv
<1> QED
  BY <1>1, Invariance, PTL

(***************************************************************************)
(* process_parallel returns Ok only when every page of the dump, up to the *)
(* limit, was written or reported as skipped, and the dump is well formed  *)
(* as far as it was read.                                                  *)
(***************************************************************************)
THEOREM SuccessMeansComplete == Spec => []SuccessIsComplete
<1>1. ASSUME IInv
      PROVE  SuccessIsComplete
  <2> SUFFICES ASSUME exit = "ok"
               PROVE  SettledPages = FirstPages(job) /\ ~ReportsError(job)
    BY DEF SuccessIsComplete
  <2>1. writer = "done" /\ parser = "done" /\ ~parse_error
        /\ \A w \in Workers : worker[w] = "done"
    BY <1>1 DEF IInv, Left, Joined
  <2>2. \E w \in Workers : TRUE
    BY WorkersAssumption, FS_EmptySet
  <2>3. work = <<>> /\ results = <<>>
    BY <2>1, <2>2, <1>1 DEF IInv, Drained, Closed, ResultsClosed
  <2>4. Outgoing = {} /\ AtWorkers = {} /\ Range(work) = {} /\ Range(results) = {}
    <3>1. DOMAIN <<>> = {}
      OBVIOUS
    <3> QED
      BY <2>1, <2>3, <3>1 DEF Outgoing, AtWorkers, Range
  <2>5. SettledPages = Accepted
    BY <2>1, <2>4, <1>1 DEF IInv, NothingLost, Somewhere
  <2>6. Accepted = FirstPages(job)
    BY <2>1, <1>1 DEF IInv, Ended, Accepted
  <2> QED
    BY <2>1, <2>5, <2>6, <1>1 DEF IInv, Ended
<1> QED
  BY <1>1, Invariance, PTL

-----------------------------------------------------------------------------
(* The document                                                            *)

\* The output before the first page, while pages are written, once it is closed
\* and when a write was refused; process_parallel returns early only from the
\* start, and goes on from there unless the site info could not be read.
Document ==
  /\ writer \in {"starting", "opening"} => output = <<>> /\ page_count = 0
  /\ writer = "writing" => IsBody(job, output, page_count)
  /\ writer = "done" => IsDocument(job, output)
  /\ writer = "panicked" => job.failing /\ BeginsDocument(job, output)
  /\ job.headless => writer = "starting"
  /\ exit = "ok" => writer = "done"
  /\ exit = "error" => writer = "done" \/ job.headless
  /\ exit = "panic" => writer = "panicked"

LEMMA InitDocument == Init => Document
<1> SUFFICES ASSUME Init PROVE Document
  OBVIOUS
<1> QED
  BY DEF Init, Document

\* Opening, writing a page and closing keep the output a document.
LEMMA DocumentStep ==
  ASSUME TypeOK, Document, [Next]_vars
  PROVE  Document'
<1>1. /\ job \in JobKind /\ pos \in Nat /\ page_count \in Nat
      /\ output \in Seq(Items(pos))
  BY JobAssumption, LenProperties DEF TypeOK, JobKind, OutputItem, Items
<1>2. CASE Open
  <2>1. /\ writer = "opening" /\ writer' = "writing" /\ output' = <<>> \o OpenOutput(job)
        /\ page_count' = 0 /\ job' = job /\ exit' = exit
    BY <1>2 DEF Open, Document
  <2>2. output' = OpenOutput(job)
    <3>1. OpenOutput(job) \in Seq(Items(pos))
      BY <1>1, ItemsAre DEF OpenOutput
    <3> QED
      BY <2>1, <3>1, ConcatEmptySeq
  <2>3. IsBody(job', output', page_count')
    BY <1>1, <2>1, <2>2, OpenedBody
  <2> QED
    BY <2>1, <2>3 DEF Document
<1>3. CASE Write
  <2>1. /\ writer = "writing" /\ writer' = "writing" /\ job' = job /\ exit' = exit
        /\ output' = WritePageResult(job, output, Head(results), page_count)
        /\ page_count' = page_count + 1
    BY <1>3 DEF Write
  <2>2. Head(results) \in 1 .. pos
    BY <1>3, ReceiveFromChannel DEF Write, TypeOK
  <2>3. IsBody(job', output', page_count')
    BY <1>1, <2>1, <2>2, WrittenBody DEF Document
  <2> QED
    BY <2>1, <2>3 DEF Document
<1>4. CASE Close
  <2>1. /\ writer = "writing" /\ writer' = "done" /\ job' = job /\ exit' = exit
        /\ output' = output \o CloseOutput(job)
    BY <1>4 DEF Close
  <2>2. IsDocument(job', output')
    BY <1>1, <2>1, ClosedBody DEF Document
  <2> QED
    BY <2>1, <2>2 DEF Document
<1>5. CASE Return
  <2>1. /\ writer \in {"done", "panicked"} /\ UNCHANGED <<job, writer, output, page_count>>
        /\ exit' \in {"ok", "error"} => writer = "done"
        /\ exit' = "panic" => writer = "panicked"
    <3>1. writer \in {"done", "panicked"} /\ UNCHANGED <<job, writer, output, page_count>>
      BY <1>5 DEF Return, writerVars
    <3>2. writer = "panicked" => exit' = "panic"
      BY <1>5 DEF Return
    <3>3. writer = "done" => exit' \in {"ok", "error"}
      <4>1. parse_error \in BOOLEAN
        BY DEF TypeOK
      <4> QED
        BY <1>5, <4>1 DEF Return
    <3> QED
      BY <3>1, <3>2, <3>3
  <2> QED
    BY <2>1 DEF Document
<1>6. CASE FailWrite
  <2>1. /\ job.failing /\ writer' = "panicked" /\ job' = job /\ exit' = exit
        /\ \/ writer = "opening" /\ output' = output
           \/ /\ writer = "writing"
              /\ output' \in RefusedPage(job, output, page_count) \cup RefusedClose(job, output)
    BY <1>6 DEF FailWrite
  <2>2. BeginsDocument(job, output')
    <3>1. CASE writer = "opening" /\ output' = output
      <4>1. output' = <<>>
        BY <3>1 DEF Document
      <4> QED
        BY <4>1, NothingBegun
    <3>2. CASE writer = "writing"
      <4>1. IsBody(job, output, page_count)
        BY <3>2 DEF Document
      <4> QED
        BY <1>1, <2>1, <3>2, <4>1, BegunBody
    <3> QED
      BY <2>1, <3>1, <3>2
  <2> QED
    BY <2>1, <2>2 DEF Document
<1>7. CASE UNCHANGED <<job, writer, output, page_count, exit>>
  BY <1>7 DEF Document
<1>8. CASE Start
  BY <1>8 DEF Start, Document
<1>9. CASE Reject
  BY <1>9 DEF Reject, Document, writerVars
<1> QED
  BY <1>2, <1>3, <1>4, <1>5, <1>6, <1>7, <1>8, <1>9
  DEF Next, Parser, ParsePage, EndOfDump, SendPage, Worker, Lock, TakePage, Leave, SendResult,
      Writer, Skip, Finished, vars, writerVars

\* With IInv the invariant of the document is one.
LEMMA DocumentInvariance == Spec => [](IInv /\ Document)
<1>1. Init => IInv /\ Document
  BY InitInv, InitDocument
<1>2. IInv /\ Document /\ [Next]_vars => IInv' /\ Document'
  BY StepInv, DocumentStep DEF IInv
<1> QED
  BY <1>1, <1>2, PTL DEF Spec

(***************************************************************************)
(* When process_parallel returns without a panic, whatever the order in    *)
(* which the workers deliver, the output is a JSON array or JSON lines, or *)
(* empty if the site info could not be read.  A panic leaves the beginning *)
(* of one, also where it cut off a page.                                   *)
(***************************************************************************)
THEOREM DocumentIsWritten == Spec => []OutputIsDocument
<1>1. Document => OutputIsDocument
  BY DEF Document, OutputIsDocument
<1> QED
  BY <1>1, DocumentInvariance, PTL

-----------------------------------------------------------------------------
(* Places                                                                  *)

\* The places a page can be at share no page.
Apart ==
  /\ Outgoing \cap Range(work) = {} /\ Outgoing \cap AtWorkers = {}
  /\ Outgoing \cap Range(results) = {} /\ Outgoing \cap Pages(output) = {}
  /\ Outgoing \cap skipped_pages = {}
  /\ Range(work) \cap AtWorkers = {} /\ Range(work) \cap Range(results) = {}
  /\ Range(work) \cap Pages(output) = {} /\ Range(work) \cap skipped_pages = {}
  /\ AtWorkers \cap Range(results) = {} /\ AtWorkers \cap Pages(output) = {}
  /\ AtWorkers \cap skipped_pages = {}
  /\ Range(results) \cap Pages(output) = {} /\ Range(results) \cap skipped_pages = {}
  /\ Pages(output) \cap skipped_pages = {}

\* Within a place every page occurs once.
Once ==
  /\ IsInjective(work) /\ IsInjective(results)
  /\ \A v, w \in Workers :
       worker[v] = "busy" /\ worker[w] = "busy" /\ item[v] = item[w] => v = w
  /\ \A n, m \in DOMAIN output : output[n].kind = "page" /\ output[n] = output[m] => n = m

LEMMA OnePlaceIs == Apart /\ Once => OnePlace
<1> SUFFICES ASSUME Apart, Once PROVE OnePlace
  OBVIOUS
<1> DEFINE places == <<Outgoing, Range(work), AtWorkers, Range(results),
                       Pages(output), skipped_pages>>
<1>1. \A i, j \in DOMAIN places : i # j => places[i] \cap places[j] = {}
  <2>1. DOMAIN places = {1, 2, 3, 4, 5, 6}
    OBVIOUS
  <2>2. /\ places[1] = Outgoing /\ places[2] = Range(work) /\ places[3] = AtWorkers
        /\ places[4] = Range(results) /\ places[5] = Pages(output)
        /\ places[6] = skipped_pages
    OBVIOUS
  <2> HIDE DEF places
  <2> QED
    BY <2>1, <2>2 DEF Apart
<1> QED
  BY <1>1 DEF Once, OnePlace

\* Appending a page a channel does not have, and receiving one.
LEMMA ChannelOnce ==
  ASSUME NEW S, NEW s \in Seq(S), IsInjective(s)
  PROVE  /\ \A e \in S : e \notin Range(s) => IsInjective(Append(s, e))
         /\ s # <<>> => IsInjective(Tail(s)) /\ Head(s) \notin Range(Tail(s))
<1>1. ASSUME NEW e \in S, e \notin Range(s)
      PROVE  IsInjective(Append(s, e))
  <2>1. /\ Len(s) \in Nat /\ DOMAIN s = 1 .. Len(s)
        /\ DOMAIN Append(s, e) = 1 .. Len(s) + 1
        /\ \A i \in 1 .. Len(s) : Append(s, e)[i] = s[i]
        /\ Append(s, e)[Len(s) + 1] = e
    BY AppendProperties, LenProperties
  <2>2. \A i \in 1 .. Len(s) : s[i] # e
    BY <1>1, <2>1 DEF Range
  <2> QED
    BY <2>1, <2>2 DEF IsInjective
<1>2. ASSUME s # <<>>
      PROVE  IsInjective(Tail(s)) /\ Head(s) \notin Range(Tail(s))
  <2>1. /\ Len(s) \in Nat \ {0} /\ DOMAIN s = 1 .. Len(s)
        /\ DOMAIN Tail(s) = 1 .. Len(s) - 1
        /\ \A i \in 1 .. Len(s) - 1 : Tail(s)[i] = s[i + 1]
        /\ Head(s) = s[1]
    BY <1>2, HeadTailProperties, EmptySeq, LenProperties
  <2>2. \A i \in 1 .. Len(s) - 1 : i + 1 \in 1 .. Len(s) /\ i + 1 # 1
    BY <2>1
  <2>3. \A i, j \in 1 .. Len(s) : s[i] = s[j] => i = j
    BY <2>1 DEF IsInjective
  <2>4. IsInjective(Tail(s))
    BY <2>1, <2>2, <2>3 DEF IsInjective
  <2>5. Head(s) \notin Range(Tail(s))
    BY <2>1, <2>2, <2>3 DEF Range
  <2> QED
    BY <2>4, <2>5
<1> QED
  BY <1>1, <1>2

PagesOnce(out) == \A n, m \in DOMAIN out : out[n].kind = "page" /\ out[n] = out[m] => n = m

\* Appending punctuation, or a page the output does not have.
LEMMA OutputOnce ==
  ASSUME NEW S, NEW s \in Seq(S), PagesOnce(s), NEW x \in S, NEW y \in S,
         x.kind = "page" => x \notin Range(s), y.kind = "page" => y \notin Range(s),
         x.kind # "page" \/ y.kind # "page"
  PROVE  PagesOnce(s \o <<x>>) /\ PagesOnce(s \o <<x, y>>)
<1>1. /\ Len(s) \in Nat /\ DOMAIN s = 1 .. Len(s)
      /\ DOMAIN (s \o <<x>>) = 1 .. Len(s) + 1
      /\ \A n \in 1 .. Len(s) : (s \o <<x>>)[n] = s[n]
      /\ (s \o <<x>>)[Len(s) + 1] = x
      /\ DOMAIN (s \o <<x, y>>) = 1 .. Len(s) + 2
      /\ \A n \in 1 .. Len(s) : (s \o <<x, y>>)[n] = s[n]
      /\ (s \o <<x, y>>)[Len(s) + 1] = x
      /\ (s \o <<x, y>>)[Len(s) + 2] = y
  BY Pieces, LenProperties
<1>2. /\ \A n \in 1 .. Len(s) : s[n] \in Range(s)
      /\ \A n, m \in 1 .. Len(s) : s[n].kind = "page" /\ s[n] = s[m] => n = m
  BY <1>1 DEF Range, PagesOnce
<1>3. PagesOnce(s \o <<x>>)
  <2> SUFFICES ASSUME NEW n \in 1 .. Len(s) + 1, NEW m \in 1 .. Len(s) + 1,
                      (s \o <<x>>)[n].kind = "page", (s \o <<x>>)[n] = (s \o <<x>>)[m]
               PROVE  n = m
    BY <1>1 DEF PagesOnce
  <2>1. n \in 1 .. Len(s) \/ n = Len(s) + 1
    BY <1>1
  <2>2. m \in 1 .. Len(s) \/ m = Len(s) + 1
    BY <1>1
  <2> QED
    BY <1>1, <1>2, <2>1, <2>2
<1>4. PagesOnce(s \o <<x, y>>)
  <2> SUFFICES ASSUME NEW n \in 1 .. Len(s) + 2, NEW m \in 1 .. Len(s) + 2,
                      (s \o <<x, y>>)[n].kind = "page", (s \o <<x, y>>)[n] = (s \o <<x, y>>)[m]
               PROVE  n = m
    BY <1>1 DEF PagesOnce
  <2>1. n \in 1 .. Len(s) \/ n = Len(s) + 1 \/ n = Len(s) + 2
    BY <1>1
  <2>2. m \in 1 .. Len(s) \/ m = Len(s) + 1 \/ m = Len(s) + 2
    BY <1>1
  <2> QED
    BY <1>1, <1>2, <2>1, <2>2
<1> QED
  BY <1>3, <1>4

LEMMA InitApart == Init => Apart /\ Once
<1> SUFFICES ASSUME Init PROVE Apart /\ Once
  OBVIOUS
<1>1. DOMAIN <<>> = {}
  OBVIOUS
<1>2. Range(<<>>) = {} /\ Pages(<<>>) = {}
  BY <1>1 DEF Range, Pages
<1>3. Outgoing = {} /\ AtWorkers = {}
  BY DEF Init, Outgoing, AtWorkers
<1> QED
  BY <1>1, <1>2, <1>3 DEF Init, Apart, Once, IsInjective

\* The parser's next page is new to every place.
LEMMA ParserApart ==
  ASSUME IInv, Apart, Once, Parser
  PROVE  Apart' /\ Once'
<1>1. /\ Range(work) \cup AtWorkers \cup Range(results) \cup Pages(output) \cup skipped_pages
           \subseteq Accepted
      /\ pos \in Nat
  BY JobAssumption, LenProperties
  DEF IInv, TypeOK, JobKind, NothingLost, Somewhere, SettledPages
<1>2. \A p \in Accepted : p <= pos
  BY DEF Accepted
<1>3. CASE ParsePage
  <2>1. /\ Outgoing' \subseteq {pos + 1}
        /\ Range(work)' = Range(work) /\ AtWorkers' = AtWorkers
        /\ Range(results)' = Range(results) /\ Pages(output)' = Pages(output)
        /\ skipped_pages' = skipped_pages
    BY <1>3 DEF ParsePage, Outgoing, AtWorkers, workerVars, writerVars
  <2>2. pos + 1 \notin Accepted
    BY <1>1, <1>2
  <2>3. Apart'
    BY <1>1, <2>1, <2>2 DEF Apart
  <2> QED
    BY <1>3, <2>3 DEF ParsePage, Once, workerVars, writerVars
<1>4. CASE EndOfDump
  <2>1. /\ Outgoing' = {}
        /\ Range(work)' = Range(work) /\ AtWorkers' = AtWorkers
        /\ Range(results)' = Range(results) /\ Pages(output)' = Pages(output)
        /\ skipped_pages' = skipped_pages
    BY <1>4 DEF EndOfDump, Outgoing, AtWorkers, workerVars, writerVars
  <2>2. Apart'
    BY <2>1 DEF Apart
  <2> QED
    BY <1>4, <2>2 DEF EndOfDump, Once, workerVars, writerVars
<1>5. CASE SendPage
  <2>1. pos \in 1 .. pos /\ work \in Seq(1 .. pos)
    BY <1>1, <1>5 DEF SendPage, IInv, TypeOK
  <2>2. Outgoing = {pos} /\ Outgoing' = {} /\ pos \notin Range(work)
    BY <1>5 DEF SendPage, Outgoing, Apart
  <2>3. Range(work)' = Range(work) \cup {pos} /\ IsInjective(work')
    BY <1>5, <2>1, <2>2, AppendToChannel, ChannelOnce DEF SendPage, Once
  <2>4. /\ AtWorkers' = AtWorkers
        /\ Range(results)' = Range(results) /\ Pages(output)' = Pages(output)
        /\ skipped_pages' = skipped_pages
    BY <1>5 DEF SendPage, AtWorkers, workerVars, writerVars
  <2>5. Apart'
    BY <2>2, <2>3, <2>4 DEF Apart
  <2> QED
    BY <1>5, <2>3, <2>5 DEF SendPage, Once, workerVars, writerVars
<1> QED
  BY <1>3, <1>4, <1>5 DEF Parser

\* A worker takes a page from one channel and passes it to the other.
LEMMA WorkerApart ==
  ASSUME IInv, Apart, Once, NEW w \in Workers, Worker(w)
  PROVE  Apart' /\ Once'
<1>1. /\ TypeOK /\ worker \in [Workers -> {"idle", "busy", "done"}]
      /\ item \in [Workers -> 0 .. pos] /\ LockHeld
  BY DEF IInv, TypeOK
<1>2. CASE Lock(w) \/ Leave(w)
  <2>1. \A v \in Workers : worker'[v] = "busy" <=> worker[v] = "busy"
    BY <1>2, <1>1 DEF Lock, Leave, LockHeld
  <2>2. /\ AtWorkers' = AtWorkers /\ Outgoing' = Outgoing /\ Range(work)' = Range(work)
        /\ Range(results)' = Range(results) /\ Pages(output)' = Pages(output)
        /\ skipped_pages' = skipped_pages
    BY <1>2, <2>1 DEF Lock, Leave, AtWorkers, Outgoing, parserVars, writerVars
  <2>3. Apart'
    BY <2>2 DEF Apart
  <2> QED
    BY <1>2, <2>1, <2>3 DEF Lock, Leave, Once, writerVars
<1>3. CASE TakePage(w)
  <2>1. /\ work \in Seq(1 .. pos) /\ work # <<>> /\ work' = Tail(work)
        /\ worker[w] # "busy"
    BY <1>1, <1>3 DEF TakePage, TypeOK, LockHeld
  <2>2. /\ Range(work) = Range(work)' \cup {Head(work)}
        /\ Head(work) \notin Range(work)' /\ IsInjective(work')
    BY <2>1, ReceiveFromChannel, ChannelOnce DEF Once
  <2>3. /\ \A v \in Workers : worker'[v] = "busy" <=> worker[v] = "busy" \/ v = w
        /\ \A v \in Workers : item'[v] = IF v = w THEN Head(work) ELSE item[v]
    BY <1>1, <1>3 DEF TakePage
  <2>4. AtWorkers' = AtWorkers \cup {Head(work)}
    BY <2>1, <2>3 DEF AtWorkers
  <2>5. /\ Outgoing' = Outgoing
        /\ Range(results)' = Range(results) /\ Pages(output)' = Pages(output)
        /\ skipped_pages' = skipped_pages
    BY <1>3 DEF TakePage, Outgoing, parserVars, writerVars
  <2>6. Apart'
    BY <2>2, <2>4, <2>5 DEF Apart
  <2>7. \A v \in Workers : worker[v] = "busy" => item[v] # Head(work)
    BY <2>2 DEF Apart, AtWorkers
  <2> QED
    BY <1>3, <2>2, <2>3, <2>6, <2>7 DEF TakePage, Once, writerVars
<1>4. CASE SendResult(w)
  <2>1. /\ item[w] \in 1 .. pos /\ results \in Seq(1 .. pos)
        /\ worker[w] = "busy" /\ results' = Append(results, item[w])
    <3>1. pos \in Nat
      BY <1>1, JobAssumption, LenProperties DEF TypeOK, JobKind
    <3> QED
      BY <3>1, <1>1, <1>4 DEF SendResult, TypeOK, NoPage
  <2>2. item[w] \in AtWorkers /\ item[w] \notin Range(results)
    BY <2>1 DEF AtWorkers, Apart
  <2>3. Range(results') = Range(results) \cup {item[w]} /\ IsInjective(results')
    <3>1. ASSUME NEW S, results \in Seq(S), NEW e \in S, e \notin Range(results)
          PROVE  /\ Range(Append(results, e)) = Range(results) \cup {e}
                 /\ IsInjective(Append(results, e))
      BY <3>1, AppendToChannel, ChannelOnce DEF Once
    <3> QED
      BY <2>1, <2>2, <3>1
  <2>4. /\ \A v \in Workers : worker'[v] = "busy" <=> worker[v] = "busy" /\ v # w
        /\ \A v \in Workers : v # w => item'[v] = item[v]
    BY <1>1, <1>4 DEF SendResult
  <2>5. AtWorkers = AtWorkers' \cup {item[w]} /\ item[w] \notin AtWorkers'
    BY <2>1, <2>4 DEF AtWorkers, Once
  <2>6. /\ Outgoing' = Outgoing
        /\ Range(work)' = Range(work) /\ Pages(output)' = Pages(output)
        /\ skipped_pages' = skipped_pages
    BY <1>4 DEF SendResult, Outgoing, parserVars, writerVars
  <2>7. Apart'
    BY <2>3, <2>5, <2>6, <2>2 DEF Apart
  <2> QED
    BY <1>4, <2>3, <2>4, <2>7 DEF SendResult, Once, writerVars
<1> QED
  BY <1>2, <1>3, <1>4 DEF Worker

\* The result the main thread receives.
LEMMA Received ==
  ASSUME IInv, Apart, Once, results # <<>>
  PROVE  /\ Head(results) \in 1 .. pos /\ Head(results) \in FirstPages(job)
         /\ Head(results) \notin Pages(output) \cup skipped_pages
         /\ Head(results) \notin Range(Tail(results)) /\ IsInjective(Tail(results))
         /\ Range(results) = Range(Tail(results)) \cup {Head(results)}
<1>1. /\ Head(results) \in 1 .. pos
      /\ Range(results) = Range(Tail(results)) \cup {Head(results)}
      /\ Head(results) \notin Range(Tail(results)) /\ IsInjective(Tail(results))
  BY ReceiveFromChannel, ChannelOnce DEF IInv, TypeOK, Once
<1>2. Head(results) \in Accepted
  BY <1>1 DEF IInv, NothingLost, Somewhere
<1> QED
  BY <1>1, <1>2 DEF Apart, Accepted

\* What the main thread appends keeps the pages of the output distinct.
LEMMA WrittenOnce ==
  ASSUME TypeOK, PagesOnce(output)
  PROVE  /\ PagesOnce(output \o OpenOutput(job)) /\ PagesOnce(output \o CloseOutput(job))
         /\ \A p \in 1 .. pos : p \notin Pages(output) =>
              PagesOnce(WritePageResult(job, output, p, page_count))
         /\ \A out \in RefusedPage(job, output, page_count) \cup RefusedClose(job, output) :
              PagesOnce(out)
<1>1. /\ job.format \in {"json", "lines"} /\ pos \in Nat
      /\ page_count \in Nat /\ output \in Seq(OutputItem)
  BY JobAssumption, LenProperties DEF JobKind, TypeOK
<1>2. ASSUME NEW m \in {"part", "open", "comma", "close", "newline"}
      PROVE  Mark(m) \in OutputItem /\ Mark(m).kind # "page"
  BY <1>1 DEF Mark, OutputItem
<1>3. output \o <<>> = output
  BY <1>1, ConcatEmptySeq
<1>4. PagesOnce(output \o <<Mark("open")>>) /\ PagesOnce(output \o <<Mark("close")>>)
  <2>1. ASSUME NEW x \in OutputItem, x.kind # "page"
        PROVE  PagesOnce(output \o <<x>>)
    BY <1>1, <2>1, OutputOnce
  <2> QED
    BY <1>2, <2>1
<1>5. ASSUME NEW p \in 1 .. pos, p \notin Pages(output)
      PROVE  PagesOnce(WritePageResult(job, output, p, page_count))
  <2>1. PageItem(p) \in OutputItem /\ PageItem(p).kind = "page" /\ PageItem(p).page = p
    BY <1>1 DEF PageItem, OutputItem
  <2>2. PageItem(p) \notin Range(output)
    BY <1>5, <2>1 DEF Pages
  <2>3. /\ Mark("comma") \in OutputItem /\ Mark("comma").kind # "page"
        /\ Mark("newline") \in OutputItem /\ Mark("newline").kind # "page"
    BY <1>2
  <2>4. /\ PagesOnce(output \o <<PageItem(p)>>)
        /\ PagesOnce(output \o <<PageItem(p), Mark("newline")>>)
    BY <1>1, <2>1, <2>2, <2>3, OutputOnce
  <2>5. PagesOnce(output \o <<Mark("comma"), PageItem(p)>>)
    BY <1>1, <2>1, <2>2, <2>3, OutputOnce
  <2>6. CASE job.format = "lines"
    BY <2>4, <2>6 DEF WritePageResult
  <2>7. CASE job.format = "json" /\ page_count = 0
    BY <2>4, <2>7 DEF WritePageResult
  <2>8. CASE job.format = "json" /\ page_count # 0
    <3>1. page_count > 0
      BY <2>8, <1>1
    <3> QED
      BY <2>5, <2>8, <3>1 DEF WritePageResult
  <2> QED
    BY <1>1, <2>6, <2>7, <2>8
<1>6. PagesOnce(output \o OpenOutput(job)) /\ PagesOnce(output \o CloseOutput(job))
  BY <1>3, <1>4 DEF OpenOutput, CloseOutput
<1>7. ASSUME NEW s \in Seq(OutputItem), PagesOnce(s), NEW m \in {"part", "comma"}
      PROVE  s \o <<Mark(m)>> \in Seq(OutputItem) /\ PagesOnce(s \o <<Mark(m)>>)
  <2>1. Mark(m) \in OutputItem /\ Mark(m).kind # "page"
    BY <1>2
  <2>2. <<Mark(m)>> \in Seq(OutputItem)
    BY <2>1
  <2> QED
    BY <1>7, <2>1, <2>2, OutputOnce, ConcatProperties
<1>8. /\ PagesOnce(output \o <<Mark("part")>>) /\ PagesOnce(output \o <<Mark("comma")>>)
      /\ PagesOnce((output \o <<Mark("comma")>>) \o <<Mark("part")>>)
  BY <1>1, <1>7
<1>9. \A out \in RefusedPage(job, output, page_count) \cup RefusedClose(job, output) :
        PagesOnce(out)
  BY <1>6, <1>8 DEF RefusedPage, RefusedClose
<1> QED
  BY <1>5, <1>6, <1>9

\* The main thread settles the page it receives.
LEMMA WriterApart ==
  ASSUME IInv, Apart, Once, Writer
  PROVE  Apart' /\ Once'
<1>1. /\ Outgoing' = Outgoing /\ Range(work)' = Range(work) /\ AtWorkers' = AtWorkers
      /\ UNCHANGED <<work, worker, item>>
  BY DEF Writer, Start, Reject, Open, Skip, Write, FailWrite, Close, Return,
         Outgoing, AtWorkers, parserVars, workerVars
<1>2. TypeOK /\ PagesOnce(output)
  BY DEF IInv, Once, PagesOnce
<1>3. SUFFICES Apart' /\ IsInjective(results') /\ PagesOnce(output')
  BY <1>1 DEF Once, PagesOnce
<1>4. CASE Open
  <2>1. Pages(output)' = Pages(output) /\ PagesOnce(output')
    BY <1>4, <1>2, PagesOfOutput, WrittenOnce DEF Open
  <2> QED
    BY <1>1, <1>4, <2>1 DEF Open, Apart, Once
<1>5. CASE Close
  <2>1. Pages(output)' = Pages(output) /\ PagesOnce(output')
    BY <1>5, <1>2, PagesOfOutput, WrittenOnce DEF Close
  <2> QED
    BY <1>1, <1>5, <2>1 DEF Close, Apart, Once
<1>6. CASE Skip
  <2>1. /\ output' = output /\ skipped_pages' = skipped_pages \cup {Head(results)}
        /\ results # <<>> /\ results' = Tail(results)
    BY <1>6 DEF Skip
  <2>2. Range(results) = Range(results)' \cup {Head(results)}
        /\ Head(results) \notin Range(results)' /\ IsInjective(results')
        /\ Head(results) \notin Pages(output)
    BY <2>1, Received
  <2> QED
    BY <1>1, <1>2, <2>1, <2>2 DEF Apart
<1>7. CASE Write
  <2>1. /\ output' = WritePageResult(job, output, Head(results), page_count)
        /\ skipped_pages' = skipped_pages
        /\ results # <<>> /\ results' = Tail(results)
    BY <1>7 DEF Write
  <2>2. /\ Range(results) = Range(results)' \cup {Head(results)}
        /\ Head(results) \notin Range(results)' /\ IsInjective(results')
        /\ Head(results) \in 1 .. pos
        /\ Head(results) \notin Pages(output) \cup skipped_pages
    BY <2>1, Received
  <2>3. Pages(output)' = Pages(output) \cup {Head(results)} /\ PagesOnce(output')
    BY <2>1, <2>2, <1>2, PagesOfOutput, WrittenOnce
  <2> QED
    BY <1>1, <2>1, <2>2, <2>3 DEF Apart
<1>8. CASE FailWrite
  <2>1. /\ skipped_pages' = skipped_pages
        /\ \/ output' = output
           \/ output' \in RefusedPage(job, output, page_count) \cup RefusedClose(job, output)
        /\ results' = results \/ (results # <<>> /\ results' = Tail(results))
    BY <1>8 DEF FailWrite
  <2>2. Range(results)' \subseteq Range(results) /\ IsInjective(results')
    BY <2>1, Received DEF Once
  <2>3. Pages(output)' = Pages(output) /\ PagesOnce(output')
    BY <1>2, <2>1, PagesOfOutput, WrittenOnce
  <2> QED
    BY <1>1, <2>1, <2>2, <2>3 DEF Apart
<1>9. CASE Return
  BY <1>1, <1>2, <1>9 DEF Return, writerVars, Apart, Once
<1>10. CASE Start \/ Reject
  BY <1>1, <1>2, <1>10 DEF Start, Reject, writerVars, Apart, Once
<1> QED
  BY <1>4, <1>5, <1>6, <1>7, <1>8, <1>9, <1>10 DEF Writer

LEMMA ApartInvariance == Spec => [](IInv /\ Apart /\ Once)
<1>1. Init => IInv /\ Apart /\ Once
  BY InitInv, InitApart
<1>2. IInv /\ Apart /\ Once /\ [Next]_vars => IInv' /\ Apart' /\ Once'
  <2> SUFFICES ASSUME IInv, Apart, Once, [Next]_vars
               PROVE  Apart' /\ Once'
    BY StepInv
  <2>1. CASE UNCHANGED vars
    BY <2>1
    DEF vars, parserVars, workerVars, writerVars, Apart, Once, Outgoing, AtWorkers
  <2> QED
    BY <2>1, ParserApart, WorkerApart, WriterApart DEF Next, Finished
<1> QED
  BY <1>1, <1>2, PTL DEF Spec

(***************************************************************************)
(* A page is at one place at a time: no thread takes a page another one    *)
(* has, and none is written or reported twice.                             *)
(***************************************************************************)
THEOREM PagesHaveOnePlace == Spec => []OnePlace
BY OnePlaceIs, ApartInvariance, PTL

-----------------------------------------------------------------------------
(* The stream                                                              *)

\* Before the limit is met every selected page is one of the first; an error
\* is recorded only for a dump whose end was reached.
Unlimited ==
  /\ parser # "done" => {p \in SelectedPages(job) : p <= pos} \subseteq FirstPages(job)
  /\ parse_error => ReportsError(job)

LEMMA UnlimitedStep ==
  ASSUME IInv, Unlimited, [Next]_vars
  PROVE  Unlimited'
<1>1. /\ pos \in Nat /\ DOMAIN job.pages = 1 .. Len(job.pages) /\ Len(job.pages) \in Nat
      /\ parse_error \in BOOLEAN
  BY JobAssumption, LenProperties DEF IInv, TypeOK, JobKind
<1>2. CASE ParsePage
  <2>1. /\ job' = job /\ parse_error' = parse_error /\ pos' = pos + 1
        /\ parser = "parsing"
        /\ parser' \in {"parsing", "sending"} => pos' \in FirstPages(job) \/ pos' \notin SelectedPages(job)
    <3>1. /\ job' = job /\ parse_error' = parse_error /\ pos' = pos + 1
          /\ parser = "parsing"
      BY <1>2 DEF ParsePage
    <3>2. pos' \in FirstPages(job) <=> parser' = "sending"
      BY <1>2, NextPage
    <3>3. parser' = "parsing" => pos' \notin SelectedPages(job)
      BY <1>2 DEF ParsePage, SelectedPages
    <3> QED
      BY <3>1, <3>2, <3>3
  <2>2. \A p \in SelectedPages(job) : p <= pos' => p <= pos \/ p = pos'
    BY <1>1, <2>1 DEF SelectedPages
  <2>3. parser' # "done" => parser' \in {"parsing", "sending"}
    BY <1>2 DEF ParsePage
  <2> QED
    BY <2>1, <2>2, <2>3 DEF Unlimited
<1>3. CASE EndOfDump
  <2>1. /\ job' = job /\ pos = Len(job.pages) /\ parser = "parsing" /\ parser' = "done"
        /\ parse_error' = job.malformed
    BY <1>3 DEF EndOfDump
  <2>2. SelectedPages(job) = FirstPages(job)
    <3>1. \A p \in SelectedPages(job) : p <= pos
      BY <1>1, <2>1 DEF SelectedPages
    <3> QED
      BY <2>1, <3>1 DEF Unlimited, FirstPages
  <2> QED
    BY <2>1, <2>2 DEF Unlimited, ReportsError
<1>4. CASE SendPage
  BY <1>4 DEF SendPage, Unlimited
<1>5. CASE UNCHANGED <<job, parserVars>>
  BY <1>5 DEF Unlimited, parserVars
<1> QED
  BY <1>2, <1>3, <1>4, <1>5
  DEF Next, Parser, Worker, Writer, Lock, TakePage, Leave, SendResult,
      Start, Reject, Open, Skip, Write, FailWrite, Close, Return, Finished, vars

\* The parser has reached the end or the limit when the threads are joined.
LEMMA AllSettled ==
  ASSUME IInv, Joined, writer = "done"
  PROVE  SettledPages = FirstPages(job)
<1>1. parser = "done" /\ \A w \in Workers : worker[w] = "done"
  BY DEF Joined
<1>2. \E w \in Workers : TRUE
  BY WorkersAssumption, FS_EmptySet
<1>3. work = <<>> /\ results = <<>>
  BY <1>1, <1>2 DEF IInv, Drained, Closed, ResultsClosed
<1>4. Outgoing = {} /\ AtWorkers = {} /\ Range(work) = {} /\ Range(results) = {}
  <2>1. DOMAIN <<>> = {}
    OBVIOUS
  <2> QED
    BY <1>1, <1>3, <2>1 DEF Outgoing, AtWorkers, Range
<1>5. SettledPages = Accepted
  BY <1>4 DEF IInv, NothingLost, Somewhere
<1>6. Accepted = FirstPages(job)
  BY <1>1 DEF IInv, Ended, Accepted
<1> QED
  BY <1>5, <1>6

SInv == IInv /\ Document /\ Apart /\ Once /\ Unlimited

\* The stream's notions of a job are those of the pipeline.
LEMMA SameJob ==
  ASSUME NEW j
  PROVE  /\ Stream!FirstPages(j) = FirstPages(j)
         /\ Stream!ReportsError(j) <=> ReportsError(j)
<1>1. Stream!SelectedPages(j) = SelectedPages(j)
  BY DEF Stream!SelectedPages, SelectedPages
<1>2. \A n : Stream!LimitReached(j, n) <=> LimitReached(j, n)
  BY DEF Stream!LimitReached, LimitReached
<1>3. \A S : Stream!Cardinality(S) = Cardinality(S)
  BY Zenon DEF Stream!Cardinality, Cardinality
<1>4. Stream!FirstPages(j) = FirstPages(j)
  BY <1>1, <1>2, <1>3 DEF Stream!FirstPages, FirstPages
<1> QED
  BY <1>1, <1>4 DEF Stream!ReportsError, ReportsError

\* Receiving settles a page, returning finishes or breaks the stream, and
\* every other step is a stutter.
LEMMA StepIsStream ==
  ASSUME SInv, [Next]_vars
  PROVE  [Stream!StreamNext]_(Stream!stream)
<1>1. writer = "writing" => exit = "running"
  BY DEF SInv, Document, IInv, TypeOK
<1>2. CASE Skip
  <2>1. /\ results # <<>> /\ ~job.pages[Head(results)].valid /\ writer = "writing"
        /\ skipped_pages' = skipped_pages \cup {Head(results)}
        /\ output' = output /\ job' = job /\ exit' = exit
    BY <1>2 DEF Skip
  <2>2. /\ Head(results) \in FirstPages(job)
        /\ Head(results) \notin Pages(output) \cup skipped_pages
    BY <2>1, Received DEF SInv
  <2>3. Stream!Settle(Head(results))
    BY <1>1, <2>1, <2>2, SameJob DEF Stream!Settle
  <2> QED
    BY <2>2, <2>3, SameJob DEF Stream!StreamNext
<1>3. CASE Write
  <2>1. /\ results # <<>> /\ job.pages[Head(results)].valid /\ writer = "writing"
        /\ output' = WritePageResult(job, output, Head(results), page_count)
        /\ skipped_pages' = skipped_pages /\ job' = job /\ exit' = exit
    BY <1>3 DEF Write
  <2>2. /\ Head(results) \in FirstPages(job) /\ Head(results) \in 1 .. pos
        /\ Head(results) \notin Pages(output) \cup skipped_pages
    BY <2>1, Received DEF SInv
  <2>3. Pages(output') = Pages(output) \cup {Head(results)}
    BY <2>1, <2>2, PagesOfOutput DEF SInv, IInv
  <2>4. Stream!Settle(Head(results))
    BY <1>1, <2>1, <2>2, <2>3, SameJob DEF Stream!Settle
  <2> QED
    BY <2>2, <2>4, SameJob DEF Stream!StreamNext
<1>4. CASE Return
  <2>1. /\ exit = "running" /\ writer \in {"done", "panicked"} /\ Joined
        /\ UNCHANGED <<job, output, skipped_pages>>
    BY <1>4 DEF Return, writerVars
  <2>2. CASE writer = "panicked"
    <3>1. exit' = "panic" /\ job.failing
      BY <1>4, <2>2 DEF Return, SInv, Document
    <3> QED
      BY <2>1, <3>1 DEF Stream!StreamNext, Stream!Break
  <2>3. CASE writer = "done"
    <3>1. Pages(output) \cup skipped_pages = FirstPages(job)
      BY <2>1, <2>3, AllSettled DEF SInv, SettledPages
    <3>2. parse_error <=> ReportsError(job)
      BY <2>1 DEF SInv, IInv, Unlimited, Ended, Joined
    <3>3. exit' = IF parse_error THEN "error" ELSE "ok"
      <4>1. CASE parse_error
        BY <1>4, <2>3, <4>1 DEF Return
      <4>2. CASE ~parse_error
        BY <1>4, <2>3, <4>2 DEF Return
      <4> QED
        BY <4>1, <4>2
    <3>4. exit' = IF ReportsError(job) THEN "error" ELSE "ok"
      BY <3>2, <3>3
    <3> QED
      BY <2>1, <3>1, <3>4, SameJob DEF Stream!StreamNext, Stream!Finish
  <2> QED
    BY <2>1, <2>2, <2>3
<1>5. CASE UNCHANGED <<job, Pages(output), skipped_pages, exit>>
  BY <1>5 DEF Stream!stream
<1>6. CASE Open \/ Close
  <2>1. Pages(output') = Pages(output)
    <3>1. /\ Pages(output \o OpenOutput(job)) = Pages(output)
          /\ Pages(output \o CloseOutput(job)) = Pages(output)
      BY PagesOfOutput DEF SInv, IInv
    <3> QED
      BY <1>6, <3>1 DEF Open, Close
  <2> QED
    BY <1>6, <2>1, <1>5 DEF Open, Close
<1>7. CASE FailWrite
  <2>1. /\ UNCHANGED <<job, skipped_pages, exit>>
        /\ \/ output' = output
           \/ output' \in RefusedPage(job, output, page_count) \cup RefusedClose(job, output)
    BY <1>7 DEF FailWrite
  <2>2. Pages(output') = Pages(output)
    BY <2>1, PagesOfOutput DEF SInv, IInv
  <2> QED
    BY <1>5, <2>1, <2>2
<1>8. CASE Reject
  <2>1. /\ exit = "running" /\ job.headless /\ exit' = "error"
        /\ UNCHANGED <<job, output, skipped_pages>>
    BY <1>8 DEF Reject, writerVars
  <2>2. job.malformed /\ job.pages = <<>>
    BY <2>1, JobAssumption DEF SInv, IInv, TypeOK
  <2>3. FirstPages(job) = {} /\ SelectedPages(job) = {}
    BY <2>2 DEF FirstPages, SelectedPages
  <2>4. Pages(output) \cup skipped_pages = {}
    BY <2>3 DEF SInv, IInv, NothingLost, Somewhere, Accepted, SettledPages
  <2>5. Stream!Finish
    BY <2>1, <2>2, <2>3, <2>4, SameJob DEF Stream!Finish, ReportsError
  <2> QED
    BY <2>5 DEF Stream!StreamNext
<1> QED
  BY <1>2, <1>3, <1>4, <1>5, <1>6, <1>7, <1>8
  DEF Next, Parser, ParsePage, EndOfDump, SendPage, Worker, Lock, TakePage, Leave, SendResult,
      Writer, Start, Finished, vars, writerVars

(***************************************************************************)
(* process_parallel is a page stream: whatever the threads do, each of the *)
(* first N selected pages is settled once, in some order, and the result   *)
(* of the run is that of the dump.                                         *)
(***************************************************************************)
THEOREM PipelineIsStream == Spec => ImplementsStream
<1>1. Init => Stream!StreamInit
  <2> SUFFICES ASSUME Init PROVE Stream!StreamInit
    OBVIOUS
  <2>1. DOMAIN <<>> = {}
    OBVIOUS
  <2>2. Pages(<<>>) = {}
    BY <2>1 DEF Pages, Range
  <2> QED
    BY <2>2 DEF Init, Stream!StreamInit
<1>2. Init => SInv
  <2>1. Init => Unlimited
    <3> SUFFICES ASSUME Init PROVE Unlimited
      OBVIOUS
    <3>1. DOMAIN job.pages = 1 .. Len(job.pages) /\ Len(job.pages) \in Nat
      BY JobAssumption, LenProperties DEF Init, JobKind
    <3>2. \A p \in SelectedPages(job) : ~(p <= pos)
      BY <3>1 DEF Init, SelectedPages
    <3> QED
      BY <3>2 DEF Init, Unlimited
  <2> QED
    BY <2>1, InitInv, InitDocument, InitApart DEF SInv
<1>3. SInv /\ [Next]_vars => Unlimited'
  BY UnlimitedStep DEF SInv
<1>4. SInv /\ [Next]_vars => [Stream!StreamNext]_(Stream!stream)
  BY StepIsStream
<1>5. SInv <=> IInv /\ Document /\ Apart /\ Once /\ Unlimited
  BY DEF SInv
<1>6. Spec => []SInv
  BY <1>2, <1>3, <1>5, DocumentInvariance, ApartInvariance, PTL DEF Spec
<1> QED
  BY <1>1, <1>4, <1>6, PTL DEF Spec, ImplementsStream, Stream!StreamSpec


-----------------------------------------------------------------------------
(* The run ends                                                            *)

ToRead == Len(job.pages) - pos
AtParser == CASE parser = "parsing" -> 1 [] parser = "sending" -> 6 [] parser = "done" -> 0
Unlocked == IF lock = Nobody THEN 1 ELSE 0
AtWriter == CASE writer = "starting" -> 3 [] writer = "opening" -> 2
              [] writer = "writing" -> 1 [] OTHER -> 0
ToReturn == IF exit = "running" THEN 1 ELSE 0
Count(states, state) == Cardinality({w \in Workers : states[w] = state})
Idle == Count(worker, "idle")
Busy == Count(worker, "busy")
Queued == Len(work)
Answers == Len(results)

(***************************************************************************)
(* What is left to do: the pages to be read, and for each thread and each  *)
(* channel how many steps what it holds is away from being settled.        *)
(***************************************************************************)
Remaining ==
  6 * ToRead + AtParser + 4 * Queued + 2 * Idle + 4 * Busy + Unlocked
  + Answers + AtWriter + ToReturn

\* A thread is not blocked: the conditions of the actions of Next.
CanStep ==
  \/ Spawned /\ parser = "parsing"
  \/ parser = "sending" /\ Len(work) < Capacity
  \/ \E w \in Workers :
       \/ Spawned /\ worker[w] = "idle" /\ lock = Nobody
       \/ lock = w /\ (work # <<>> \/ parser = "done")
       \/ worker[w] = "busy" /\ Len(results) < Capacity
  \/ writer = "starting" /\ exit = "running"
  \/ writer = "opening"
  \/ writer = "writing" /\ (results # <<>> \/ ResultsClosed)
  \/ exit = "running" /\ writer \in {"done", "panicked"} /\ Joined

\* The writer has panicked, the channel it received from is full, and a worker
\* has a result for it.
Hangs == writer = "panicked" /\ Len(results) = Capacity /\ \E w \in Workers : worker[w] = "busy"

(***************************************************************************)
(* As long as process_parallel has not returned some thread can go on, in  *)
(* every state the threads, the mutex and the channels can get into; the   *)
(* only exception is after a failed write, when workers wait for room in a *)
(* channel that nobody empties any more.                                   *)
(***************************************************************************)
THEOREM NeverStuck == Spec => [](exit = "running" => CanStep \/ Hangs)
<1>1. ASSUME IInv, exit = "running", ~CanStep
      PROVE  Hangs
  <2>1. /\ worker \in [Workers -> {"idle", "busy", "done"}] /\ lock \in Workers \cup {Nobody}
        /\ parser \in {"parsing", "sending", "done"}
        /\ writer \in {"opening", "writing", "done", "panicked"} /\ Spawned
        /\ Len(results) \in Nat /\ Len(results) <= Capacity
    BY <1>1, LenProperties DEF IInv, TypeOK, CanStep, Spawned
  <2>2. Capacity \in Nat /\ Capacity # 0
    BY WorkersAssumption, FS_CardinalityType DEF Capacity
  <2>3. Len(<<>>) = 0
    OBVIOUS
  <2>4. PICK u \in Workers : TRUE
    BY WorkersAssumption, FS_EmptySet
  \* The parser waits for room or is done.
  <2>5. parser = "done" \/ work # <<>>
    BY <1>1, <2>1, <2>2, <2>3 DEF CanStep
  \* Were no worker busy, none would be left: whoever has the mutex could go on.
  <2>6. ASSUME \A w \in Workers : worker[w] # "busy"
        PROVE  Joined
    <3>1. lock = Nobody
      BY <1>1, <2>1, <2>5 DEF CanStep
    <3>2. \A w \in Workers : worker[w] = "done"
      BY <1>1, <2>1, <2>6, <3>1 DEF CanStep
    <3>3. parser = "done"
      BY <1>1, <2>4, <3>2 DEF IInv, Drained
    <3> QED
      BY <3>2, <3>3 DEF Joined
  <2>7. ASSUME NEW w \in Workers, worker[w] = "busy"
        PROVE  Len(results) = Capacity /\ results # <<>>
    BY <1>1, <2>1, <2>2, <2>3, <2>7 DEF CanStep
  <2>8. writer # "opening"
    BY <1>1 DEF CanStep
  <2>9. writer # "writing"
    BY <1>1, <2>6, <2>7 DEF CanStep, Joined, ResultsClosed
  <2>10. writer # "done"
    BY <1>1, <2>6 DEF CanStep, IInv, Closed, ResultsClosed
  <2>11. writer = "panicked" /\ ~Joined
    BY <1>1, <2>1, <2>8, <2>9, <2>10 DEF CanStep
  <2> QED
    BY <2>6, <2>7, <2>11 DEF Hangs
<1> QED
  BY <1>1, Invariance, PTL

\* A worker that goes from one state to another.
LEMMA WorkerMoves ==
  ASSUME NEW states \in [Workers -> {"idle", "busy", "done"}], NEW w \in Workers,
         NEW state \in {"idle", "busy", "done"}, states[w] # state
  PROVE  LET moved == [states EXCEPT ![w] = state]
         IN  /\ Count(moved, state) = Count(states, state) + 1
             /\ Count(moved, states[w]) = Count(states, states[w]) - 1
             /\ \A other : other # state /\ other # states[w] =>
                   Count(moved, other) = Count(states, other)
<1> DEFINE moved == [states EXCEPT ![w] = state]
           Before(s) == {u \in Workers : states[u] = s}
           After(s) == {u \in Workers : moved[u] = s}
<1>1. IsFiniteSet(Before(state)) /\ IsFiniteSet(Before(states[w]))
  BY WorkersAssumption, FS_Subset
<1>2. After(state) = Before(state) \cup {w} /\ w \notin Before(state)
  OBVIOUS
<1>3. After(states[w]) = Before(states[w]) \ {w} /\ w \in Before(states[w])
  OBVIOUS
<1>4. \A other : other # state /\ other # states[w] => After(other) = Before(other)
  OBVIOUS
<1>5. \A s : Count(moved, s) = Cardinality(After(s)) /\ Count(states, s) = Cardinality(Before(s))
  BY DEF Count
<1> HIDE DEF moved, Before, After
<1>6. Count(moved, state) = Count(states, state) + 1
  BY <1>1, <1>2, <1>5, FS_AddElement
<1>7. Count(moved, states[w]) = Count(states, states[w]) - 1
  BY <1>1, <1>3, <1>5, FS_RemoveElement
<1>8. \A other : other # state /\ other # states[w] => Count(moved, other) = Count(states, other)
  BY <1>4, <1>5
<1> QED
  BY <1>6, <1>7, <1>8 DEF moved

\* A worker takes a page, leaves, and sends a result.
LEMMA WorkerCounts ==
  ASSUME worker \in [Workers -> {"idle", "busy", "done"}], NEW w \in Workers
  PROVE  /\ worker[w] = "idle" /\ worker' = [worker EXCEPT ![w] = "busy"]
             => Idle' = Idle - 1 /\ Busy' = Busy + 1
         /\ worker[w] = "idle" /\ worker' = [worker EXCEPT ![w] = "done"]
             => Idle' = Idle - 1 /\ Busy' = Busy
         /\ worker[w] = "busy" /\ worker' = [worker EXCEPT ![w] = "idle"]
             => Idle' = Idle + 1 /\ Busy' = Busy - 1
<1> DEFINE moved(state) == [worker EXCEPT ![w] = state]
<1>1. \A state \in {"idle", "busy", "done"} : worker[w] # state =>
        /\ Count(moved(state), state) = Count(worker, state) + 1
        /\ Count(moved(state), worker[w]) = Count(worker, worker[w]) - 1
        /\ \A other : other # state /\ other # worker[w] =>
              Count(moved(state), other) = Count(worker, other)
  BY WorkerMoves
<1>2. "idle" # "busy" /\ "idle" # "done" /\ "busy" # "done"
  OBVIOUS
<1>3. worker[w] = "idle" =>
        /\ Count(moved("busy"), "busy") = Count(worker, "busy") + 1
        /\ Count(moved("busy"), "idle") = Count(worker, "idle") - 1
        /\ Count(moved("done"), "idle") = Count(worker, "idle") - 1
        /\ Count(moved("done"), "busy") = Count(worker, "busy")
  BY <1>1, <1>2, Zenon
<1>4. worker[w] = "busy" =>
        /\ Count(moved("idle"), "idle") = Count(worker, "idle") + 1
        /\ Count(moved("idle"), "busy") = Count(worker, "busy") - 1
  BY <1>1, <1>2, Zenon
<1> QED
  BY <1>3, <1>4, Zenon DEF Idle, Busy

\* The parts of what remains.
LEMMA Parts ==
  ASSUME IInv
  PROVE  /\ ToRead \in Nat /\ AtParser \in Nat /\ Queued \in Nat
         /\ Idle \in Nat /\ Busy \in Nat
         /\ Unlocked \in Nat /\ Answers \in Nat /\ AtWriter \in Nat /\ ToReturn \in Nat
<1>1. ToRead \in Nat
  BY JobAssumption, LenProperties DEF IInv, TypeOK, JobKind, ToRead
<1>2. Queued \in Nat /\ Answers \in Nat
  BY LenProperties DEF IInv, TypeOK, Queued, Answers
<1>3. Idle \in Nat /\ Busy \in Nat
  BY WorkersAssumption, FS_Subset, FS_CardinalityType DEF Count, Idle, Busy
<1>4. AtParser \in Nat /\ Unlocked \in Nat /\ AtWriter \in Nat /\ ToReturn \in Nat
  BY DEF IInv, TypeOK, AtParser, Unlocked, AtWriter, ToReturn
<1> QED
  BY <1>1, <1>2, <1>3, <1>4

LEMMA ParserComesNearer ==
  ASSUME IInv, Parser
  PROVE  Remaining' < Remaining
<1>1. /\ Len(job.pages) \in Nat /\ pos \in Nat /\ pos <= Len(job.pages)
      /\ work \in Seq(1 .. pos) /\ parser = "sending" => pos \in 1 .. pos
  BY JobAssumption, LenProperties DEF IInv, TypeOK, JobKind
<1>2. /\ Idle' = Idle /\ Busy' = Busy /\ Unlocked' = Unlocked
      /\ Answers' = Answers /\ AtWriter' = AtWriter /\ ToReturn' = ToReturn
  BY DEF Parser, ParsePage, EndOfDump, SendPage, workerVars, writerVars,
         Idle, Busy, Unlocked, Answers, AtWriter, ToReturn
<1>3. \/ ToRead' = ToRead - 1 /\ AtParser = 1 /\ AtParser' \in {0, 1, 6} /\ Queued' = Queued
      \/ ToRead' = ToRead /\ AtParser = 1 /\ AtParser' = 0 /\ Queued' = Queued
      \/ ToRead' = ToRead /\ AtParser = 6 /\ AtParser' = 1 /\ Queued' = Queued + 1
  <2>1. CASE ParsePage
    BY <1>1, <2>1 DEF ParsePage, ToRead, AtParser, Queued
  <2>2. CASE EndOfDump
    BY <2>2 DEF EndOfDump, ToRead, AtParser, Queued
  <2>3. CASE SendPage
    BY <1>1, <2>3, AppendToChannel DEF SendPage, ToRead, AtParser, Queued
  <2> QED
    BY <2>1, <2>2, <2>3 DEF Parser
<1> QED
  BY <1>2, <1>3, Parts DEF Remaining

LEMMA WorkerComesNearer ==
  ASSUME IInv, NEW w \in Workers, Worker(w)
  PROVE  Remaining' < Remaining
<1>1. /\ worker \in [Workers -> {"idle", "busy", "done"}] /\ Nobody \notin Workers
      /\ work \in Seq(1 .. pos) /\ results \in Seq(1 .. pos)
      /\ lock = w => worker[w] = "idle"
  BY WorkersAssumption DEF IInv, TypeOK, LockHeld
<1>2. /\ ToRead' = ToRead /\ AtParser' = AtParser /\ AtWriter' = AtWriter /\ ToReturn' = ToReturn
  BY DEF Worker, Lock, TakePage, Leave, SendResult, parserVars, writerVars,
         ToRead, AtParser, AtWriter, ToReturn
<1>3. CASE Lock(w)
  <2>1. /\ Idle' = Idle /\ Busy' = Busy
        /\ Unlocked = 1 /\ Unlocked' = 0 /\ Queued' = Queued /\ Answers' = Answers
    BY <1>1, <1>3 DEF Lock, Idle, Busy, Unlocked, Queued, Answers
  <2> QED
    BY <1>2, <2>1, Parts DEF Remaining
<1>4. CASE TakePage(w)
  <2>1. Idle' = Idle - 1 /\ Busy' = Busy + 1
    BY <1>1, <1>4, WorkerCounts DEF TakePage
  <2>2. /\ Unlocked = 0 /\ Unlocked' = 1 /\ Answers' = Answers
    BY <1>1, <1>4 DEF TakePage, Unlocked, Answers
  <2>3. Queued' = Queued - 1
    BY <1>1, <1>4, ReceiveFromChannel DEF TakePage, Queued
  <2> QED
    BY <1>2, <2>1, <2>2, <2>3, Parts DEF Remaining
<1>5. CASE Leave(w)
  <2>1. Idle' = Idle - 1 /\ Busy' = Busy
    BY <1>1, <1>5, WorkerCounts DEF Leave
  <2>2. /\ Unlocked = 0 /\ Unlocked' = 1 /\ Queued' = Queued /\ Answers' = Answers
    BY <1>1, <1>5 DEF Leave, Unlocked, Queued, Answers
  <2> QED
    BY <1>2, <2>1, <2>2, Parts DEF Remaining
<1>6. CASE SendResult(w)
  <2>1. Idle' = Idle + 1 /\ Busy' = Busy - 1
    BY <1>1, <1>6, WorkerCounts DEF SendResult
  <2>2. Unlocked' = Unlocked /\ Queued' = Queued
    BY <1>6 DEF SendResult, Unlocked, Queued
  <2>3. Answers' = Answers + 1
    <3>1. item[w] \in 1 .. pos
      BY <1>6, JobAssumption, LenProperties DEF SendResult, IInv, TypeOK, NoPage, JobKind
    <3> QED
      BY <1>1, <1>6, <3>1, AppendToChannel DEF SendResult, Answers
  <2> QED
    BY <1>2, <2>1, <2>2, <2>3, Parts DEF Remaining
<1> QED
  BY <1>3, <1>4, <1>5, <1>6 DEF Worker

LEMMA WriterComesNearer ==
  ASSUME IInv, Writer
  PROVE  Remaining' < Remaining
<1>1. /\ ToRead' = ToRead /\ AtParser' = AtParser /\ Queued' = Queued
      /\ Idle' = Idle /\ Busy' = Busy /\ Unlocked' = Unlocked
  BY DEF Writer, Start, Reject, Open, Skip, Write, FailWrite, Close, Return,
         parserVars, workerVars, ToRead, AtParser, Queued, Idle, Busy, Unlocked
<1>2. results # <<>> => Len(Tail(results)) = Len(results) - 1
  BY ReceiveFromChannel DEF IInv, TypeOK
<1>3. \/ AtWriter' < AtWriter /\ ToReturn' = ToReturn
         /\ (Answers' = Answers \/ Answers' = Answers - 1)
      \/ AtWriter' = AtWriter /\ ToReturn' = ToReturn /\ Answers' = Answers - 1
      \/ AtWriter' = AtWriter /\ ToReturn' < ToReturn /\ Answers' = Answers
  <2>1. CASE Open \/ Close
    BY <2>1 DEF Open, Close, AtWriter, ToReturn, Answers
  <2>2. CASE Skip \/ Write
    BY <1>2, <2>2 DEF Skip, Write, AtWriter, ToReturn, Answers
  <2>3. CASE FailWrite
    BY <1>2, <2>3 DEF FailWrite, AtWriter, ToReturn, Answers
  <2>4. CASE Return
    BY <2>4 DEF Return, writerVars, AtWriter, ToReturn, Answers
  <2>5. CASE Start
    BY <2>5 DEF Start, AtWriter, ToReturn, Answers
  <2>6. CASE Reject
    BY <2>6 DEF Reject, writerVars, AtWriter, ToReturn, Answers
  <2> QED
    BY <2>1, <2>2, <2>3, <2>4, <2>5, <2>6 DEF Writer
<1>4. AtWriter' \in Nat /\ ToReturn' \in Nat
  BY DEF AtWriter, ToReturn
<1> QED
  BY <1>1, <1>3, <1>4, Parts DEF Remaining

(***************************************************************************)
(* Every step of a thread brings the end of the run nearer, so that no     *)
(* thread, and no two of them, can be busy forever: with NeverStuck, a run *)
(* whose writes succeed comes to its end in whatever order the threads are *)
(* run, after a number of steps that is known when it starts.              *)
(***************************************************************************)
THEOREM EveryStepCounts == Spec => [](Remaining \in Nat) /\ [][Remaining' < Remaining]_vars
<1>1. IInv => Remaining \in Nat
  BY Parts DEF Remaining
<1>2. IInv /\ [Next]_vars => [Remaining' < Remaining]_vars
  BY ParserComesNearer, WorkerComesNearer, WriterComesNearer DEF Next, Finished
<1> QED
  BY <1>1, <1>2, Invariance, PTL DEF Spec
=============================================================================
