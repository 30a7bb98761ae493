--------------------------- MODULE SequentialProofs ---------------------------
(***************************************************************************)
(* Proofs about Sequential for every dump, limit and format, with and      *)
(* without failing writes: the output is a document, and the loop is a     *)
(* page stream like the pipeline.                                          *)
(***************************************************************************)
EXTENDS Sequential, SequenceTheorems, FiniteSetTheorems, TLAPS

-----------------------------------------------------------------------------
(* The output: lemmas about CliJob, which PipelineProofs has too           *)

\* The items of an output of a dump's first n pages; a mark has page 0.
Items(n) == [kind : {"page", "part", "open", "comma", "close", "newline"}, page : 0 .. n]

\* The pieces appended to the output.
LEMMA Pieces ==
  ASSUME NEW S, NEW s \in Seq(S), NEW x \in S, NEW y \in S
  PROVE  /\ Len(s) \in Nat
         /\ s \o <<>> = s
         /\ Len(s \o <<x>>) = Len(s) + 1 /\ DOMAIN (s \o <<x>>) = 1 .. Len(s) + 1
         /\ \A n \in 1 .. Len(s) : (s \o <<x>>)[n] = s[n]
         /\ (s \o <<x>>)[Len(s) + 1] = x
         /\ Len(s \o <<x, y>>) = Len(s) + 2 /\ DOMAIN (s \o <<x, y>>) = 1 .. Len(s) + 2
         /\ \A n \in 1 .. Len(s) : (s \o <<x, y>>)[n] = s[n]
         /\ (s \o <<x, y>>)[Len(s) + 1] = x
         /\ (s \o <<x, y>>)[Len(s) + 2] = y
<1>1. /\ <<>> \in Seq(S) /\ <<x>> \in Seq(S) /\ <<x, y>> \in Seq(S)
      /\ Len(<<x>>) = 1 /\ Len(<<x, y>>) = 2
      /\ <<x>>[1] = x /\ <<x, y>>[1] = x /\ <<x, y>>[2] = y
  OBVIOUS
<1>2. Len(s) \in Nat /\ s \o <<>> = s
  BY LenProperties, ConcatEmptySeq
<1>3. /\ s \o <<x>> \in Seq(S) /\ Len(s \o <<x>>) = Len(s) + 1
      /\ s \o <<x, y>> \in Seq(S) /\ Len(s \o <<x, y>>) = Len(s) + 2
      /\ \A n \in 1 .. Len(s) + 1 :
           (s \o <<x>>)[n] = IF n <= Len(s) THEN s[n] ELSE <<x>>[n - Len(s)]
      /\ \A n \in 1 .. Len(s) + 2 :
           (s \o <<x, y>>)[n] = IF n <= Len(s) THEN s[n] ELSE <<x, y>>[n - Len(s)]
  BY <1>1, ConcatProperties
<1>4. /\ DOMAIN (s \o <<x>>) = 1 .. Len(s) + 1
      /\ DOMAIN (s \o <<x, y>>) = 1 .. Len(s) + 2
  BY <1>3, LenProperties
<1> QED
  BY <1>1, <1>2, <1>3, <1>4

\* Concatenation, for the output.
LEMMA PagesOfConcat ==
  ASSUME NEW S, NEW s \in Seq(S), NEW t \in Seq(S)
  PROVE  s \o t \in Seq(S) /\ Pages(s \o t) = Pages(s) \cup Pages(t)
<1>1. s \o t \in Seq(S)
  BY ConcatProperties
<1>2. Range(s \o t) = Range(s) \cup Range(t)
  BY RangeConcatenation
<1> QED
  BY <1>1, <1>2 DEF Pages

\* The pages of the pieces the output is made of.
LEMMA PagesOfPieces ==
  ASSUME NEW S, NEW i \in S, NEW j \in S
  PROVE  /\ <<>> \in Seq(S) /\ Pages(<<>>) = {}
         /\ <<i>> \in Seq(S)
         /\ i.kind = "page" => Pages(<<i>>) = {i.page}
         /\ i.kind # "page" => Pages(<<i>>) = {}
         /\ <<i, j>> \in Seq(S)
         /\ i.kind # "page" => Pages(<<i, j>>) = Pages(<<j>>)
         /\ j.kind # "page" => Pages(<<i, j>>) = Pages(<<i>>)
<1>1. Range(<<>>) = {} /\ Range(<<i>>) = {i} /\ Range(<<j>>) = {j} /\ Range(<<i, j>>) = {i, j}
  <2>1. /\ DOMAIN <<>> = {} /\ DOMAIN <<i>> = {1} /\ DOMAIN <<j>> = {1}
        /\ DOMAIN <<i, j>> = {1, 2}
        /\ <<i>>[1] = i /\ <<j>>[1] = j /\ <<i, j>>[1] = i /\ <<i, j>>[2] = j
    OBVIOUS
  <2> QED
    BY <2>1 DEF Range
<1>2. \A x : {y \in {x} : y.kind = "page"} = IF x.kind = "page" THEN {x} ELSE {}
  OBVIOUS
<1>3. \A x : {y.page : y \in {x}} = {x.page}
  OBVIOUS
<1>4. {y.page : y \in {}} = {}
  OBVIOUS
<1>5. Pages(<<>>) = {}
  BY <1>1, <1>4 DEF Pages
<1>6. /\ i.kind = "page" => Pages(<<i>>) = {i.page}
      /\ i.kind # "page" => Pages(<<i>>) = {}
  BY <1>1, <1>2, <1>3, <1>4 DEF Pages
<1>7. i.kind # "page" => {y \in {i, j} : y.kind = "page"} = {y \in {j} : y.kind = "page"}
  OBVIOUS
<1>8. j.kind # "page" => {y \in {i, j} : y.kind = "page"} = {y \in {i} : y.kind = "page"}
  OBVIOUS
<1>9. /\ i.kind # "page" => Pages(<<i, j>>) = Pages(<<j>>)
      /\ j.kind # "page" => Pages(<<i, j>>) = Pages(<<i>>)
  BY <1>1, <1>7, <1>8 DEF Pages
<1>10. <<>> \in Seq(S) /\ <<i>> \in Seq(S) /\ <<i, j>> \in Seq(S)
  OBVIOUS
<1> QED
  BY <1>5, <1>6, <1>9, <1>10

LEMMA ItemsAre ==
  ASSUME NEW n \in Nat
  PROVE  /\ \A m \in {"part", "open", "comma", "close", "newline"} :
              Mark(m) \in Items(n) /\ Mark(m).kind # "page"
         /\ \A p \in 1 .. n :
              /\ PageItem(p) \in Items(n)
              /\ PageItem(p).kind = "page" /\ PageItem(p).page = p
<1>1. ASSUME NEW m \in {"part", "open", "comma", "close", "newline"}
      PROVE  Mark(m) \in Items(n) /\ Mark(m).kind # "page"
  <2>1. 0 \in 0 .. n /\ m # "page"
    OBVIOUS
  <2> QED
    BY <2>1 DEF Mark, Items
<1>2. ASSUME NEW p \in 1 .. n
      PROVE  PageItem(p) \in Items(n) /\ PageItem(p).kind = "page" /\ PageItem(p).page = p
  <2>1. p \in 0 .. n
    OBVIOUS
  <2> QED
    BY <2>1 DEF PageItem, Items
<1> QED
  BY <1>1, <1>2

\* Only write_page_result adds a page to the output.
LEMMA OutputPages ==
  ASSUME NEW j \in JobKind, NEW n \in Nat, NEW out \in Seq(Items(n)), NEW count \in Nat
  PROVE  /\ out \o OpenOutput(j) \in Seq(Items(n))
         /\ Pages(out \o OpenOutput(j)) = Pages(out)
         /\ out \o CloseOutput(j) \in Seq(Items(n))
         /\ Pages(out \o CloseOutput(j)) = Pages(out)
         /\ \A p \in 1 .. n :
              /\ WritePageResult(j, out, p, count) \in Seq(Items(n))
              /\ Pages(WritePageResult(j, out, p, count)) = Pages(out) \cup {p}
<1>1. j.format \in {"json", "lines"}
  BY DEF JobKind
<1>2. \A m \in {"part", "open", "comma", "close", "newline"} :
        Mark(m) \in Items(n) /\ Mark(m).kind # "page"
  BY ItemsAre
<1>4. OpenOutput(j) \in Seq(Items(n)) /\ Pages(OpenOutput(j)) = {}
  BY <1>1, <1>2, PagesOfPieces DEF OpenOutput
<1>5. CloseOutput(j) \in Seq(Items(n)) /\ Pages(CloseOutput(j)) = {}
  BY <1>1, <1>2, PagesOfPieces DEF CloseOutput
<1>6. ASSUME NEW p \in 1 .. n
      PROVE  /\ <<PageItem(p)>> \in Seq(Items(n)) /\ Pages(<<PageItem(p)>>) = {p}
             /\ <<Mark("comma"), PageItem(p)>> \in Seq(Items(n))
             /\ Pages(<<Mark("comma"), PageItem(p)>>) = {p}
             /\ <<PageItem(p), Mark("newline")>> \in Seq(Items(n))
             /\ Pages(<<PageItem(p), Mark("newline")>>) = {p}
  <2>1. /\ PageItem(p) \in Items(n) /\ PageItem(p).kind = "page" /\ PageItem(p).page = p
        /\ Mark("comma") \in Items(n) /\ Mark("comma").kind # "page"
        /\ Mark("newline") \in Items(n) /\ Mark("newline").kind # "page"
    BY ItemsAre
  <2>2. ASSUME NEW x \in Items(n), NEW y \in Items(n)
        PROVE  /\ <<x>> \in Seq(Items(n)) /\ <<x, y>> \in Seq(Items(n))
               /\ x.kind = "page" => Pages(<<x>>) = {x.page}
               /\ x.kind # "page" => Pages(<<x, y>>) = Pages(<<y>>)
               /\ y.kind # "page" => Pages(<<x, y>>) = Pages(<<x>>)
    BY PagesOfPieces
  <2>3. <<PageItem(p)>> \in Seq(Items(n)) /\ Pages(<<PageItem(p)>>) = {p}
    BY <2>1, <2>2
  <2>4. /\ <<Mark("comma"), PageItem(p)>> \in Seq(Items(n))
        /\ Pages(<<Mark("comma"), PageItem(p)>>) = Pages(<<PageItem(p)>>)
    BY <2>1, <2>2
  <2>5. /\ <<PageItem(p), Mark("newline")>> \in Seq(Items(n))
        /\ Pages(<<PageItem(p), Mark("newline")>>) = Pages(<<PageItem(p)>>)
    BY <2>1, <2>2
  <2> QED
    BY <2>3, <2>4, <2>5
<1>7. ASSUME NEW p \in 1 .. n
       PROVE  /\ WritePageResult(j, out, p, count) \in Seq(Items(n))
              /\ Pages(WritePageResult(j, out, p, count)) = Pages(out) \cup {p}
  <2>1. PICK t \in Seq(Items(n)) :
          Pages(t) = {p} /\ WritePageResult(j, out, p, count) = out \o t
    <3>1. CASE j.format = "lines"
      BY <3>1, <1>6 DEF WritePageResult
    <3>2. CASE j.format = "json" /\ count = 0
      BY <3>2, <1>6 DEF WritePageResult
    <3>3. CASE j.format = "json" /\ count # 0
      <4>1. count > 0
        BY <3>3, <1>1
      <4> QED
        BY <3>3, <4>1, <1>6 DEF WritePageResult
    <3> QED
      BY <1>1, <3>1, <3>2, <3>3
  <2> QED
    BY <1>1, PagesOfConcat, <2>1
<1>8. /\ out \o OpenOutput(j) \in Seq(Items(n))
      /\ Pages(out \o OpenOutput(j)) = Pages(out)
      /\ out \o CloseOutput(j) \in Seq(Items(n))
      /\ Pages(out \o CloseOutput(j)) = Pages(out)
  <2>1. \A t \in Seq(Items(n)) :
          out \o t \in Seq(Items(n)) /\ Pages(out \o t) = Pages(out) \cup Pages(t)
    BY <1>1, PagesOfConcat
  <2> QED
    BY <2>1, <1>4, <1>5
<1> QED
  BY <1>7, <1>8

\* A write that is refused adds no page to the output.
LEMMA RefusedPages ==
  ASSUME NEW j \in JobKind, NEW n \in Nat, NEW out \in Seq(Items(n)), NEW count \in Nat
  PROVE  \A new \in RefusedPage(j, out, count) \cup RefusedClose(j, out) :
           new \in Seq(Items(n)) /\ Pages(new) = Pages(out)
<1>1. ASSUME NEW m \in {"part", "comma"}, NEW s \in Seq(Items(n))
      PROVE  s \o <<Mark(m)>> \in Seq(Items(n)) /\ Pages(s \o <<Mark(m)>>) = Pages(s)
  <2>1. Mark(m) \in Items(n) /\ Mark(m).kind # "page"
    BY ItemsAre
  <2>2. <<Mark(m)>> \in Seq(Items(n)) /\ Pages(<<Mark(m)>>) = {}
    BY <2>1, PagesOfPieces
  <2>3. /\ s \o <<Mark(m)>> \in Seq(Items(n))
        /\ Pages(s \o <<Mark(m)>>) = Pages(s) \cup Pages(<<Mark(m)>>)
    <3>1. PICK t \in Seq(Items(n)) : t = <<Mark(m)>>
      BY <2>2
    <3>2. s \o t \in Seq(Items(n)) /\ Pages(s \o t) = Pages(s) \cup Pages(t)
      BY PagesOfConcat
    <3> QED
      BY <3>1, <3>2
  <2> QED
    BY <2>2, <2>3
<1>2. /\ out \o <<Mark("comma")>> \in Seq(Items(n))
      /\ Pages(out \o <<Mark("comma")>>) = Pages(out)
  BY <1>1
<1>3. /\ (out \o <<Mark("comma")>>) \o <<Mark("part")>> \in Seq(Items(n))
      /\ Pages((out \o <<Mark("comma")>>) \o <<Mark("part")>>) = Pages(out)
  BY <1>1, <1>2
<1>4. /\ out \o <<Mark("part")>> \in Seq(Items(n))
      /\ Pages(out \o <<Mark("part")>>) = Pages(out)
  BY <1>1
<1>5. out \o CloseOutput(j) \in Seq(Items(n)) /\ Pages(out \o CloseOutput(j)) = Pages(out)
  BY OutputPages
<1> QED
  BY <1>2, <1>3, <1>4, <1>5 DEF RefusedPage, RefusedClose

-----------------------------------------------------------------------------
(* The document                                                            *)

\* out is what is written of a document with count pages before it is closed.
IsBody(j, out, count) ==
  /\ j.format = "json" =>
       /\ Len(out) = IF count = 0 THEN 1 ELSE 2 * count
       /\ out[1] = Mark("open")
       /\ \A n \in 2 .. Len(out) :
            IF n % 2 = 0 THEN out[n].kind = "page" ELSE out[n] = Mark("comma")
  /\ j.format = "lines" =>
       /\ Len(out) = 2 * count
       /\ \A n \in 1 .. Len(out) :
            IF n % 2 = 1 THEN out[n].kind = "page" ELSE out[n] = Mark("newline")

LEMMA OpenedBody ==
  ASSUME NEW j \in JobKind
  PROVE  IsBody(j, OpenOutput(j), 0)
<1>1. /\ j.format = "json" => OpenOutput(j) = <<Mark("open")>>
      /\ j.format = "lines" => OpenOutput(j) = <<>>
  BY DEF OpenOutput
<1> QED
  BY <1>1 DEF IsBody

\* A page goes after the pages that are there, with what separates them.
LEMMA WrittenBody ==
  ASSUME NEW j \in JobKind, NEW m \in Nat, NEW out \in Seq(Items(m)), NEW count \in Nat,
         IsBody(j, out, count), NEW p \in 1 .. m
  PROVE  IsBody(j, WritePageResult(j, out, p, count), count + 1)
<1> DEFINE new == WritePageResult(j, out, p, count)
<1>1. j.format \in {"json", "lines"} /\ Len(out) \in Nat
  BY LenProperties DEF JobKind
<1>2. /\ PageItem(p) \in Items(m) /\ PageItem(p).kind = "page"
      /\ Mark("comma") \in Items(m) /\ Mark("newline") \in Items(m)
  BY ItemsAre
<1>3. CASE j.format = "lines"
  <2>1. new = out \o <<PageItem(p), Mark("newline")>>
    BY <1>3 DEF WritePageResult
  <2> HIDE DEF new
  <2>2. /\ Len(new) = Len(out) + 2
        /\ \A n \in 1 .. Len(out) : new[n] = out[n]
        /\ new[Len(out) + 1] = PageItem(p)
        /\ new[Len(out) + 2] = Mark("newline")
    BY <2>1, <1>1, <1>2, Pieces
  <2>3. /\ Len(out) = 2 * count
        /\ \A n \in 1 .. Len(out) :
             IF n % 2 = 1 THEN out[n].kind = "page" ELSE out[n] = Mark("newline")
    BY <1>3 DEF IsBody
  <2>4. (Len(out) + 1) % 2 = 1 /\ (Len(out) + 2) % 2 = 0
    BY <2>3, <1>1
  <2>5. \A n \in 1 .. Len(out) + 2 :
          IF n % 2 = 1 THEN new[n].kind = "page" ELSE new[n] = Mark("newline")
    <3>1. \A n \in 1 .. Len(out) + 2 :
            n \in 1 .. Len(out) \/ n = Len(out) + 1 \/ n = Len(out) + 2
      BY <1>1
    <3> QED
      BY <2>2, <2>3, <2>4, <3>1, <1>2
  <2>6. Len(new) = 2 * (count + 1)
    BY <2>2, <2>3, <1>1
  <2>7. IsBody(j, new, count + 1)
    BY <1>3, <2>2, <2>5, <2>6 DEF IsBody
  <2> QED
    BY <2>7 DEF new
<1>4. CASE j.format = "json" /\ count = 0
  <2>1. new = out \o <<PageItem(p)>>
    BY <1>4 DEF WritePageResult
  <2> HIDE DEF new
  <2>2. /\ Len(out) = 1 /\ out[1] = Mark("open")
    BY <1>4 DEF IsBody
  <2>3. /\ Len(new) = 2 /\ new[1] = Mark("open") /\ new[2] = PageItem(p)
    <3>1. /\ Len(new) = Len(out) + 1
          /\ \A n \in 1 .. Len(out) : new[n] = out[n]
          /\ new[Len(out) + 1] = PageItem(p)
      BY <2>1, <1>1, <1>2, Pieces
    <3> QED
      BY <2>2, <3>1
  <2>4. \A n \in 2 .. Len(new) : n = 2
    BY <2>3
  <2>5. IsBody(j, new, count + 1)
    BY <1>2, <1>4, <2>3, <2>4 DEF IsBody
  <2> QED
    BY <2>5 DEF new
<1>5. CASE j.format = "json" /\ count # 0
  <2>1. new = out \o <<Mark("comma"), PageItem(p)>>
    <3>1. count > 0
      BY <1>5
    <3> QED
      BY <1>5, <3>1 DEF WritePageResult
  <2> HIDE DEF new
  <2>2. /\ Len(new) = Len(out) + 2
        /\ \A n \in 1 .. Len(out) : new[n] = out[n]
        /\ new[Len(out) + 1] = Mark("comma")
        /\ new[Len(out) + 2] = PageItem(p)
    BY <2>1, <1>1, <1>2, Pieces
  <2>3. /\ Len(out) = 2 * count /\ out[1] = Mark("open")
        /\ \A n \in 2 .. Len(out) :
             IF n % 2 = 0 THEN out[n].kind = "page" ELSE out[n] = Mark("comma")
    BY <1>5 DEF IsBody
  <2>4. (Len(out) + 1) % 2 = 1 /\ (Len(out) + 2) % 2 = 0
    BY <2>3, <1>1
  <2>5. \A n \in 2 .. Len(out) + 2 :
          IF n % 2 = 0 THEN new[n].kind = "page" ELSE new[n] = Mark("comma")
    <3> SUFFICES ASSUME NEW n \in 2 .. Len(out) + 2
                 PROVE  IF n % 2 = 0 THEN new[n].kind = "page" ELSE new[n] = Mark("comma")
      OBVIOUS
    <3>1. CASE n \in 2 .. Len(out)
      <4>1. n \in 1 .. Len(out)
        BY <1>1, <3>1
      <4>2. new[n] = out[n]
        BY <2>2, <4>1
      <4> QED
        BY <2>3, <3>1, <4>2
    <3>2. CASE n = Len(out) + 1
      BY <2>2, <2>4, <3>2
    <3>3. CASE n = Len(out) + 2
      BY <1>2, <2>2, <2>4, <3>3
    <3> QED
      BY <1>1, <3>1, <3>2, <3>3
  <2>6. Len(new) = 2 * (count + 1) /\ count + 1 # 0 /\ new[1] = Mark("open")
    BY <2>2, <2>3, <1>5, <1>1
  <2>7. IsBody(j, new, count + 1)
    BY <1>5, <2>2, <2>5, <2>6 DEF IsBody
  <2> QED
    BY <2>7 DEF new
<1> QED
  BY <1>1, <1>3, <1>4, <1>5

LEMMA ClosedBody ==
  ASSUME NEW j \in JobKind, NEW m \in Nat, NEW out \in Seq(Items(m)), NEW count \in Nat,
         IsBody(j, out, count)
  PROVE  IsDocument(j, out \o CloseOutput(j))
<1>1. j.format \in {"json", "lines"} /\ Len(out) \in Nat /\ DOMAIN out = 1 .. Len(out)
  BY LenProperties DEF JobKind
<1>2. CASE j.format = "json"
  <2> DEFINE new == out \o CloseOutput(j)
  <2>1. new = out \o <<Mark("close")>>
    BY <1>2 DEF CloseOutput
  <2> HIDE DEF new
  <2>2. /\ Len(out) = IF count = 0 THEN 1 ELSE 2 * count
        /\ out[1] = Mark("open")
        /\ \A n \in 2 .. Len(out) :
             IF n % 2 = 0 THEN out[n].kind = "page" ELSE out[n] = Mark("comma")
    BY <1>2 DEF IsBody
  <2>3. /\ Len(new) = Len(out) + 1
        /\ \A n \in 1 .. Len(out) : new[n] = out[n]
        /\ new[Len(out) + 1] = Mark("close")
    BY <2>1, <1>1, ItemsAre, Pieces
  <2>4. Len(new) >= 2 /\ (Len(new) = 2 \/ Len(new) % 2 = 1) /\ Len(out) >= 1
    BY <2>2, <2>3, <1>1
  <2>5. \A n \in 2 .. Len(new) - 1 :
          IF n % 2 = 0 THEN new[n].kind = "page" ELSE new[n] = Mark("comma")
    BY <2>2, <2>3, <1>1
  <2>6. IsDocument(j, new)
    BY <1>2, <2>2, <2>3, <2>4, <2>5, <1>1 DEF IsDocument
  <2> QED
    BY <2>6 DEF new
<1>3. CASE j.format = "lines"
  <2>1. out \o CloseOutput(j) = out
    BY <1>3, ConcatEmptySeq DEF CloseOutput
  <2>2. /\ Len(out) = 2 * count
        /\ \A n \in 1 .. Len(out) :
             IF n % 2 = 1 THEN out[n].kind = "page" ELSE out[n] = Mark("newline")
    BY <1>3 DEF IsBody
  <2>3. Len(out) % 2 = 0
    BY <2>2, <1>1
  <2> QED
    BY <1>1, <1>3, <2>1, <2>2, <2>3 DEF IsDocument
<1> QED
  BY <1>1, <1>2, <1>3

\* A document may be cut off before it is closed, and in a page.
LEMMA BegunBody ==
  ASSUME NEW j \in JobKind, NEW m \in Nat, NEW out \in Seq(Items(m)), NEW count \in Nat,
         IsBody(j, out, count)
  PROVE  /\ BeginsDocument(j, out)
         /\ \A new \in RefusedPage(j, out, count) \cup RefusedClose(j, out) :
              BeginsDocument(j, new)
<1>1. j.format \in {"json", "lines"} /\ Len(out) \in Nat /\ DOMAIN out = 1 .. Len(out)
  BY LenProperties DEF JobKind
<1>2. \A k \in {"part", "comma", "close"} : Mark(k) \in Items(m)
  BY ItemsAre
<1>3. ASSUME NEW s \in Seq(Items(m)), NEW k \in {"part", "comma", "close"}
      PROVE  /\ s \o <<Mark(k)>> \in Seq(Items(m))
             /\ Len(s \o <<Mark(k)>>) = Len(s) + 1
             /\ DOMAIN (s \o <<Mark(k)>>) = 1 .. Len(s) + 1
             /\ \A n \in 1 .. Len(s) : (s \o <<Mark(k)>>)[n] = s[n]
             /\ (s \o <<Mark(k)>>)[Len(s) + 1] = Mark(k)
  <2>1. <<Mark(k)>> \in Seq(Items(m))
    BY <1>2
  <2> QED
    BY <1>2, <2>1, ConcatProperties, Pieces
<1>4. CASE j.format = "json"
  <2> DEFINE comma == out \o <<Mark("comma")>>
             part == out \o <<Mark("part")>>
             next == comma \o <<Mark("part")>>
             close == out \o <<Mark("close")>>
  <2>1. /\ Len(out) = IF count = 0 THEN 1 ELSE 2 * count
        /\ \A n \in 1 .. Len(out) :
             IF n = 1 THEN out[n] = Mark("open")
             ELSE IF n % 2 = 0 THEN out[n].kind = "page" ELSE out[n] = Mark("comma")
    <3>1. /\ Len(out) = IF count = 0 THEN 1 ELSE 2 * count
          /\ out[1] = Mark("open")
          /\ \A n \in 2 .. Len(out) :
               IF n % 2 = 0 THEN out[n].kind = "page" ELSE out[n] = Mark("comma")
      BY <1>4 DEF IsBody
    <3> QED
      BY <1>1, <3>1
  <2>2. /\ count = 0 => Len(out) = 1
        /\ count > 0 => Len(out) >= 2 /\ Len(out) % 2 = 0 /\ (Len(out) + 1) % 2 = 1
                          /\ (Len(out) + 2) % 2 = 0
    BY <2>1
  <2>3. BeginsDocument(j, out)
    BY <1>1, <1>4, <2>1 DEF BeginsDocument
  <2>4. /\ comma \in Seq(Items(m)) /\ Len(comma) = Len(out) + 1
        /\ DOMAIN comma = 1 .. Len(out) + 1
        /\ \A n \in 1 .. Len(out) : comma[n] = out[n]
        /\ comma[Len(out) + 1] = Mark("comma")
    BY <1>3
  <2>5. /\ Len(part) = Len(out) + 1 /\ DOMAIN part = 1 .. Len(out) + 1
        /\ \A n \in 1 .. Len(out) : part[n] = out[n]
        /\ part[Len(out) + 1] = Mark("part")
    BY <1>3
  <2>6. /\ Len(close) = Len(out) + 1 /\ DOMAIN close = 1 .. Len(out) + 1
        /\ \A n \in 1 .. Len(out) : close[n] = out[n]
        /\ close[Len(out) + 1] = Mark("close")
    BY <1>3
  <2> HIDE DEF comma, part, close
  <2>7. /\ Len(next) = Len(out) + 2 /\ DOMAIN next = 1 .. Len(out) + 2
        /\ \A n \in 1 .. Len(out) : next[n] = out[n]
        /\ next[Len(out) + 1] = Mark("comma") /\ next[Len(out) + 2] = Mark("part")
    <3>1. /\ Len(next) = Len(comma) + 1 /\ DOMAIN next = 1 .. Len(comma) + 1
          /\ \A n \in 1 .. Len(comma) : next[n] = comma[n]
          /\ next[Len(comma) + 1] = Mark("part")
      BY <2>4, <1>3
    <3>2. /\ Len(comma) + 1 = Len(out) + 2 /\ Len(out) + 1 \in 1 .. Len(comma)
          /\ 1 .. Len(out) \subseteq 1 .. Len(comma)
      BY <1>1, <2>4
    <3> QED
      BY <2>4, <3>1, <3>2
  <2> HIDE DEF next
  <2>8. count > 0 => BeginsDocument(j, comma)
    BY <1>1, <1>4, <2>1, <2>2, <2>4 DEF BeginsDocument
  <2>9. count = 0 => BeginsDocument(j, part)
    BY <1>1, <1>4, <2>1, <2>2, <2>5 DEF BeginsDocument
  <2>10. count > 0 => BeginsDocument(j, next)
    <3> SUFFICES ASSUME count > 0, NEW n \in 1 .. Len(out) + 2
                 PROVE  IF n = 1 THEN next[n] = Mark("open")
                        ELSE IF n % 2 = 0
                             THEN next[n].kind = "page" \/ (n = Len(next) /\ next[n] = Mark("part"))
                             ELSE next[n] = Mark("comma")
      BY <1>4, <2>7 DEF BeginsDocument
    <3>1. CASE n \in 1 .. Len(out)
      BY <2>1, <2>7, <3>1
    <3>2. CASE n = Len(out) + 1
      BY <1>1, <2>2, <2>7, <3>2
    <3>3. CASE n = Len(out) + 2
      BY <1>1, <2>2, <2>7, <3>3
    <3> QED
      BY <1>1, <3>1, <3>2, <3>3
  <2>11. BeginsDocument(j, close)
    BY <1>1, <1>4, <2>1, <2>2, <2>6 DEF BeginsDocument
  <2>12. RefusedPage(j, out, count) \cup RefusedClose(j, out)
           = {out, close} \cup (IF count > 0 THEN {comma, next} ELSE {part})
    BY <1>4 DEF RefusedPage, RefusedClose, CloseOutput, comma, part, next, close
  <2> QED
    BY <2>3, <2>8, <2>9, <2>10, <2>11, <2>12
<1>5. CASE j.format = "lines"
  <2> DEFINE part == out \o <<Mark("part")>>
  <2>1. /\ Len(out) = 2 * count
        /\ \A n \in 1 .. Len(out) :
             IF n % 2 = 1 THEN out[n].kind = "page" ELSE out[n] = Mark("newline")
    BY <1>5 DEF IsBody
  <2>2. (Len(out) + 1) % 2 = 1
    BY <2>1
  <2>3. BeginsDocument(j, out)
    BY <1>1, <1>5, <2>1 DEF BeginsDocument
  <2>4. /\ Len(part) = Len(out) + 1 /\ DOMAIN part = 1 .. Len(out) + 1
        /\ \A n \in 1 .. Len(out) : part[n] = out[n]
        /\ part[Len(out) + 1] = Mark("part")
    BY <1>3
  <2> HIDE DEF part
  <2>5. BeginsDocument(j, part)
    BY <1>1, <1>5, <2>1, <2>2, <2>4 DEF BeginsDocument
  <2>6. out \o CloseOutput(j) = out
    BY <1>5, ConcatEmptySeq DEF CloseOutput
  <2>7. RefusedPage(j, out, count) \cup RefusedClose(j, out) = {out, part}
    BY <1>5, <2>6 DEF RefusedPage, RefusedClose, part
  <2> QED
    BY <2>3, <2>5, <2>7
<1> QED
  BY <1>1, <1>4, <1>5

LEMMA NothingBegun == ASSUME NEW j PROVE BeginsDocument(j, <<>>)
BY DEF BeginsDocument

-----------------------------------------------------------------------------
(* The limit                                                               *)

\* The selected pages before a place are finitely many, and more before a later one.
LEMMA SelectedBefore ==
  ASSUME NEW j \in JobKind
  PROVE  /\ \A n \in Nat :
              /\ IsFiniteSet({q \in SelectedPages(j) : q < n})
              /\ Cardinality({q \in SelectedPages(j) : q < n}) \in Nat
         /\ \A n, m \in Nat : n <= m =>
              Cardinality({q \in SelectedPages(j) : q < n})
                <= Cardinality({q \in SelectedPages(j) : q < m})
<1>1. DOMAIN j.pages = 1 .. Len(j.pages) /\ Len(j.pages) \in Nat
  BY LenProperties DEF JobKind
<1>2. SelectedPages(j) \subseteq 1 .. Len(j.pages) /\ SelectedPages(j) \subseteq Nat
  BY <1>1 DEF SelectedPages
<1>3. IsFiniteSet(SelectedPages(j))
  <2>1. IsFiniteSet(1 .. Len(j.pages))
    BY <1>1, FS_Interval
  <2> QED
    BY <2>1, <1>2, FS_Subset
<1>4. ASSUME NEW n \in Nat
      PROVE  /\ IsFiniteSet({q \in SelectedPages(j) : q < n})
             /\ Cardinality({q \in SelectedPages(j) : q < n}) \in Nat
  BY <1>3, FS_Subset, FS_CardinalityType
<1>5. ASSUME NEW n \in Nat, NEW m \in Nat, n <= m
      PROVE  Cardinality({q \in SelectedPages(j) : q < n})
               <= Cardinality({q \in SelectedPages(j) : q < m})
  <2>1. {q \in SelectedPages(j) : q < n} \subseteq {q \in SelectedPages(j) : q < m}
    BY <1>2, <1>5
  <2> QED
    BY <2>1, <1>4, FS_Subset
<1> QED
  BY <1>4, <1>5

\* A selected page is one of the first unless the limit is reached before it, and
\* then no later page is one either.
LEMMA FirstOrLimited ==
  ASSUME NEW j \in JobKind, NEW p \in SelectedPages(j), NEW count,
         count = Cardinality({q \in SelectedPages(j) : q < p})
  PROVE  /\ p \in FirstPages(j) <=> ~LimitReached(j, count)
         /\ LimitReached(j, count) => \A q \in FirstPages(j) : q < p
<1>1. p \in FirstPages(j) <=> ~LimitReached(j, count)
  BY DEF FirstPages
<1>2. SelectedPages(j) \subseteq Nat
  BY LenProperties DEF SelectedPages, JobKind
<1>3. ASSUME LimitReached(j, count), NEW q \in FirstPages(j), ~(q < p)
      PROVE  FALSE
  <2>1. q \in Nat /\ p \in Nat /\ p <= q
    BY <1>2, <1>3 DEF FirstPages
  <2>2. /\ count <= Cardinality({r \in SelectedPages(j) : r < q}) /\ count \in Nat
        /\ Cardinality({r \in SelectedPages(j) : r < q}) \in Nat
    BY <2>1, SelectedBefore
  <2>3. j.limit # NoLimit /\ j.limit \in Nat /\ count >= j.limit
    BY <1>3 DEF LimitReached, JobKind
  <2>4. LimitReached(j, Cardinality({r \in SelectedPages(j) : r < q}))
    BY <2>2, <2>3 DEF LimitReached
  <2> QED
    BY <1>3, <2>4 DEF FirstPages
<1> QED
  BY <1>1, <1>3

-----------------------------------------------------------------------------
(* The inductive invariant                                                 *)

Types ==
  /\ job \in Jobs
  /\ pos \in Nat /\ pos <= Len(job.pages)
  /\ output \in Seq(Items(pos))
  /\ page_count \in Nat
  /\ exit \in {"starting", "running", "ok", "error"}

\* Before the site info is read nothing has happened.
Starting ==
  exit = "starting" => pos = 0 /\ output = <<>> /\ page_count = 0 /\ skipped_pages = {}

\* The selected pages the loop has passed are those it has written or skipped.
Passed == {p \in SelectedPages(job) : p <= pos}

Settled ==
  exit = "running" =>
    /\ Pages(output) \cup skipped_pages = Passed
    /\ \A p \in Pages(output) : job.pages[p].valid
    /\ \A p \in skipped_pages : ~job.pages[p].valid
    /\ page_count = Cardinality(Pages(output))

Document ==
  /\ exit = "running" => ~job.headless /\ IsBody(job, output, page_count)
  /\ OutputIsDocument

IInv == Types /\ Starting /\ Settled /\ Document

LEMMA InitInv == Init => IInv
<1> SUFFICES ASSUME Init PROVE IInv
  OBVIOUS
<1>1. Len(job.pages) \in Nat
  BY JobAssumption, LenProperties DEF Init, JobKind
<1>2. <<>> \in Seq(Items(0))
  OBVIOUS
<1> QED
  BY <1>1, <1>2 DEF Init, IInv, Types, Starting, Settled, Document, OutputIsDocument

\* Nothing is settled when the document is opened.
LEMMA NothingPassed ==
  ASSUME IInv, exit = "starting"
  PROVE  Passed = {} /\ Pages(output) = {} /\ skipped_pages = {}
<1>1. pos = 0 /\ output = <<>> /\ skipped_pages = {} /\ job \in JobKind
  BY JobAssumption DEF IInv, Types, Starting
<1>2. DOMAIN job.pages = 1 .. Len(job.pages) /\ Len(job.pages) \in Nat
  BY <1>1, LenProperties DEF JobKind
<1>3. Range(<<>>) = {}
  BY DEF Range
<1> QED
  BY <1>1, <1>2, <1>3 DEF Passed, SelectedPages, Pages

\* A page the loop reads is a new one.
LEMMA NextPage ==
  ASSUME IInv, exit = "running", pos' = pos + 1, pos < Len(job.pages), job' = job
  PROVE  /\ job \in JobKind /\ pos \in Nat /\ pos' \in DOMAIN job.pages
         /\ pos' \in 1 .. pos' /\ pos' <= Len(job.pages)
         /\ output \in Seq(Items(pos)) /\ output \in Seq(Items(pos'))
         /\ page_count \in Nat
         /\ Passed' = Passed \cup (IF job.pages[pos'].selected THEN {pos'} ELSE {})
         /\ pos' \notin Passed
<1>1. /\ job \in JobKind /\ Len(job.pages) \in Nat /\ DOMAIN job.pages = 1 .. Len(job.pages)
      /\ pos \in Nat /\ output \in Seq(Items(pos)) /\ page_count \in Nat
  BY JobAssumption, LenProperties DEF IInv, Types, JobKind
<1>2. pos' \in 1 .. pos' /\ pos' \in DOMAIN job.pages /\ pos' <= Len(job.pages)
  BY <1>1
<1>3. output \in Seq(Items(pos'))
  <2>1. 0 .. pos \subseteq 0 .. pos'
    BY <1>1
  <2>2. Items(pos) \subseteq Items(pos')
    BY <2>1 DEF Items
  <2> QED
    BY <1>1, <2>2
<1>4. pos' \notin Passed
  BY <1>1 DEF Passed
<1>5. \A p \in SelectedPages(job) : p <= pos' <=> p <= pos \/ p = pos'
  BY <1>1 DEF SelectedPages
<1>6. Passed' = {p \in SelectedPages(job) : p <= pos'}
  BY DEF Passed
<1>7. pos' \in SelectedPages(job) <=> job.pages[pos'].selected
  BY <1>2 DEF SelectedPages
<1> QED
  BY <1>1, <1>2, <1>3, <1>4, <1>5, <1>6, <1>7 DEF Passed

LEMMA StepInv == IInv /\ [Next]_vars => IInv'
<1> SUFFICES ASSUME IInv, [Next]_vars PROVE IInv'
  OBVIOUS
<1>1. /\ job \in Jobs /\ job \in JobKind /\ pos \in Nat /\ Len(job.pages) \in Nat
      /\ output \in Seq(Items(pos)) /\ page_count \in Nat
  BY JobAssumption, LenProperties DEF IInv, Types, JobKind
<1>2. CASE PassOver
  <2>1. /\ exit = "running" /\ pos < Len(job.pages) /\ pos' = pos + 1
        /\ ~job.pages[pos'].selected
        /\ UNCHANGED <<job, output, page_count, skipped_pages, exit>>
    BY <1>2 DEF PassOver
  <2>2. output \in Seq(Items(pos')) /\ pos' <= Len(job.pages) /\ pos' \in Nat
    BY <1>1, <2>1, NextPage
  <2>3. Passed' = Passed
    BY <2>1, NextPage
  <2> QED
    BY <1>1, <2>1, <2>2, <2>3 DEF IInv, Types, Starting, Settled, Document, OutputIsDocument
<1>3. CASE Skip
  <2>1. /\ exit = "running" /\ pos < Len(job.pages) /\ pos' = pos + 1
        /\ job.pages[pos'].selected /\ ~job.pages[pos'].valid
        /\ skipped_pages' = skipped_pages \cup {pos'}
        /\ UNCHANGED <<job, output, page_count, exit>>
    BY <1>3 DEF Skip, Reads
  <2>2. /\ Passed' = Passed \cup {pos'} /\ output \in Seq(Items(pos'))
        /\ pos' <= Len(job.pages) /\ pos' \in Nat
    BY <1>1, <2>1, NextPage
  <2> QED
    BY <1>1, <2>1, <2>2 DEF IInv, Types, Starting, Settled, Document, OutputIsDocument
<1>4. CASE Write
  <2>1. /\ exit = "running" /\ pos < Len(job.pages) /\ pos' = pos + 1
        /\ job.pages[pos'].selected /\ job.pages[pos'].valid
        /\ output' = WritePageResult(job, output, pos', page_count)
        /\ page_count' = page_count + 1
        /\ UNCHANGED <<job, skipped_pages, exit>>
    BY <1>4 DEF Write, Reads
  <2>2. /\ Passed' = Passed \cup {pos'} /\ pos' \notin Passed
        /\ output \in Seq(Items(pos')) /\ pos' \in 1 .. pos'
        /\ pos' <= Len(job.pages) /\ pos' \in Nat
    BY <1>1, <2>1, NextPage
  <2>3. output' \in Seq(Items(pos')) /\ Pages(output') = Pages(output) \cup {pos'}
    <3>1. PICK n \in Nat : n = pos'
      BY <2>2
    <3>2. output \in Seq(Items(n)) /\ n \in 1 .. n
      BY <2>2, <3>1
    <3>3. WritePageResult(job, output, n, page_count) \in Seq(Items(n))
      BY <1>1, <3>2, OutputPages
    <3>4. Pages(WritePageResult(job, output, n, page_count)) = Pages(output) \cup {n}
      BY <1>1, <3>2, OutputPages
    <3> QED
      BY <2>1, <3>1, <3>3, <3>4
  <2>4. IsBody(job, output', page_count')
    BY <1>1, <2>1, <2>2, WrittenBody DEF IInv, Document
  <2>5. page_count' = Cardinality(Pages(output'))
    <3>1. IsFiniteSet(Pages(output)) /\ pos' \notin Pages(output)
      <4>1. Pages(output) \subseteq 1 .. Len(job.pages)
        BY <1>1, <2>1, LenProperties DEF IInv, Settled, Passed, SelectedPages, JobKind
      <4>2. IsFiniteSet(1 .. Len(job.pages))
        BY <1>1, FS_Interval
      <4>3. pos' \notin Pages(output)
        BY <2>1, <2>2 DEF IInv, Settled
      <4> QED
        BY <4>1, <4>2, <4>3, FS_Subset
    <3> QED
      BY <2>1, <2>3, <3>1, FS_AddElement DEF IInv, Settled
  <2> QED
    BY <1>1, <2>1, <2>2, <2>3, <2>4, <2>5
    DEF IInv, Types, Starting, Settled, Document, OutputIsDocument
<1>5. CASE StopAtLimit \/ EndOfDump
  <2>1. /\ exit = "running" /\ exit' = "ok" /\ output' = output \o CloseOutput(job)
        /\ UNCHANGED <<job, page_count, skipped_pages>>
        /\ pos' = pos \/ (pos < Len(job.pages) /\ pos' = pos + 1)
    BY <1>5 DEF StopAtLimit, EndOfDump
  <2>2. output \in Seq(Items(pos')) /\ pos' <= Len(job.pages) /\ pos' \in Nat
    BY <1>1, <2>1, NextPage DEF IInv, Types
  <2>3. IsDocument(job, output') /\ output' \in Seq(Items(pos'))
    BY <1>1, <2>1, <2>2, ClosedBody, OutputPages DEF IInv, Document
  <2> QED
    BY <1>1, <2>1, <2>2, <2>3 DEF IInv, Types, Starting, Settled, Document, OutputIsDocument
<1>6. CASE FailToParse
  <2>1. /\ exit = "running" /\ exit' = "error"
        /\ UNCHANGED <<job, pos, output, page_count, skipped_pages>>
    BY <1>6 DEF FailToParse
  <2>2. /\ ~job.headless /\ BeginsDocument(job, output)
        /\ IsDocument(job, output \o CloseOutput(job))
    BY <1>1, <2>1, ClosedBody, BegunBody DEF IInv, Document
  <2> QED
    BY <1>1, <2>1, <2>2 DEF IInv, Types, Starting, Settled, Document, OutputIsDocument
<1>7. CASE FailWrite
  <2>1. /\ job.failing /\ exit' = "error" /\ UNCHANGED <<job, page_count, skipped_pages>>
        /\ pos' = pos \/ (exit = "running" /\ pos < Len(job.pages) /\ pos' = pos + 1)
        /\ \/ exit = "starting" /\ output' = output
           \/ /\ exit = "running"
              /\ output' \in RefusedPage(job, output, page_count) \cup RefusedClose(job, output)
    BY <1>7 DEF FailWrite, Reads
  <2>2. output \in Seq(Items(pos')) /\ pos' <= Len(job.pages) /\ pos' \in Nat
    BY <1>1, <2>1, NextPage DEF IInv, Types
  <2>3. output' \in Seq(Items(pos'))
    <3>1. PICK n \in Nat : n = pos'
      BY <2>2
    <3>2. \A new \in RefusedPage(job, output, page_count) \cup RefusedClose(job, output) :
            new \in Seq(Items(n))
      BY <1>1, <2>2, <3>1, RefusedPages
    <3> QED
      BY <2>1, <2>2, <3>1, <3>2
  <2>4. BeginsDocument(job, output')
    <3>1. CASE exit = "starting" /\ output' = output
      <4>1. output' = <<>>
        BY <3>1 DEF IInv, Starting
      <4> QED
        BY <2>1, <4>1, NothingBegun
    <3>2. CASE exit = "running"
      <4>1. IsBody(job, output, page_count)
        BY <3>2 DEF IInv, Document
      <4> QED
        BY <1>1, <2>1, <3>2, <4>1, BegunBody
    <3> QED
      BY <2>1, <3>1, <3>2
  <2> QED
    BY <1>1, <2>1, <2>2, <2>3, <2>4 DEF IInv, Types, Starting, Settled, Document, OutputIsDocument
<1>8. CASE Start
  <2>1. /\ exit = "starting" /\ ~job.headless /\ exit' = "running"
        /\ output' = OpenOutput(job)
        /\ UNCHANGED <<job, pos, page_count, skipped_pages>>
    BY <1>8 DEF Start
  <2>2. /\ pos = 0 /\ output = <<>> /\ page_count = 0 /\ skipped_pages = {}
        /\ Passed = {} /\ Pages(output) = {}
    BY <2>1, NothingPassed DEF IInv, Starting
  <2>3. OpenOutput(job) \in Seq(Items(0)) /\ Pages(OpenOutput(job)) = {}
    <3>1. /\ Mark("open") \in Items(0) /\ Mark("open").kind # "page"
          /\ <<>> \in Seq(Items(0))
      BY ItemsAre
    <3>2. OpenOutput(job) \in Seq(Items(0))
      BY <3>1 DEF OpenOutput
    <3>3. /\ Pages(<<>> \o OpenOutput(job)) = {}
          /\ <<>> \o OpenOutput(job) = OpenOutput(job)
      BY <1>1, <2>2, <3>1, <3>2, OutputPages, ConcatEmptySeq
    <3> QED
      BY <3>2, <3>3
  <2>4. IsBody(job, output', page_count')
    BY <1>1, <2>1, <2>2, OpenedBody
  <2>5. Passed' = {}
    BY <2>1, <2>2 DEF Passed
  <2>6. Settled'
    BY <2>1, <2>2, <2>3, <2>5, FS_EmptySet DEF Settled
  <2> QED
    BY <1>1, <2>1, <2>2, <2>3, <2>4, <2>6 DEF IInv, Types, Starting, Document, OutputIsDocument
<1>9. CASE Reject
  <2>1. /\ exit = "starting" /\ job.headless /\ exit' = "error"
        /\ UNCHANGED <<job, pos, output, page_count, skipped_pages>>
    BY <1>9 DEF Reject
  <2>2. output = <<>> /\ BeginsDocument(job, output)
    BY <2>1, NothingBegun DEF IInv, Starting
  <2> QED
    BY <1>1, <2>1, <2>2 DEF IInv, Types, Starting, Settled, Document, OutputIsDocument
<1>10. CASE UNCHANGED vars
  BY <1>10 DEF vars, IInv, Types, Starting, Settled, Passed, Document, OutputIsDocument
<1> QED
  BY <1>2, <1>3, <1>4, <1>5, <1>6, <1>7, <1>8, <1>9, <1>10 DEF Next, Finished

LEMMA Invariance == Spec => []IInv
BY InitInv, StepInv, PTL DEF Spec

(***************************************************************************)
(* The output of -j 1 is a document when the run succeeds and begins one   *)
(* when it fails, also where the refused write cut off a page; without a   *)
(* refused write the closing bracket alone is missing, or all of it if the *)
(* parser could not be made.                                               *)
(***************************************************************************)
THEOREM SequentialDocument == Spec => []OutputIsDocument
<1>1. IInv => OutputIsDocument
  BY DEF IInv, Document
<1> QED
  BY <1>1, Invariance, PTL

-----------------------------------------------------------------------------
(* The stream                                                              *)

\* The limit counts written pages: with an invalid page it is another one than
\* that of the parallel path.
JobsArePlain ==
  \A j \in Jobs : j.limit = NoLimit \/ \A p \in SelectedPages(j) : j.pages[p].valid

\* The stream's notions of a job are those of the loop.
LEMMA SameJob ==
  ASSUME NEW j
  PROVE  /\ Stream!FirstPages(j) = FirstPages(j)
         /\ Stream!ReportsError(j) <=> ReportsError(j)
<1>1. Stream!SelectedPages(j) = SelectedPages(j)
  BY DEF Stream!SelectedPages, SelectedPages
<1>2. \A n : Stream!LimitReached(j, n) <=> LimitReached(j, n)
  BY DEF Stream!LimitReached, LimitReached
<1>3. \A S : Stream!Cardinality(S) = Cardinality(S)
  BY Zenon DEF Stream!Cardinality, Cardinality
<1>4. Stream!FirstPages(j) = FirstPages(j)
  BY <1>1, <1>2, <1>3 DEF Stream!FirstPages, FirstPages
<1> QED
  BY <1>1, <1>4 DEF Stream!ReportsError, ReportsError

\* What the loop does with the limit is what FirstPages says of it.
LEMMA NextFirst ==
  ASSUME JobsArePlain, IInv, exit = "running", pos < Len(job.pages), pos' = pos + 1,
         job.pages[pos'].selected
  PROVE  /\ pos' \in FirstPages(job) <=> ~LimitReached(job, page_count)
         /\ LimitReached(job, page_count) => \A q \in FirstPages(job) : q <= pos
<1>1. /\ job \in Jobs /\ job \in JobKind /\ pos \in Nat
      /\ Len(job.pages) \in Nat /\ DOMAIN job.pages = 1 .. Len(job.pages)
  BY JobAssumption, LenProperties DEF IInv, Types, JobKind
<1>2. pos' \in SelectedPages(job)
  BY <1>1 DEF SelectedPages
<1>3. CASE job.limit = NoLimit
  BY <1>2, <1>3 DEF LimitReached, FirstPages
<1>4. CASE \A p \in SelectedPages(job) : job.pages[p].valid
  <2>1. Pages(output) = Passed
    BY <1>4 DEF IInv, Settled, Passed
  <2>2. Passed = {q \in SelectedPages(job) : q < pos'}
    BY <1>1 DEF Passed, SelectedPages
  <2>3. page_count = Cardinality({q \in SelectedPages(job) : q < pos'})
    BY <2>1, <2>2 DEF IInv, Settled
  <2>4. /\ pos' \in FirstPages(job) <=> ~LimitReached(job, page_count)
        /\ LimitReached(job, page_count) => \A q \in FirstPages(job) : q < pos'
    BY <1>1, <1>2, <2>3, FirstOrLimited
  <2>5. \A q \in FirstPages(job) : q \in Nat
    BY <1>1 DEF FirstPages, SelectedPages
  <2> QED
    BY <1>1, <2>4, <2>5
<1> QED
  BY <1>1, <1>3, <1>4 DEF JobsArePlain

\* Every selected page the loop has passed is one of the first.
Unlimited == exit = "running" => Passed \subseteq FirstPages(job)

LEMMA UnlimitedStep ==
  ASSUME JobsArePlain, IInv, Unlimited, [Next]_vars
  PROVE  Unlimited'
<1>1. CASE PassOver
  <2>1. /\ exit = "running" /\ pos < Len(job.pages) /\ pos' = pos + 1 /\ job' = job
        /\ ~job.pages[pos'].selected
    BY <1>1 DEF PassOver
  <2>2. Passed' = Passed
    BY <2>1, NextPage
  <2> QED
    BY <2>1, <2>2 DEF Unlimited
<1>2. CASE Skip \/ Write
  <2>1. /\ exit = "running" /\ pos < Len(job.pages) /\ pos' = pos + 1 /\ job' = job
        /\ job.pages[pos'].selected /\ ~LimitReached(job, page_count)
    BY <1>2 DEF Skip, Write, Reads
  <2>2. Passed' = Passed \cup {pos'} /\ pos' \in FirstPages(job)
    BY <2>1, NextPage, NextFirst
  <2> QED
    BY <2>1, <2>2 DEF Unlimited
<1>3. CASE exit' # "running"
  BY <1>3 DEF Unlimited
<1>4. CASE Start
  <2>1. Passed' = Passed /\ Passed = {}
    BY <1>4, NothingPassed DEF Start, Passed
  <2> QED
    BY <2>1 DEF Unlimited
<1>5. CASE UNCHANGED vars
  BY <1>5 DEF vars, Unlimited, Passed
<1> QED
  BY <1>1, <1>2, <1>3, <1>4, <1>5
  DEF Next, Reject, StopAtLimit, EndOfDump, FailToParse, FailWrite, Finished

\* Reading a page settles it, and the last pass of the loop finishes the stream
\* or breaks it.
LEMMA StepIsStream ==
  ASSUME JobsArePlain, IInv, Unlimited, [Next]_vars
  PROVE  [Stream!StreamNext]_(Stream!stream)
<1>1. /\ job \in JobKind /\ pos \in Nat /\ page_count \in Nat /\ output \in Seq(Items(pos))
      /\ Len(job.pages) \in Nat /\ DOMAIN job.pages = 1 .. Len(job.pages)
  BY JobAssumption, LenProperties DEF IInv, Types, JobKind
<1>2. CASE PassOver
  BY <1>2 DEF PassOver, Stream!stream
<1>3. CASE Skip
  <2>1. /\ exit = "running" /\ pos < Len(job.pages) /\ pos' = pos + 1 /\ job' = job
        /\ job.pages[pos'].selected /\ ~LimitReached(job, page_count)
        /\ ~job.pages[pos'].valid /\ skipped_pages' = skipped_pages \cup {pos'}
        /\ output' = output /\ exit' = exit
    BY <1>3 DEF Skip, Reads
  <2>2. pos' \in FirstPages(job) /\ pos' \notin Pages(output) \cup skipped_pages
    BY <2>1, NextPage, NextFirst DEF IInv, Settled
  <2>3. PICK p : p = pos'
    OBVIOUS
  <2>4. Stream!Settle(p)
    BY <2>1, <2>2, <2>3, SameJob DEF Stream!Settle
  <2> QED
    BY <2>2, <2>3, <2>4, SameJob DEF Stream!StreamNext
<1>4. CASE Write
  <2>1. /\ exit = "running" /\ pos < Len(job.pages) /\ pos' = pos + 1 /\ job' = job
        /\ job.pages[pos'].selected /\ ~LimitReached(job, page_count)
        /\ job.pages[pos'].valid
        /\ output' = WritePageResult(job, output, pos', page_count)
        /\ skipped_pages' = skipped_pages /\ exit' = exit
    BY <1>4 DEF Write, Reads
  <2>2. /\ pos' \in FirstPages(job) /\ pos' \notin Pages(output) \cup skipped_pages
        /\ output \in Seq(Items(pos')) /\ pos' \in 1 .. pos' /\ pos' \in Nat
    BY <1>1, <2>1, NextPage, NextFirst DEF IInv, Settled
  <2>3. Pages(output') = Pages(output) \cup {pos'}
    <3>1. PICK n \in Nat : n = pos'
      BY <2>2
    <3>2. Pages(WritePageResult(job, output, n, page_count)) = Pages(output) \cup {n}
      <4>1. n \in 1 .. n /\ job \in JobKind /\ output \in Seq(Items(n)) /\ page_count \in Nat
        BY <1>1, <2>2, <3>1
      <4>2. PICK j \in JobKind, out \in Seq(Items(n)), count \in Nat :
              j = job /\ out = output /\ count = page_count
        BY <4>1
      <4>3. Pages(WritePageResult(j, out, n, count)) = Pages(out) \cup {n}
        BY <4>1, OutputPages
      <4> QED
        BY <4>2, <4>3
    <3> QED
      BY <2>1, <3>1, <3>2
  <2>4. PICK p : p = pos'
    OBVIOUS
  <2>5. Stream!Settle(p)
    BY <2>1, <2>2, <2>3, <2>4, SameJob DEF Stream!Settle
  <2> QED
    BY <2>2, <2>4, <2>5, SameJob DEF Stream!StreamNext
<1>5. CASE StopAtLimit
  <2>1. /\ exit = "running" /\ pos < Len(job.pages) /\ pos' = pos + 1 /\ job' = job
        /\ job.pages[pos'].selected /\ LimitReached(job, page_count)
        /\ output' = output \o CloseOutput(job)
        /\ skipped_pages' = skipped_pages /\ exit' = "ok"
    BY <1>5 DEF StopAtLimit
  <2>2. /\ pos' \notin FirstPages(job) /\ pos' \in SelectedPages(job)
        /\ \A q \in FirstPages(job) : q <= pos
    BY <1>1, <2>1, NextFirst DEF SelectedPages
  <2>3. Pages(output) \cup skipped_pages = FirstPages(job)
    BY <2>1, <2>2 DEF IInv, Settled, Unlimited, Passed, FirstPages
  <2>4. ~ReportsError(job)
    BY <2>2 DEF ReportsError
  <2>5. Pages(output') = Pages(output)
    BY <1>1, <2>1, OutputPages
  <2>6. Stream!Finish
    BY <2>1, <2>3, <2>4, <2>5, SameJob DEF Stream!Finish
  <2> QED
    BY <2>6 DEF Stream!StreamNext
<1>6. ASSUME exit = "running", pos = Len(job.pages)
      PROVE  /\ Pages(output) \cup skipped_pages = FirstPages(job)
             /\ ReportsError(job) <=> job.malformed
  <2>1. Passed = SelectedPages(job)
    BY <1>1, <1>6 DEF Passed, SelectedPages
  <2>2. FirstPages(job) = SelectedPages(job)
    BY <1>6, <2>1 DEF Unlimited, FirstPages
  <2>3. job.malformed \in BOOLEAN
    BY <1>1 DEF JobKind
  <2> QED
    BY <1>6, <2>1, <2>2, <2>3 DEF ReportsError, IInv, Settled
<1>7. CASE EndOfDump
  <2>1. Pages(output') = Pages(output)
    BY <1>1, <1>7, OutputPages DEF EndOfDump
  <2>2. Stream!Finish
    BY <1>6, <1>7, <2>1, SameJob DEF EndOfDump, Stream!Finish
  <2> QED
    BY <2>2 DEF Stream!StreamNext
<1>8. CASE FailToParse
  <2>1. Stream!Finish
    BY <1>6, <1>8, SameJob DEF FailToParse, Stream!Finish
  <2> QED
    BY <2>1 DEF Stream!StreamNext
<1>9. CASE FailWrite
  <2>1. /\ exit \in {"starting", "running"} /\ job.failing /\ exit' = "error"
        /\ skipped_pages' = skipped_pages /\ job' = job
        /\ \/ output' = output
           \/ output' \in RefusedPage(job, output, page_count) \cup RefusedClose(job, output)
    BY <1>9 DEF FailWrite, Reads
  <2>2. Pages(output') = Pages(output)
    BY <1>1, <2>1, RefusedPages
  <2>3. Stream!Break
    BY <2>1, <2>2 DEF Stream!Break
  <2> QED
    BY <2>3 DEF Stream!StreamNext
<1>11. CASE Start
  <2>1. /\ exit = "starting" /\ exit' = "running" /\ output' = <<>> \o OpenOutput(job)
        /\ job' = job /\ skipped_pages' = skipped_pages /\ Pages(output) = {}
    <3>1. OpenOutput(job) \in Seq(Items(0))
      BY ItemsAre DEF OpenOutput
    <3> QED
      BY <1>11, <3>1, NothingPassed, ConcatEmptySeq DEF Start
  <2>2. Pages(output') = {}
    <3>1. <<>> \in Seq(Items(0)) /\ Pages(<<>>) = {}
      BY PagesOfPieces, ItemsAre
    <3> QED
      BY <1>1, <2>1, <3>1, OutputPages
  <2> QED
    BY <2>1, <2>2 DEF Stream!stream
<1>12. CASE Reject
  <2>1. /\ exit = "starting" /\ job.headless /\ exit' = "error"
        /\ UNCHANGED <<job, pos, output, page_count, skipped_pages>>
    BY <1>12 DEF Reject
  <2>2. job.malformed /\ job.pages = <<>>
    BY <2>1, JobAssumption DEF IInv, Types
  <2>3. FirstPages(job) = {} /\ SelectedPages(job) = {}
    BY <2>2 DEF FirstPages, SelectedPages
  <2>4. Stream!Finish
    BY <2>1, <2>2, <2>3, NothingPassed, SameJob DEF Stream!Finish, ReportsError
  <2> QED
    BY <2>4 DEF Stream!StreamNext
<1>10. CASE UNCHANGED vars
  BY <1>10 DEF vars, Stream!stream
<1> QED
  BY <1>2, <1>3, <1>4, <1>5, <1>7, <1>8, <1>9, <1>10, <1>11, <1>12 DEF Next, Finished

(***************************************************************************)
(* process_single is the page stream that process_parallel is, on jobs     *)
(* without a limit or without invalid pages: it settles each of the first  *)
(* N selected pages once and reports what the dump deserves.               *)
(***************************************************************************)
THEOREM SequentialIsStream == JobsArePlain /\ Spec => ImplementsStream
<1> SUFFICES ASSUME JobsArePlain PROVE Spec => ImplementsStream
  OBVIOUS
<1>1. Init => Stream!StreamInit
  <2> SUFFICES ASSUME Init PROVE Stream!StreamInit
    OBVIOUS
  <2>1. exit = "starting" /\ skipped_pages = {} /\ job \in Jobs /\ Pages(output) = {}
    BY InitInv, NothingPassed DEF Init
  <2> QED
    BY <2>1 DEF Stream!StreamInit
<1>2. Init => Unlimited
  BY DEF Init, Unlimited
<1>3. IInv /\ Unlimited /\ [Next]_vars => Unlimited'
  BY UnlimitedStep
<1>4. IInv /\ Unlimited /\ [Next]_vars => [Stream!StreamNext]_(Stream!stream)
  BY StepIsStream
<1> QED
  BY <1>1, <1>2, <1>3, <1>4, Invariance, PTL
  DEF Spec, ImplementsStream, Stream!StreamSpec
=============================================================================
