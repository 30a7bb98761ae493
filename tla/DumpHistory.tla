------------------------------ MODULE DumpHistory ------------------------------
(***************************************************************************)
(* What the events of a stream tell, as a reader of the whole stream would *)
(* put it, without a parser: which elements are open at each event, which  *)
(* events offer a field, which one ends a revision or page, and what these *)
(* then are.                                                               *)
(***************************************************************************)
EXTENDS DumpParser

PathOf(p) == [i \in DOMAIN p |-> p[i].name]

IsStart(events, n, name) == events[n].kind = "start" /\ events[n].name = name

\* What may be wrong with an event.
NoTag(e) == e.kind = "malformed"
NoKey(e) == e.kind \in {"start", "empty"} /\ e.attr = MissingKey
WrongEnd(e, path) == e.kind = "end" /\ (path = <<>> \/ Last(path) # e.name)

-----------------------------------------------------------------------------
(* Histories                                                               *)

TagType == [name : Name, attr : Text]
TagOf(e) == [name |-> e.name, attr |-> IF e.attr = MissingKey THEN <<"ignored">> ELSE e.attr]

\* The open elements after an event, with their attributes.
Onwards(tags, e) ==
  CASE e.kind = "start" -> Append(tags, TagOf(e))
    [] e.kind = "end" -> IF tags = <<>> THEN <<>> ELSE Front(tags)
    [] OTHER -> tags

\* A stream, with the elements that are open after each of its events.
IsHistory(h) ==
  /\ h.events = source.events /\ h.single = source.single
  /\ h.open \in [0 .. Len(source.events) -> Seq(TagType)]
  /\ h.open[0] = IF source.single THEN <<MediaWikiTag>> ELSE <<>>
  /\ \A n \in 1 .. Len(source.events) : h.open[n] = Onwards(h.open[n - 1], source.events[n])

\* The n-th event closes an element of the given name, however its tag is spelled.
Shuts(h, n, name) ==
  h.events[n].kind = "end" /\ h.open[n - 1] # <<>> /\ Last(h.open[n - 1]).name = name

\* Where the n-th event stands.
Within(h, n) == PathOf(h.open[n - 1])

\* The fields an event can give to a page or revision, and what it gives.
Offers(h, n, field) ==
  LET e == h.events[n]
  IN \/ /\ e.kind = "text"
        /\ CASE field = "title" -> Within(h, n) = InPage(<<"title">>)
             [] field = "namespace" -> Within(h, n) = InPage(<<"ns">>)
             [] field = "contributor_name" ->
                  Within(h, n) \in {InRevision(<<"contributor", "username">>),
                                    InRevision(<<"contributor", "ip">>)}
             [] field = "contributor_id" -> Within(h, n) = InRevision(<<"contributor", "id">>)
             [] field = "sha1" -> Within(h, n) = InRevision(<<"sha1">>) /\ e.text \in Hashes
             [] OTHER -> Within(h, n) = InRevision(<<field>>)
     \/ /\ e.kind = "empty" /\ field \in {"text", "minor"}
        /\ Append(Within(h, n), e.name) = InRevision(<<field>>)

Offered(h, n, field) ==
  LET e == h.events[n]
  IN CASE field = "title" -> NormalizeTitle(AfterColon(e.text))
       [] field = "namespace" -> IF e.text \in Numbers THEN e.text ELSE Zero
       [] field = "id" -> IF e.text \in Numbers THEN <<e.text>> ELSE <<RandomId>>
       [] field = "timestamp" -> Present(e.text, Timestamps)
       [] field = "contributor_id" -> Present(e.text, Numbers)
       [] field = "text" ->
            IF e.kind = "empty" THEN <<NormalText(<<>>)>>
            ELSE IF Last(h.open[n - 1]).attr = DeletedAttribute THEN <<DeletedText>>
            ELSE <<NormalText(e.text)>>
       [] field = "minor" -> TRUE
       [] OTHER -> <<e.text>>

\* A field has the value that was given last by the events after r up to n.
Latest(value, default, h, r, n, field) ==
  \/ value = default /\ \A k \in r + 1 .. n : ~Offers(h, k, field)
  \/ \E k \in r + 1 .. n :
       /\ Offers(h, k, field) /\ value = Offered(h, k, field)
       /\ \A j \in k + 1 .. n : ~Offers(h, j, field)

\* The pages begin behind the site info, which ends with event s.
PagesBegin(h, s) ==
  IF h.single THEN s = 0
  ELSE /\ s \in 1 .. Len(h.events) /\ Shuts(h, s, "siteinfo")
       /\ \A n \in 1 .. s - 1 : ~Shuts(h, n, "siteinfo")

\* The revision that began last, by event n, began with event r and is not over.
Underway(h, s, r, n) ==
  /\ r \in s + 1 .. n /\ IsStart(h.events, r, "revision")
  /\ \A m \in r + 1 .. n : /\ ~IsStart(h.events, m, "revision")
                           /\ ~Shuts(h, m, "revision") /\ ~Shuts(h, m, "page")

RevisionFields == {"id", "timestamp", "contributor_name", "contributor_id", "text", "sha1",
                   "comment", "minor"}

\* The events after r up to n give a revision the fields of b, each its latest value.
RevisionTold(b, h, r, n) ==
  /\ b \in BuilderType
  /\ \A field \in RevisionFields : Latest(b[field], NewBuilder[field], h, r, n, field)

\* With event n a revision with the fields of b is over.
RevisionEnds(b, h, s, n) ==
  /\ Shuts(h, n, "revision")
  /\ \E r \in 1 .. n - 1 : Underway(h, s, r, n - 1) /\ RevisionTold(b, h, r, n - 1)

\* The n-th event ends a revision that has its mandatory fields.
Completes(h, s, n) == \E b : RevisionEnds(b, h, s, n) /\ Buildable(b)

\* The numbers of a set in increasing order.
Enumerates(places, S) ==
  /\ places \in Seq(Nat)
  /\ \A i, j \in DOMAIN places : i < j => places[i] < places[j]
  /\ Range(places) = S

\* The complete revisions that are over with the events after m up to n.
RevisionsTold(revisions, h, s, m, n) ==
  /\ revisions \in Seq(RevisionType)
  /\ \E places :
       /\ Enumerates(places, {k \in m + 1 .. n : Completes(h, s, k)})
       /\ Len(revisions) = Len(places)
       /\ \A i \in DOMAIN places : \E b : RevisionEnds(b, h, s, places[i]) /\ revisions[i] = Built(b)

\* The page p is what the events after m up to n say.
PageTold(p, h, s, m, n) ==
  /\ p \in PageType
  /\ Latest(p.title, <<>>, h, m, n, "title")
  /\ Latest(p.namespace, Zero, h, m, n, "namespace")
  /\ RevisionsTold(p.revisions, h, s, m, n)

\* The page before the i-th ended with that event.
Since(places, s, i) == IF i = 1 THEN s ELSE places[i - 1]

\* The pages that are over with event n; they end at the places.
PagesTold(pages, places, h, s, n) ==
  /\ Enumerates(places, {k \in s + 1 .. n : Shuts(h, k, "page")})
  /\ pages \in Seq(PageType) /\ Len(pages) = Len(places)
  /\ \A i \in DOMAIN places : PageTold(pages[i], h, s, Since(places, s, i), places[i] - 1)

\* Nothing is read after event n: there is no more, or it is malformed.
StopsAfter(h, n) ==
  /\ \A k \in 1 .. n : h.events[k].kind # "malformed"
  /\ n = Len(h.events) \/ h.events[n + 1].kind = "malformed"

(***************************************************************************)
(* The pages of the source are those its events tell of, and its ending is *)
(* an error unless the events end behind a site info and its pages.  A     *)
(* single page is not read beyond its end.  Under "strict" a sound stream  *)
(* has nothing malformed or misspelled, no key missing, no revision        *)
(* without its mandatory fields, and no element that stays open.           *)
(***************************************************************************)
PagesAreTold(h) ==
  \A s, n, pages, places :
    PagesBegin(h, s) /\ n \in s .. Len(h.events) /\ PagesTold(pages, places, h, s, n)
    /\ (h.single => Len(pages) <= 1)
      => Len(pages) <= Len(source.pages) /\ \A i \in 1 .. Len(pages) : pages[i] = source.pages[i]

EndingIsTold(h) ==
  \A n \in 0 .. Len(h.events) : StopsAfter(h, n) =>
    /\ ~h.single /\ (\A m \in 1 .. n : ~Shuts(h, m, "siteinfo"))
         => source.pages = <<>> /\ source.ending = "error"
    /\ \A s, pages, places :
         PagesBegin(h, s) /\ s <= n /\ PagesTold(pages, places, h, s, n)
         /\ (h.single => pages = <<>>)
           => /\ source.pages = pages
              /\ source.ending =
                   IF \/ n # Len(h.events) \/ h.single
                      \/ \E m \in Since(places, s, Len(places) + 1) + 1 .. n : IsStart(h.events, m, "page")
                   THEN "error" ELSE "end"

SoundIsProper(h) ==
  source.strict /\ source.sound =>
    /\ \A n \in 1 .. Len(h.events) :
         /\ ~NoTag(h.events[n]) /\ ~NoKey(h.events[n]) /\ ~WrongEnd(h.events[n], Within(h, n))
         /\ \A s, b : PagesBegin(h, s) /\ RevisionEnds(b, h, s, n) => Buildable(b)
    /\ h.single \/ h.open[Len(h.events)] = <<>>

StreamIsTold ==
  /\ source.pages \in Seq(PageType)
  /\ \A h : IsHistory(h) => PagesAreTold(h) /\ EndingIsTold(h) /\ SoundIsProper(h)
=============================================================================
