---------------------------- MODULE MCDumpParser ----------------------------
(* Exports of one or two pages: a page with every pair of revisions that     *)
(* differ from a plain one in a field, titles and namespaces, and a longer   *)
(* export cut off, damaged and misspelled at every place.                    *)
EXTENDS DumpHistory

SymbolsUsed == {"A", "B", "0", "1", "2", "x", "t", "h", "colon", "underscore", "space",
                "lt", "deleted", "missing", "ignored", "random"}
Strings == STRING

A == <<"A">>
X == <<"x">>
One == <<"1">>
Two == <<"2">>

Numerals == {Zero, One, Two}
Times == {<<"t">>}
Hash == {<<"h">>}
Negative == <<"random">>

Contributor(fields) == Element("contributor", NoAttribute, fields)

Plain ==
  [id |-> Field("id", One), timestamp |-> Field("timestamp", <<"t">>),
   contributor |-> Contributor(Field("username", A) \o Field("id", Two)),
   minor |-> <<>>, comment |-> <<>>, text |-> Field("text", A), sha1 |-> Field("sha1", <<"h">>)]

Revisions ==
  {Plain}
  \cup {[Plain EXCEPT !.id = f] : f \in {<<>>, Field("id", Two), Field("id", X)}}
  \cup {[Plain EXCEPT !.timestamp = f] : f \in {<<>>, Field("timestamp", X)}}
  \cup {[Plain EXCEPT !.contributor = f] :
          f \in {Contributor(Field("ip", X)), Contributor(Field("username", A) \o Field("id", X)),
                 Contributor(<<>>), DeletedField("contributor")}}
  \cup {[Plain EXCEPT !.minor = f] : f \in {EmptyField("minor"), Field("minor", X)}}
  \cup {[Plain EXCEPT !.comment = f] : f \in {EmptyField("comment"), Field("comment", X)}}
  \cup {[Plain EXCEPT !.text = f] :
          f \in {<<>>, EmptyField("text"), Field("text", X),
                 Element("text", DeletedAttribute, <<Piece(X)>>)}}
  \cup {[Plain EXCEPT !.sha1 = f] : f \in {<<>>, EmptyField("sha1"), Field("sha1", X)}}

Page1(title, ns, revisions) == [title |-> <<Piece(title)>>, ns |-> ns, revisions |-> revisions]

Site(namespaces) == [dbname |-> A, namespaces |-> namespaces]
Namespace(key, name) == [key |-> key, name |-> name]
PlainSite == Site(<<Namespace(Zero, <<>>), Namespace(One, X)>>)

Export(site, pages) == [site |-> site, pages |-> pages]

RevisionExports ==
  {Stream(Export(Site(<<>>), <<Page1(A, Zero, <<r, s>>)>>)) : r \in Revisions, s \in Revisions}

Titles == {A, X \o <<"colon">> \o A, X \o <<"colon", "underscore", "colon">> \o A}
TitleExports ==
  {Stream(Export(PlainSite, <<Page1(t, One, <<>>), Page1(<<"A", "underscore">>, n, <<Plain>>)>>)) :
     t \in Titles, n \in {Zero, X}}

Sites ==
  {PlainSite, Site(<<Namespace(X, A), Namespace(<<"missing">>, A), Namespace(One, A)>>),
   Site(<<Namespace(One, A), Namespace(One, A), Namespace(Zero, <<>>)>>)}
SiteExports == {Stream(Export(s, <<Page1(A, Zero, <<Plain>>)>>)) : s \in Sites}

Short == Stream(Export(PlainSite, <<Page1(A, Zero, <<Plain>>), Page1(A, One, <<>>)>>))
Ends == {n \in DOMAIN Short.events : Short.events[n].kind = "end"}
BrokenExports ==
  {Truncated(Short, n) : n \in 0 .. Len(Short.events) - 1}
  \cup {Damaged(Short, n) : n \in 0 .. Len(Short.events) - 1}
  \cup {Misspelled(Short, n) : n \in Ends}

Single == SinglePage(Page1(A, Zero, <<Plain>>))
SinglePages ==
  {Single}
  \cup {Truncated(Single, n) : n \in 0 .. Len(Single.events) - 1}
  \cup {Inserted(Single, n, element) : n \in 0 .. Len(Single.events) - 1,
                                       element \in {<<Empty("namespace", MissingKey)>>,
                                                    Element("namespace", MissingKey, <<Piece(X)>>)}}

LenientStreams ==
  RevisionExports \cup TitleExports \cup SiteExports \cup BrokenExports \cup SinglePages
PassingStreams == LenientStreams \cup {Strictly(s) : s \in LenientStreams}

-----------------------------------------------------------------------------
(* What the events of a stream tell (DumpHistory), computed.                *)

HistoryOf(stream) ==
  LET open == FoldLeft(LAMBDA tags, e : Append(tags, Onwards(Last(tags), e)),
                       <<IF stream.single THEN <<MediaWikiTag>> ELSE <<>>>>, stream.events)
  IN [events |-> stream.events, single |-> stream.single,
      open |-> [n \in 0 .. Len(stream.events) |-> open[n + 1]]]

Increasing(S) == SetToSortSeq(S, <)

LatestOf(default, h, r, n, field) ==
  LET offers == {k \in r + 1 .. n : Offers(h, k, field)}
  IN IF offers = {} THEN default ELSE Offered(h, Max(offers), field)

\* The builders of the revisions that are over with event n: one or none.
Builders(h, s, n) ==
  {[field \in RevisionFields |-> LatestOf(NewBuilder[field], h, r, n - 1, field)] :
     r \in {r \in s + 1 .. n - 1 : Shuts(h, n, "revision") /\ Underway(h, s, r, n - 1)}}

PageOf(h, s, m, n) ==
  LET complete(k) == {b \in Builders(h, s, k) : Buildable(b)}
      places == Increasing({k \in m + 1 .. n : complete(k) # {}})
  IN [title |-> LatestOf(<<>>, h, m, n, "title"), namespace |-> LatestOf(Zero, h, m, n, "namespace"),
      revisions |-> [i \in DOMAIN places |-> Built(CHOOSE b \in complete(places[i]) : TRUE)]]

IsTold(stream) ==
  LET h == HistoryOf(stream)
      last == Len(stream.events)
      begins == {s \in 0 .. last : PagesBegin(h, s)}
      placesOf(s, n) == Increasing({k \in s + 1 .. n : Shuts(h, k, "page")})
      pagesOf(s, n) == LET places == placesOf(s, n)
                       IN [i \in DOMAIN places |-> PageOf(h, s, Since(places, s, i), places[i] - 1)]
  IN /\ \A s \in begins, n \in {n \in 1 .. last : Shuts(h, n, "page")} :
          n > s /\ (stream.single => Len(pagesOf(s, n)) <= 1) => IsPrefix(pagesOf(s, n), stream.pages)
     /\ \A n \in {n \in 0 .. last : StopsAfter(h, n)} :
          /\ ~stream.single /\ (\A m \in 1 .. n : ~Shuts(h, m, "siteinfo"))
               => stream.pages = <<>> /\ stream.ending = "error"
          /\ \A s \in begins :
               s <= n /\ (stream.single => pagesOf(s, n) = <<>>)
                 => /\ stream.pages = pagesOf(s, n)
                    /\ stream.ending =
                         IF \/ n # last \/ stream.single
                            \/ \E m \in Since(placesOf(s, n), s, Len(placesOf(s, n)) + 1) + 1 .. n :
                                 IsStart(h.events, m, "page")
                         THEN "error" ELSE "end"
     /\ stream.strict /\ stream.sound =>
          /\ \A n \in 1 .. last :
               /\ ~NoTag(h.events[n]) /\ ~NoKey(h.events[n]) /\ ~WrongEnd(h.events[n], Within(h, n))
               /\ \A s \in begins : \A b \in Builders(h, s, n) : Buildable(b)
          /\ stream.single \/ h.open[last] = <<>>

\* StreamIsTold, which the proof of ImplementsPageSource assumes, holds of the streams.
ASSUME StreamsAreTold == \A stream \in PassingStreams : IsTold(stream)

-----------------------------------------------------------------------------
(* What the code gets wrong.                                                *)

\* A text with a reference, as in "A&lt;B".
ReferenceStreams ==
  {Stream(Export(PlainSite, <<Page1(A, Zero,
     <<[Plain EXCEPT !.text = Element("text", NoAttribute, <<Piece(A), Reference("lt"), Piece(X)>>)]>>)>>))}

DeletedStreams ==
  {Stream(Export(PlainSite, <<Page1(A, Zero, <<[Plain EXCEPT !.text = DeletedField("text")]>>)>>))}

ColonStreams ==
  {Stream(Export(PlainSite, <<Page1(<<"A", "colon", "B">>, Zero, <<Plain>>)>>))}
=============================================================================
