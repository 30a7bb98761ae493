------------------------------ MODULE XmlExport ------------------------------
(***************************************************************************)
(* MediaWiki exports as the event streams of quick_xml, and what they      *)
(* mean.  A text is a sequence of symbols.  quick_xml reports an entity    *)
(* reference as an event of its own, so that the text around it comes in   *)
(* pieces.  The meaning is the reference the parser is compared with.      *)
(***************************************************************************)
EXTENDS Naturals, Sequences, FiniteSets, SequencesExt

CONSTANTS Symbol,      \* with "colon", "underscore", "space" and "lt"
          Numbers,     \* the texts that parse as i32
          Timestamps,  \* the texts that parse as timestamps
          Hashes,      \* the texts of 31 bytes
          RandomId     \* the id of a revision whose id is no number

Text == Seq(Symbol)
Zero == <<"0">>

ASSUME TextAssumption ==
  /\ {"colon", "underscore", "space", "lt", "0"} \subseteq Symbol
  /\ Numbers \subseteq Text /\ Timestamps \subseteq Text /\ Hashes \subseteq Text
  /\ Zero \in Numbers /\ RandomId \in Text

-----------------------------------------------------------------------------
(* Events.  The attribute is the key of a namespace or "deleted".          *)

NoAttribute == <<>>
DeletedAttribute == <<"deleted">>
MissingKey == <<"missing">>

Event(kind, name, attr, text) == [kind |-> kind, name |-> name, attr |-> attr, text |-> text]

Start(name, attr) == Event("start", name, attr, <<>>)
Empty(name, attr) == Event("empty", name, attr, <<>>)
End(name) == Event("end", name, NoAttribute, <<>>)
Piece(text) == Event("text", "", NoAttribute, text)
Reference(symbol) == Event("reference", "", NoAttribute, <<symbol>>)
Malformed == Event("malformed", "", NoAttribute, <<>>)

\* An element around the events of its content; a field that is left out is <<>>.
Element(name, attr, content) == <<Start(name, attr)>> \o content \o <<End(name)>>
Field(name, text) == Element(name, NoAttribute, <<Piece(text)>>)
EmptyField(name) == <<Empty(name, NoAttribute)>>
DeletedField(name) == <<Empty(name, DeletedAttribute)>>
UnknownElement ==
  Element("unknown", NoAttribute, <<Reference("lt"), Piece(<<"space">>), Empty("unknown", NoAttribute)>>)

-----------------------------------------------------------------------------
(* Documents.                                                              *)

NamespaceEvents(n) ==
  IF n.name = <<>> THEN <<Empty("namespace", n.key)>>
  ELSE Element("namespace", n.key, <<Piece(n.name)>>)

SiteEvents(site) ==
  Element("siteinfo", NoAttribute,
    Field("dbname", site.dbname) \o UnknownElement
    \o Element("namespaces", NoAttribute,
               FlattenSeq([i \in DOMAIN site.namespaces |-> NamespaceEvents(site.namespaces[i])])))

RevisionEvents(rev) ==
  Element("revision", NoAttribute,
    rev.id \o rev.timestamp \o rev.contributor \o rev.minor \o rev.comment \o rev.text \o rev.sha1)

PageEvents(page) ==
  Element("page", NoAttribute,
    Element("title", NoAttribute, page.title) \o Field("ns", page.ns) \o Field("id", Zero) \o UnknownElement
    \o FlattenSeq([i \in DOMAIN page.revisions |-> RevisionEvents(page.revisions[i])]))

Events(export) ==
  Element("mediawiki", NoAttribute,
    SiteEvents(export.site)
    \o FlattenSeq([i \in DOMAIN export.pages |->
                     <<Piece(<<"space">>)>> \o PageEvents(export.pages[i])]))

-----------------------------------------------------------------------------
(* Their meaning.                                                          *)

Content(field) == FlattenSeq([i \in DOMAIN field |-> field[i].text])

\* An option: <<>> or <<value>>.
Present(text, valid) == IF text \in valid THEN <<text>> ELSE <<>>

\* The content of the child with the given name, or <<>>.
Child(field, name) ==
  LET starts == {i \in DOMAIN field : field[i].kind = "start" /\ field[i].name = name}
      After(i) == CHOOSE j \in i .. Len(field) :
                    field[j].kind = "end" /\ \A k \in i .. j - 1 : field[k].kind # "end"
  IN IF starts = {} THEN <<>>
     ELSE LET i == CHOOSE i \in starts : TRUE IN Content(SubSeq(field, i, After(i)))

NormalText(text) == [deleted |-> FALSE, text |-> text]
DeletedText == [deleted |-> TRUE, text |-> <<>>]

RevisionMeaning(rev) ==
  LET username == Child(rev.contributor, "username")
  IN [id |-> IF Content(rev.id) \in Numbers THEN Content(rev.id) ELSE RandomId,
      timestamp |-> Content(rev.timestamp),
      contributor_name |-> IF username # <<>> THEN username ELSE Child(rev.contributor, "ip"),
      contributor_id |-> Present(Child(rev.contributor, "id"), Numbers),
      text |-> IF rev.text[1].attr = DeletedAttribute THEN DeletedText
               ELSE NormalText(Content(rev.text)),
      sha1 |-> Present(Content(rev.sha1), Hashes),
      comment |-> IF Content(rev.comment) = <<>> THEN <<>> ELSE <<Content(rev.comment)>>,
      minor |-> rev.minor # <<>>]

\* A revision without a mandatory field is left out.
IsComplete(rev) ==
  /\ Content(rev.id) # <<>> /\ rev.text # <<>>
  /\ Content(rev.timestamp) \in Timestamps
  /\ RevisionMeaning(rev).contributor_name # <<>>

SiteMeaning(site) ==
  LET numbered == {i \in DOMAIN site.namespaces : site.namespaces[i].key \in Numbers}
  IN [dbname |-> site.dbname,
      namespaces |-> [key \in {site.namespaces[i].key : i \in numbered} |->
                        site.namespaces[CHOOSE i \in numbered : site.namespaces[i].key = key].name]]

NormalizeTitle(title) ==
  [i \in DOMAIN title |-> IF title[i] = "underscore" THEN "space" ELSE title[i]]

\* The name of the page's namespace is no part of its title.
TitleMeaning(site, page) ==
  LET title == Content(page.title)
      namespaces == SiteMeaning(site).namespaces
      prefix == IF page.ns \in DOMAIN namespaces THEN namespaces[page.ns] \o <<"colon">> ELSE <<>>
  IN NormalizeTitle(IF prefix # <<"colon">> /\ IsPrefix(prefix, title)
                    THEN SubSeq(title, Len(prefix) + 1, Len(title))
                    ELSE title)

PageMeaning(site, page) ==
  [title |-> TitleMeaning(site, page),
   namespace |-> IF page.ns \in Numbers THEN page.ns ELSE Zero,
   revisions |-> LET complete == SelectSeq(page.revisions, IsComplete)
                 IN [i \in DOMAIN complete |-> RevisionMeaning(complete[i])]]

-----------------------------------------------------------------------------
(* Input streams: the events, what they mean, and whether they are         *)
(* structured as an export has to be; and whether the program that reads   *)
(* them has the feature "strict".                                          *)

Stream(export) ==
  [events |-> Events(export),
   single |-> FALSE, strict |-> FALSE,
   site |-> SiteMeaning(export.site),
   pages |-> [i \in DOMAIN export.pages |-> PageMeaning(export.site, export.pages[i])],
   ending |-> "end",
   sound |-> /\ \A n \in Range(export.site.namespaces) : n.key # MissingKey
             /\ \A i \in DOMAIN export.pages : \A r \in Range(export.pages[i].revisions) : IsComplete(r)]

\* A page on its own, for parse_single_page.
SinglePage(page) ==
  LET site == [dbname |-> <<>>, namespaces |-> <<>>]
  IN [events |-> PageEvents(page), single |-> TRUE, strict |-> FALSE, site |-> SiteMeaning(site),
      pages |-> <<PageMeaning(site, page)>>, ending |-> "end",
      sound |-> \A r \in Range(page.revisions) : IsComplete(r)]

Strictly(stream) == [stream EXCEPT !.strict = TRUE]

\* The stream ends after n events.
Truncated(stream, n) ==
  LET Number(kind, name) ==
        Cardinality({i \in 1 .. n : stream.events[i].kind = kind /\ stream.events[i].name = name})
  IN [stream EXCEPT
        !.events = SubSeq(@, 1, n),
        !.pages = SubSeq(@, 1, Number("end", "page")),
        !.ending = IF Number("end", "siteinfo") = 1
                      /\ Number("start", "page") = Number("end", "page")
                   THEN "end" ELSE "error",
        !.sound = FALSE]

\* The n-th event is an end tag that is spelled wrongly.
Misspelled(stream, n) == [stream EXCEPT !.events[n].name = "misspelled", !.sound = FALSE]

\* After n events there is an element that does not belong there.
Inserted(stream, n, element) ==
  [stream EXCEPT !.events = SubSeq(@, 1, n) \o element \o SubSeq(@, n + 1, Len(@)),
                 !.sound = FALSE]

\* After n events the XML itself is malformed.
Damaged(stream, n) ==
  [Truncated(stream, n) EXCEPT !.events = Append(@, Malformed), !.ending = "error"]
=============================================================================
