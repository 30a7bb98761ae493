------------------------------ MODULE DumpParser ------------------------------
(***************************************************************************)
(* DumpParser (dump_parser/mod.rs): a loop over the events of quick_xml    *)
(* that keeps the path of open elements and fills in what it finds at the  *)
(* paths it knows.  new reads the site info, then every call of parse_page *)
(* reads one page; the caller calls it until it returns None or an error.  *)
(* An action handles one event.                                            *)
(***************************************************************************)
EXTENDS XmlExport

CONSTANTS Streams,  \* the input streams considered
          Name      \* the names of elements, and the empty one of other events

EventType == [kind : STRING, name : Name, attr : Text, text : Text]

ASSUME StreamAssumption ==
  /\ "mediawiki" \in Name /\ "ignored" \in Symbol
  /\ \A stream \in Streams : stream.events \in Seq(EventType)

VARIABLES
  source,            \* the input
  pos,               \* events read
  stage,             \* "parse_site_info" or "parse_page"
  current_path,      \* the open elements, as [name, attr]
  site_info,
  page, started_page,
  revision_builder,  \* an option
  returned,          \* the pages returned so far
  status             \* "reading", "end", "error" or "panicked"

siteVars == <<stage, site_info>>
pageVars == <<page, started_page, revision_builder>>
vars == <<source, pos, siteVars, current_path, pageVars, returned, status>>

NoPage == [title |-> <<>>, namespace |-> Zero, revisions |-> <<>>]
NewBuilder == [id |-> <<>>, timestamp |-> <<>>, contributor_name |-> <<>>, contributor_id |-> <<>>,
               text |-> <<>>, sha1 |-> <<>>, comment |-> <<>>, minor |-> FALSE]

MediaWikiTag == [name |-> "mediawiki", attr |-> NoAttribute]

Init ==
  /\ source \in Streams
  /\ pos = 0
  /\ stage = IF source.single THEN "parse_page" ELSE "parse_site_info"
  /\ current_path = IF source.single THEN <<MediaWikiTag>> ELSE <<>>
  /\ site_info = [dbname |-> <<>>, namespaces |-> <<>>]
  /\ page = NoPage /\ started_page = FALSE /\ revision_builder = <<>>
  /\ returned = <<>>
  /\ status = "reading"

-----------------------------------------------------------------------------
(* Reading                                                                 *)

event == source.events[pos']

\* The feature "strict".
Strict == source.strict

\* read_event_into returns an event of the given kind while f runs.
Reads(f, kind) ==
  /\ status = "reading" /\ stage = f
  /\ pos < Len(source.events)
  /\ pos' = pos + 1
  /\ event.kind = kind
  /\ UNCHANGED source

\* from_start_bytes: a namespace without a key is taken for one to be ignored.
Tag == [name |-> event.name, attr |-> IF event.attr = MissingKey THEN <<"ignored">> ELSE event.attr]

\* parse_start_bytes with the feature "strict": a todo!().
IsTodo == Strict /\ event.attr = MissingKey

Path == [i \in DOMAIN current_path |-> current_path[i].name]

NamespacePath == <<"mediawiki", "siteinfo", "namespaces", "namespace">>
InPage(names) == <<"mediawiki", "page">> \o names
InRevision(names) == InPage(<<"revision">>) \o names

Panic(f) ==
  /\ Reads(f, "start") \/ Reads(f, "empty")
  /\ IsTodo
  /\ status' = "panicked"
  /\ UNCHANGED <<siteVars, current_path, pageVars, returned>>

\* The XML is malformed.
Fail(f) ==
  /\ Reads(f, "malformed")
  /\ status' = "error"
  /\ UNCHANGED <<siteVars, current_path, pageVars, returned>>

\* Entity references and all else.
PassOver(f) ==
  /\ Reads(f, "reference")
  /\ UNCHANGED <<siteVars, current_path, pageVars, returned, status>>

\* check_end_tag: the innermost element is closed, whatever the end tag is called.
Closed == Front(current_path)
Mismatched == current_path = <<>> \/ Last(current_path).name # event.name
Closes(name) ==
  /\ current_path # <<>> /\ Last(current_path).name = name
  /\ Strict => ~Mismatched

\* check_end_tag with the feature "strict".
RejectEnd(f) ==
  /\ Reads(f, "end")
  /\ Strict /\ Mismatched
  /\ status' = "error"
  /\ current_path' = IF current_path = <<>> THEN <<>> ELSE Closed
  /\ UNCHANGED <<siteVars, pageVars, returned>>

CloseOther(f, awaited) ==
  /\ Reads(f, "end")
  /\ ~(Strict /\ Mismatched)
  /\ \A name \in awaited : ~Closes(name)
  /\ current_path' = IF current_path = <<>> THEN <<>> ELSE Closed
  /\ UNCHANGED <<siteVars, pageVars, returned, status>>

-----------------------------------------------------------------------------
(* parse_site_info                                                         *)

OpenInSite ==
  /\ Reads("parse_site_info", "start")
  /\ ~IsTodo
  /\ current_path' = Append(current_path, Tag)
  /\ UNCHANGED <<siteVars, pageVars, returned, status>>

WithNamespace(key, name) ==
  [site_info EXCEPT !.namespaces =
     [k \in DOMAIN @ \cup {key} |-> IF k = key THEN name ELSE @[k]]]

\* Mutant: empty elements have nothing to read.
EmptyInSiteSkipped ==
  /\ Reads("parse_site_info", "empty")
  /\ ~IsTodo
  /\ UNCHANGED <<siteVars, current_path, pageVars, returned, status>>

\* An empty element at the path of a namespace is one without a name.  If its key
\* is no number it stays on the path.
EmptyInSite ==
  /\ Reads("parse_site_info", "empty")
  /\ ~IsTodo
  /\ LET isNamespace == Append(Path, event.name) = NamespacePath
     IN /\ site_info' = IF isNamespace /\ Tag.attr \in Numbers
                        THEN WithNamespace(Tag.attr, <<>>) ELSE site_info
        /\ current_path' = IF isNamespace /\ Tag.attr \notin Numbers
                           THEN Append(current_path, Tag) ELSE current_path
  /\ UNCHANGED <<stage, pageVars, returned, status>>

\* Mutant: the key of a namespace is not looked at.
TextInSiteUnchecked ==
  /\ Reads("parse_site_info", "text")
  /\ site_info' =
       CASE Path = <<"mediawiki", "siteinfo", "dbname">> -> [site_info EXCEPT !.dbname = event.text]
         [] Path = NamespacePath -> WithNamespace(Last(current_path).attr, event.text)
         [] OTHER -> site_info
  /\ UNCHANGED <<stage, current_path, pageVars, returned, status>>

TextInSite ==
  /\ Reads("parse_site_info", "text")
  /\ site_info' =
       CASE Path = <<"mediawiki", "siteinfo", "dbname">> -> [site_info EXCEPT !.dbname = event.text]
         [] Path = NamespacePath /\ Last(current_path).attr \in Numbers ->
              WithNamespace(Last(current_path).attr, event.text)
         [] OTHER -> site_info
  /\ UNCHANGED <<stage, current_path, pageVars, returned, status>>

EndSite ==
  /\ Reads("parse_site_info", "end")
  /\ Closes("siteinfo")
  /\ current_path' = Closed
  /\ stage' = "parse_page"
  /\ UNCHANGED <<site_info, pageVars, returned, status>>

EofInSite ==
  /\ status = "reading" /\ stage = "parse_site_info"
  /\ pos = Len(source.events)
  /\ status' = "error"
  /\ UNCHANGED <<source, pos, siteVars, current_path, pageVars, returned>>

-----------------------------------------------------------------------------
(* parse_page                                                              *)

Open ==
  /\ Reads("parse_page", "start")
  /\ ~IsTodo
  /\ started_page' = (started_page \/ event.name = "page")
  /\ revision_builder' = IF event.name = "revision" THEN <<NewBuilder>> ELSE revision_builder
  /\ current_path' = Append(current_path, Tag)
  /\ UNCHANGED <<siteVars, page, returned, status>>

\* The builder after a field of its revision.
Building(builder) == IF revision_builder = <<>> THEN <<>> ELSE <<builder>>

\* Mutant: an empty element stays on the path.
EmptyElementStays ==
  /\ Reads("parse_page", "empty")
  /\ ~IsTodo
  /\ current_path' = Append(current_path, Tag)
  /\ UNCHANGED <<siteVars, pageVars, returned, status>>

\* A deleted text is not told from an empty one.
EmptyElement ==
  /\ Reads("parse_page", "empty")
  /\ ~IsTodo
  /\ LET path == Append(Path, event.name)
     IN revision_builder' =
          CASE path = InRevision(<<"text">>) ->
                 Building([revision_builder[1] EXCEPT !.text = <<NormalText(<<>>)>>])
            [] path = InRevision(<<"minor">>) ->
                 Building([revision_builder[1] EXCEPT !.minor = TRUE])
            [] OTHER -> revision_builder
  /\ UNCHANGED <<siteVars, current_path, page, started_page, returned, status>>

\* What stands after the first colon, if there is one.
AfterColon(text) ==
  LET colons == {i \in DOMAIN text : text[i] = "colon"}
  IN IF colons = {} THEN text
     ELSE SubSeq(text, (CHOOSE i \in colons : \A j \in colons : i <= j) + 1, Len(text))

PageText ==
  /\ Reads("parse_page", "text")
  /\ Path \in {InPage(<<"title">>), InPage(<<"ns">>)}
  /\ page' = IF Path = InPage(<<"title">>)
             THEN [page EXCEPT !.title = NormalizeTitle(AfterColon(event.text))]
             ELSE [page EXCEPT !.namespace = IF event.text \in Numbers THEN event.text ELSE Zero]
  /\ UNCHANGED <<siteVars, current_path, started_page, revision_builder, returned, status>>

\* Mutant: only the innermost element is looked at.
FilledByInnermost(b, path, attr, text) ==
  CASE Last(path) = "id" -> [b EXCEPT !.id = IF text \in Numbers THEN <<text>> ELSE <<RandomId>>]
    [] Last(path) = "timestamp" -> [b EXCEPT !.timestamp = Present(text, Timestamps)]
    [] Last(path) \in {"username", "ip"} -> [b EXCEPT !.contributor_name = <<text>>]
    [] Last(path) = "text" -> [b EXCEPT !.text = <<NormalText(text)>>]
    [] OTHER -> b

\* The builder b after a text at the path of a revision's field.
Filled(b, path, attr, text) ==
  CASE path = InRevision(<<"id">>) ->
         [b EXCEPT !.id = IF text \in Numbers THEN <<text>> ELSE <<RandomId>>]
    [] path = InRevision(<<"timestamp">>) -> [b EXCEPT !.timestamp = Present(text, Timestamps)]
    [] path \in {InRevision(<<"contributor", "username">>), InRevision(<<"contributor", "ip">>)} ->
         [b EXCEPT !.contributor_name = <<text>>]
    [] path = InRevision(<<"contributor", "id">>) ->
         [b EXCEPT !.contributor_id = Present(text, Numbers)]
    [] path = InRevision(<<"text">>) ->
         [b EXCEPT !.text = IF attr = DeletedAttribute THEN <<DeletedText>> ELSE <<NormalText(text)>>]
    [] path = InRevision(<<"sha1">>) -> [b EXCEPT !.sha1 = IF text \in Hashes THEN <<text>> ELSE @]
    [] path = InRevision(<<"comment">>) -> [b EXCEPT !.comment = <<text>>]
    [] path = InRevision(<<"minor">>) -> [b EXCEPT !.minor = TRUE]
    [] OTHER -> b

OtherText ==
  /\ Reads("parse_page", "text")
  /\ Path \notin {InPage(<<"title">>), InPage(<<"ns">>)}
  /\ revision_builder' =
       IF current_path = <<>> THEN revision_builder
       ELSE Building(Filled(revision_builder[1], Path, Last(current_path).attr, event.text))
  /\ UNCHANGED <<siteVars, current_path, page, started_page, returned, status>>

\* try_build
Buildable(b) ==
  b.id # <<>> /\ b.timestamp # <<>> /\ b.contributor_name # <<>> /\ b.text # <<>>

Built(b) ==
  [id |-> b.id[1], timestamp |-> b.timestamp[1],
   contributor_name |-> b.contributor_name[1], contributor_id |-> b.contributor_id,
   text |-> b.text[1], sha1 |-> b.sha1, comment |-> b.comment, minor |-> b.minor]

MissesField == revision_builder # <<>> /\ ~Buildable(revision_builder[1])

\* An incomplete revision is left out, or an error with the feature "strict".
EndRevision ==
  /\ Reads("parse_page", "end")
  /\ Closes("revision")
  /\ current_path' = Closed
  /\ revision_builder' = <<>>
  /\ page' = IF revision_builder = <<>> \/ MissesField THEN page
             ELSE [page EXCEPT !.revisions = Append(@, Built(revision_builder[1]))]
  /\ status' = IF Strict /\ MissesField THEN "error" ELSE status
  /\ UNCHANGED <<siteVars, started_page, returned>>

EndPage ==
  /\ Reads("parse_page", "end")
  /\ Closes("page")
  /\ current_path' = Closed
  /\ returned' = Append(returned, page)
  /\ page' = NoPage /\ started_page' = FALSE /\ revision_builder' = <<>>
  /\ status' = IF source.single THEN "end" ELSE status
  /\ UNCHANGED siteVars

\* Mutant: the end of the stream is the end of the dump.
EofLenient ==
  /\ status = "reading" /\ stage = "parse_page"
  /\ pos = Len(source.events)
  /\ status' = "end"
  /\ UNCHANGED <<source, pos, siteVars, current_path, pageVars, returned>>

Eof ==
  /\ status = "reading" /\ stage = "parse_page"
  /\ pos = Len(source.events)
  /\ status' = IF started_page \/ (Strict /\ current_path # <<>>) \/ source.single
               THEN "error" ELSE "end"
  /\ UNCHANGED <<source, pos, siteVars, current_path, pageVars, returned>>

-----------------------------------------------------------------------------
Finished == status # "reading" /\ UNCHANGED vars

ParseSiteInfo ==
  \/ OpenInSite \/ EmptyInSite \/ TextInSite \/ EndSite \/ EofInSite
  \/ CloseOther("parse_site_info", {"siteinfo"})

ParsePage ==
  \/ Open \/ EmptyElement \/ PageText \/ OtherText \/ EndRevision \/ EndPage \/ Eof
  \/ CloseOther("parse_page", {"revision", "page"})

Either(f) == Panic(f) \/ Fail(f) \/ PassOver(f) \/ RejectEnd(f)

Next ==
  ParseSiteInfo \/ ParsePage \/ Either("parse_site_info") \/ Either("parse_page") \/ Finished

Spec == Init /\ [][Next]_vars
-----------------------------------------------------------------------------
(* Properties                                                              *)

Option(S) == {o \in Seq(S) : Len(o) <= 1}
TextType == [deleted : BOOLEAN, text : Text]

RevisionType ==
  [id : Text, timestamp : Timestamps, contributor_name : Text, contributor_id : Option(Numbers),
   text : TextType, sha1 : Option(Hashes), comment : Option(Text), minor : BOOLEAN]
BuilderType ==
  [id : Option(Text), timestamp : Option(Timestamps), contributor_name : Option(Text),
   contributor_id : Option(Numbers), text : Option(TextType), sha1 : Option(Hashes),
   comment : Option(Text), minor : BOOLEAN]
PageType == [title : Text, namespace : Numbers, revisions : Seq(RevisionType)]

\* Whatever the input, the numbers the parser returns are numbers, and every
\* revision it returns has its mandatory fields.
TypeOK ==
  /\ pos \in 0 .. Len(source.events)
  /\ stage \in {"parse_site_info", "parse_page"}
  /\ current_path \in Seq([name : Name, attr : Text])
  /\ site_info.dbname \in Text
  /\ DOMAIN site_info.namespaces \subseteq Numbers
  /\ \A key \in DOMAIN site_info.namespaces : site_info.namespaces[key] \in Text
  /\ page \in PageType
  /\ started_page \in BOOLEAN
  /\ revision_builder \in Option(BuilderType)
  /\ returned \in Seq(PageType)
  /\ status \in {"reading", "end", "error", "panicked"}

\* The elements that are open after n events.
OpenElements ==
  LET open[n \in 0 .. pos] ==
        IF n = 0 THEN IF source.single THEN <<"mediawiki">> ELSE <<>>
        ELSE CASE source.events[n].kind = "start" -> Append(open[n - 1], source.events[n].name)
               [] source.events[n].kind = "end" -> Front(open[n - 1])
               [] OTHER -> open[n - 1]
  IN open[pos]

(***************************************************************************)
(* The path says where in the document the parser is, from the first event *)
(* to the last, also after empty elements, elements it does not know, and  *)
(* end tags that are misspelled.                                           *)
(***************************************************************************)
PathIsOpen == status = "reading" => Path = OpenElements

(***************************************************************************)
(* When new returns, the site info is that of the dump, without the        *)
(* namespaces whose key is missing or no number.                           *)
(***************************************************************************)
SiteInfoRead == stage = "parse_page" => site_info = source.site

(***************************************************************************)
(* parse_page is a page source: it returns the pages of the dump in order, *)
(* each complete and with the fields of its own revisions only, and ends   *)
(* as the stream ends; a page that is cut off is an error, never a page.   *)
(***************************************************************************)
Source == INSTANCE PageSource WITH
  status <- IF status = "panicked" THEN "error" ELSE status

ImplementsPageSource == Source!SourceSpec

(***************************************************************************)
(* README, Features: strict makes the parser abort on malformed input      *)
(* instead of recovering.                                                  *)
(***************************************************************************)
StrictAborts == Strict /\ ~source.sound => status # "end"

-----------------------------------------------------------------------------
(* Claims of the documentation.                                            *)

(***************************************************************************)
(* Documentation of parse_page: Ok(Some(page)) is a complete page.         *)
(***************************************************************************)
TextsWhole ==
  \A n \in DOMAIN returned : \A m \in DOMAIN returned[n].revisions :
    returned[n].revisions[m].text.text = source.pages[n].revisions[m].text.text

(***************************************************************************)
(* The comment of Tag::Text: a text element with the attribute deleted, as *)
(* MediaWiki writes it, is a deleted text.                                 *)
(***************************************************************************)
DeletedTextsMarked ==
  \A n \in DOMAIN returned : \A m \in DOMAIN returned[n].revisions :
    source.pages[n].revisions[m].text.deleted => returned[n].revisions[m].text.deleted

(***************************************************************************)
(* The comment of the title: the namespace is split off.                   *)
(***************************************************************************)
OnlyNamespaceSplitOff ==
  \A n \in DOMAIN returned : returned[n].title = source.pages[n].title
=============================================================================
