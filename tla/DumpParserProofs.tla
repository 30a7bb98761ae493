--------------------------- MODULE DumpParserProofs ---------------------------
(***************************************************************************)
(* Proofs about DumpParser for every stream of events, well-formed or not, *)
(* and with and without the feature "strict": what the parser returns has  *)
(* the right types, its path says where in the document it is, "strict"    *)
(* comes to a clean end only where nothing is wrong, the site info that    *)
(* new returns is that of the dump, and the pages parse_page returns are   *)
(* those the events tell of.                                               *)
(***************************************************************************)
EXTENDS DumpHistory, SequenceTheorems, WellFoundedInduction, TLAPS

-----------------------------------------------------------------------------
(* Sequences and options                                                   *)

\* Smallest numbers exist because < is well founded.
LEMMA Smallest ==
  ASSUME NEW S \in SUBSET Nat, S # {}
  PROVE  \E x \in S : \A y \in S : x <= y
<1>1. \E x \in S : \A y \in S : ~(<<y, x>> \in OpToRel(<, Nat))
  <2>1. S \subseteq Nat
    OBVIOUS
  <2> QED
    BY <2>1, NatLessThanWellFounded, WFMin, Zenon
<1>2. PICK x \in S : \A y \in S : ~(<<y, x>> \in OpToRel(<, Nat))
  BY <1>1
<1>3. ASSUME NEW y \in S
      PROVE  x <= y
  <2>1. x \in Nat /\ y \in Nat
    OBVIOUS
  <2>2. ~(y < x)
    BY <1>2, <2>1, Zenon DEF OpToRel
  <2> QED
    BY <2>1, <2>2
<1> QED
  BY <1>3

\* The innermost element is taken off.
LEMMA FrontIn ==
  ASSUME NEW S, NEW s \in Seq(S)
  PROVE  /\ Front(s) \in Seq(S)
         /\ s # <<>> => /\ DOMAIN Front(s) = 1 .. Len(s) - 1
                        /\ \A i \in 1 .. Len(s) - 1 : Front(s)[i] = s[i]
<1>1. Len(s) \in Nat /\ \A i \in 1 .. Len(s) : s[i] \in S
  BY LenProperties
<1>2. \A i \in 1 .. Len(s) - 1 : s[i] \in S
  BY <1>1
<1>3. /\ Front(s) \in Seq(S)
      /\ Len(Front(s)) = IF 1 <= Len(s) - 1 THEN Len(s) - 1 - 1 + 1 ELSE 0
      /\ \A i \in 1 .. Len(s) - 1 - 1 + 1 : Front(s)[i] = s[1 + i - 1]
  BY <1>1, <1>2, SubSeqProperties DEF Front
<1>4. ASSUME s # <<>>
      PROVE  /\ DOMAIN Front(s) = 1 .. Len(s) - 1
             /\ \A i \in 1 .. Len(s) - 1 : Front(s)[i] = s[i]
  <2>1. Len(s) \in Nat \ {0}
    BY <1>4, EmptySeq, Zenon
  <2>2. Len(Front(s)) = Len(s) - 1
    <3>1. \A n \in Nat \ {0} : (IF 1 <= n - 1 THEN n - 1 - 1 + 1 ELSE 0) = n - 1
      OBVIOUS
    <3> QED
      BY <1>3, <2>1, <3>1, Zenon
  <2>3. DOMAIN Front(s) = 1 .. Len(Front(s))
    BY <1>3, LenProperties
  <2>4. \A i \in 1 .. Len(s) - 1 : i \in 1 .. Len(s) - 1 - 1 + 1 /\ 1 + i - 1 = i
    BY <1>1
  <2> QED
    BY <1>3, <2>2, <2>3, <2>4
<1> QED
  BY <1>3, <1>4

LEMMA Options ==
  ASSUME NEW S
  PROVE  /\ <<>> \in Option(S)
         /\ \A e \in S : <<e>> \in Option(S)
         /\ \A o \in Option(S) : o # <<>> => o[1] \in S
<1>1. <<>> \in Option(S)
  BY DEF Option
<1>2. ASSUME NEW e \in S PROVE <<e>> \in Option(S)
  BY DEF Option
<1>3. ASSUME NEW o \in Option(S), o # <<>> PROVE o[1] \in S
  <2>1. o \in Seq(S) /\ Len(o) \in Nat /\ Len(o) # 0
    BY <1>3, LenProperties, EmptySeq DEF Option
  <2> QED
    BY <2>1
<1> QED
  BY <1>1, <1>2, <1>3

LEMMA PresentIn ==
  ASSUME NEW S, NEW text
  PROVE  Present(text, S) \in Option(S)
BY Options DEF Present

-----------------------------------------------------------------------------
(* Texts                                                                   *)

LEMMA NormalizedIn ==
  ASSUME NEW text \in Text
  PROVE  NormalizeTitle(text) \in Text
<1>1. Len(text) \in Nat /\ DOMAIN text = 1 .. Len(text) /\ \A i \in DOMAIN text : text[i] \in Symbol
  BY LenProperties DEF Text
<1>2. "space" \in Symbol
  BY TextAssumption
<1>3. NormalizeTitle(text) \in [1 .. Len(text) -> Symbol]
  BY <1>1, <1>2 DEF NormalizeTitle
<1> QED
  BY <1>1, <1>3, IsASeq DEF Text

\* Wherever the colon is, what stands after it is a text.
LEMMA AfterColonIn ==
  ASSUME NEW text \in Text
  PROVE  AfterColon(text) \in Text
<1> DEFINE colons == {i \in DOMAIN text : text[i] = "colon"}
           first == CHOOSE i \in colons : \A j \in colons : i <= j
<1>1. Len(text) \in Nat /\ DOMAIN text = 1 .. Len(text) /\ \A i \in 1 .. Len(text) : text[i] \in Symbol
  BY LenProperties DEF Text
<1>2. CASE colons = {}
  BY <1>2 DEF AfterColon
<1>3. CASE colons # {}
  <2>1. colons \in SUBSET Nat
    BY <1>1
  <2>2. first \in colons
    <3> HIDE DEF colons
    <3> QED
      BY <1>3, <2>1, Smallest
  <2>3. first + 1 \in Int /\ \A i \in first + 1 .. Len(text) : text[i] \in Symbol
    <3>1. first \in 1 .. Len(text)
      BY <1>1, <2>2
    <3> HIDE DEF first
    <3> QED
      BY <1>1, <3>1
  <2>4. AfterColon(text) = SubSeq(text, first + 1, Len(text))
    BY <1>3 DEF AfterColon
  <2> HIDE DEF first
  <2> QED
    BY <1>1, <2>3, <2>4, SubSeqProperties DEF Text
<1> QED
  BY <1>2, <1>3


-----------------------------------------------------------------------------
(* Revisions and pages                                                     *)

LEMMA TextsAre ==
  /\ <<>> \in Text /\ Zero \in Text /\ RandomId \in Text /\ <<"ignored">> \in Text
  /\ Numbers \subseteq Text /\ Timestamps \subseteq Text /\ Hashes \subseteq Text
  /\ Zero \in Numbers /\ DeletedText \in TextType
  /\ \A text \in Text : NormalText(text) \in TextType
<1>1. <<>> \in Text /\ <<"ignored">> \in Text
  BY StreamAssumption DEF Text
<1>2. DeletedText \in TextType /\ \A text \in Text : NormalText(text) \in TextType
  BY <1>1 DEF DeletedText, NormalText, TextType
<1> QED
  BY <1>1, <1>2, TextAssumption

LEMMA Fresh == NewBuilder \in BuilderType /\ NoPage \in PageType
<1>1. NewBuilder \in BuilderType
  BY Options DEF NewBuilder, BuilderType
<1>2. <<>> \in Seq(RevisionType)
  BY EmptySeq
<1>3. NoPage \in PageType
  BY <1>2, TextsAre DEF NoPage, PageType
<1> QED
  BY <1>1, <1>3

\* A field holds what its type admits, whatever the text says.
LEMMA FilledIn ==
  ASSUME NEW b \in BuilderType, NEW path, NEW attr, NEW text \in Text
  PROVE  Filled(b, path, attr, text) \in BuilderType
<1>1. /\ <<text>> \in Option(Text) /\ <<RandomId>> \in Option(Text)
      /\ <<DeletedText>> \in Option(TextType) /\ <<NormalText(text)>> \in Option(TextType)
  BY TextsAre, Options
<1>2. Present(text, Timestamps) \in Option(Timestamps) /\ Present(text, Numbers) \in Option(Numbers)
  BY PresentIn
<1>3. text \in Hashes => <<text>> \in Option(Hashes)
  BY Options
<1>4. /\ [b EXCEPT !.id = IF text \in Numbers THEN <<text>> ELSE <<RandomId>>] \in BuilderType
      /\ [b EXCEPT !.timestamp = Present(text, Timestamps)] \in BuilderType
      /\ [b EXCEPT !.contributor_name = <<text>>] \in BuilderType
      /\ [b EXCEPT !.contributor_id = Present(text, Numbers)] \in BuilderType
  BY <1>1, <1>2 DEF BuilderType
<1>5. [b EXCEPT !.text = IF attr = DeletedAttribute THEN <<DeletedText>> ELSE <<NormalText(text)>>]
        \in BuilderType
  BY <1>1 DEF BuilderType
<1>6. [b EXCEPT !.sha1 = IF text \in Hashes THEN <<text>> ELSE @] \in BuilderType
  BY <1>3 DEF BuilderType
<1>7. [b EXCEPT !.comment = <<text>>] \in BuilderType /\ [b EXCEPT !.minor = TRUE] \in BuilderType
  BY <1>1 DEF BuilderType
<1> QED
  BY <1>4, <1>5, <1>6, <1>7 DEF Filled

\* A revision that is returned has its mandatory fields.
LEMMA BuiltIn ==
  ASSUME NEW b \in BuilderType, Buildable(b)
  PROVE  Built(b) \in RevisionType
<1>1. /\ b.id \in Option(Text) /\ b.timestamp \in Option(Timestamps)
      /\ b.contributor_name \in Option(Text) /\ b.text \in Option(TextType)
      /\ b.contributor_id \in Option(Numbers) /\ b.sha1 \in Option(Hashes)
      /\ b.comment \in Option(Text) /\ b.minor \in BOOLEAN
  BY DEF BuilderType
<1>2. b.id # <<>> /\ b.timestamp # <<>> /\ b.contributor_name # <<>> /\ b.text # <<>>
  BY DEF Buildable
<1>3. /\ b.id[1] \in Text /\ b.timestamp[1] \in Timestamps
      /\ b.contributor_name[1] \in Text /\ b.text[1] \in TextType
  BY <1>1, <1>2, Options
<1> QED
  BY <1>1, <1>3 DEF Built, RevisionType

-----------------------------------------------------------------------------
(* Types                                                                   *)

SiteType ==
  /\ site_info = [dbname |-> site_info.dbname, namespaces |-> site_info.namespaces]
  /\ site_info.dbname \in Text
  /\ DOMAIN site_info.namespaces \subseteq Numbers
  /\ \A key \in DOMAIN site_info.namespaces : site_info.namespaces[key] \in Text

PathType == current_path \in Seq([name : Name, attr : Text])

PageStateType ==
  /\ page \in PageType
  /\ started_page \in BOOLEAN
  /\ revision_builder \in Option(BuilderType)

\* An input is read from the first event on, to the last one at most.
AtEvent ==
  /\ source \in Streams
  /\ pos \in 0 .. Len(source.events)

ReturnType == returned \in Seq(PageType)
StageType == stage \in {"parse_site_info", "parse_page"}
StatusType == status \in {"reading", "end", "error", "panicked"}

IInv == AtEvent /\ StageType /\ PathType /\ SiteType /\ PageStateType /\ ReturnType /\ StatusType

LEMMA TypesSuffice == IInv => TypeOK
BY DEF IInv, AtEvent, StageType, PathType, SiteType, PageStateType, ReturnType, StatusType, TypeOK

LEMMA InitTypes == Init => IInv
<1> SUFFICES ASSUME Init PROVE IInv
  OBVIOUS
<1>1. AtEvent
  <2>1. source \in Streams /\ source.events \in Seq(EventType) /\ pos = 0
    BY StreamAssumption DEF Init
  <2>2. Len(source.events) \in Nat
    BY <2>1, LenProperties
  <2> QED
    BY <2>1, <2>2 DEF AtEvent
<1>2. PathType
  <2>1. MediaWikiTag \in [name : Name, attr : Text]
    <3>1. NoAttribute \in Text
      BY TextsAre DEF NoAttribute
    <3>2. "mediawiki" \in Name
      BY StreamAssumption
    <3> QED
      BY <3>1, <3>2 DEF MediaWikiTag
  <2>2. <<>> \in Seq([name : Name, attr : Text]) /\ <<MediaWikiTag>> \in Seq([name : Name, attr : Text])
    BY <2>1, EmptySeq
  <2> QED
    BY <2>2 DEF Init, PathType
<1>3. SiteType
  BY TextsAre DEF Init, SiteType
<1>4. PageStateType
  BY Fresh, Options DEF Init, PageStateType
<1>5. ReturnType
  BY EmptySeq DEF Init, ReturnType
<1>6. StageType /\ StatusType
  BY DEF Init, StageType, StatusType
<1> QED
  BY <1>1, <1>2, <1>3, <1>4, <1>5, <1>6 DEF IInv

\* The event a step reads is one of the stream.
LEMMA ReadsEvent ==
  ASSUME IInv, NEW f, NEW kind, Reads(f, kind)
  PROVE  /\ AtEvent'
         /\ pos \in Nat /\ pos' = pos + 1 /\ pos' \in DOMAIN source.events /\ source' = source
         /\ event \in EventType
         /\ event.name \in Name /\ event.attr \in Text /\ event.text \in Text
         /\ Tag \in [name : Name, attr : Text]
<1>1. /\ source \in Streams /\ source.events \in Seq(EventType)
      /\ pos \in 0 .. Len(source.events) /\ pos < Len(source.events) /\ pos' = pos + 1
      /\ source' = source
  BY StreamAssumption DEF IInv, AtEvent, Reads
<1>2. /\ Len(source.events) \in Nat /\ DOMAIN source.events = 1 .. Len(source.events)
      /\ source.events \in [1 .. Len(source.events) -> EventType]
  BY <1>1, LenProperties
<1>3. pos \in Nat /\ pos' \in 1 .. Len(source.events) /\ pos' \in 0 .. Len(source.events)
  BY <1>1, <1>2
<1>4. event \in EventType
  BY <1>2, <1>3 DEF event
<1>5. event.name \in Name /\ event.attr \in Text /\ event.text \in Text
  BY <1>4 DEF EventType
<1>6. Tag \in [name : Name, attr : Text]
  BY <1>5, TextsAre DEF Tag
<1> QED
  BY <1>1, <1>2, <1>3, <1>4, <1>5, <1>6 DEF AtEvent


\* The path after an end tag.
LEMMA ClosedIn ==
  ASSUME PathType
  PROVE  /\ Closed \in Seq([name : Name, attr : Text])
         /\ (IF current_path = <<>> THEN <<>> ELSE Closed) \in Seq([name : Name, attr : Text])
BY FrontIn, EmptySeq DEF PathType, Closed

LEMMA AppendedIn ==
  ASSUME PathType, Tag \in [name : Name, attr : Text]
  PROVE  Append(current_path, Tag) \in Seq([name : Name, attr : Text])
BY AppendProperties DEF PathType

\* The name of the database is noted.
LEMMA WithNameIn ==
  ASSUME SiteType, NEW text \in Text, site_info' = [site_info EXCEPT !.dbname = text]
  PROVE  SiteType'
<1>1. site_info = [dbname |-> site_info.dbname, namespaces |-> site_info.namespaces]
  BY DEF SiteType
<1>2. \A s, d, n : s = [dbname |-> d, namespaces |-> n] =>
        [s EXCEPT !.dbname = text] = [dbname |-> text, namespaces |-> n]
  OBVIOUS
<1>3. site_info' = [dbname |-> text, namespaces |-> site_info.namespaces]
  BY <1>1, <1>2
<1>4. site_info'.dbname = text /\ site_info'.namespaces = site_info.namespaces
  BY <1>3
<1> QED
  BY <1>3, <1>4 DEF SiteType

\* A namespace is entered under its number.
LEMMA WithNamespaceIn ==
  ASSUME SiteType, NEW key \in Numbers, NEW name \in Text, site_info' = WithNamespace(key, name)
  PROVE  SiteType'
<1>1. site_info' = [dbname |-> site_info.dbname,
                    namespaces |-> [k \in DOMAIN site_info.namespaces \cup {key} |->
                                      IF k = key THEN name ELSE site_info.namespaces[k]]]
  BY DEF SiteType, WithNamespace
<1>2. /\ site_info'.dbname = site_info.dbname
      /\ site_info'.namespaces = [k \in DOMAIN site_info.namespaces \cup {key} |->
                                    IF k = key THEN name ELSE site_info.namespaces[k]]
  BY <1>1
<1>3. site_info' = [dbname |-> site_info'.dbname, namespaces |-> site_info'.namespaces]
  BY <1>1, <1>2
<1>4. DOMAIN site_info'.namespaces = DOMAIN site_info.namespaces \cup {key}
  BY <1>2
<1>5. \A k \in DOMAIN site_info'.namespaces : site_info'.namespaces[k] \in Text
  BY <1>2, <1>4 DEF SiteType
<1> QED
  BY <1>2, <1>3, <1>4, <1>5 DEF SiteType

\* What stays as it is keeps its type.
LEMMA TypesKept ==
  ASSUME IInv
  PROVE  /\ UNCHANGED <<source, pos>> => AtEvent'
         /\ UNCHANGED stage => StageType'
         /\ UNCHANGED current_path => PathType'
         /\ UNCHANGED site_info => SiteType'
         /\ UNCHANGED pageVars => PageStateType'
         /\ UNCHANGED returned => ReturnType'
         /\ UNCHANGED status => StatusType'
BY DEF IInv, AtEvent, StageType, PathType, SiteType, pageVars, PageStateType, ReturnType, StatusType

LEMMA SiteStep == IInv /\ ParseSiteInfo => IInv'
<1> SUFFICES ASSUME IInv, ParseSiteInfo PROVE IInv'
  OBVIOUS
<1> USE DEF siteVars
<1>1. PathType /\ SiteType
  BY DEF IInv
<1>2. CASE OpenInSite
  <2>1. AtEvent' /\ Tag \in [name : Name, attr : Text]
    BY <1>2, ReadsEvent DEF OpenInSite
  <2>2. PathType'
    BY <1>1, <1>2, <2>1, AppendedIn DEF OpenInSite, PathType
  <2> QED
    BY <1>2, <2>1, <2>2, TypesKept DEF OpenInSite, IInv
<1>3. CASE EmptyInSite
  <2>1. AtEvent' /\ Tag \in [name : Name, attr : Text]
    BY <1>3, ReadsEvent DEF EmptyInSite
  <2>2. /\ \/ UNCHANGED site_info
           \/ Tag.attr \in Numbers /\ site_info' = WithNamespace(Tag.attr, <<>>)
        /\ \/ UNCHANGED current_path
           \/ current_path' = Append(current_path, Tag)
    BY <1>3 DEF EmptyInSite
  <2>3. SiteType'
    BY <1>1, <2>2, TextsAre, WithNamespaceIn, TypesKept
  <2>4. PathType'
    BY <1>1, <2>1, <2>2, AppendedIn DEF PathType
  <2> QED
    BY <1>3, <2>1, <2>3, <2>4, TypesKept DEF EmptyInSite, IInv
<1>4. CASE TextInSite
  <2>1. AtEvent' /\ event.text \in Text
    BY <1>4, ReadsEvent DEF TextInSite
  <2>2. \/ UNCHANGED site_info
        \/ site_info' = [site_info EXCEPT !.dbname = event.text]
        \/ /\ Last(current_path).attr \in Numbers
           /\ site_info' = WithNamespace(Last(current_path).attr, event.text)
    BY <1>4 DEF TextInSite
  <2>3. ASSUME site_info' = [site_info EXCEPT !.dbname = event.text]
        PROVE  SiteType'
    BY <1>1, <2>1, <2>3, WithNameIn
  <2>4. SiteType'
    BY <1>1, <2>1, <2>2, <2>3, WithNamespaceIn, TypesKept
  <2> QED
    BY <1>4, <2>1, <2>4, TypesKept DEF TextInSite, IInv
<1>5. CASE EndSite
  <2>1. AtEvent' /\ PathType'
    BY <1>1, <1>5, ReadsEvent, ClosedIn DEF EndSite, PathType
  <2> QED
    BY <1>5, <2>1, TypesKept DEF EndSite, IInv, StageType
<1>6. CASE EofInSite
  BY <1>6, TypesKept DEF EofInSite, IInv, StatusType
<1>7. CASE CloseOther("parse_site_info", {"siteinfo"})
  <2>1. AtEvent' /\ PathType'
    BY <1>1, <1>7, ReadsEvent, ClosedIn DEF CloseOther, PathType
  <2> QED
    BY <1>7, <2>1, TypesKept DEF CloseOther, IInv
<1> QED
  BY <1>2, <1>3, <1>4, <1>5, <1>6, <1>7 DEF ParseSiteInfo

\* The builder after a field of its revision.
LEMMA BuildingIn ==
  ASSUME PageStateType, NEW builder,
         revision_builder # <<>> => builder \in BuilderType
  PROVE  Building(builder) \in Option(BuilderType)
BY Options DEF Building

LEMMA PageStep == IInv /\ ParsePage => IInv'
<1> SUFFICES ASSUME IInv, ParsePage PROVE IInv'
  OBVIOUS
<1> USE DEF siteVars
<1>1. /\ PathType /\ page \in PageType /\ started_page \in BOOLEAN
      /\ revision_builder \in Option(BuilderType) /\ returned \in Seq(PageType)
      /\ revision_builder # <<>> => revision_builder[1] \in BuilderType
  BY Options DEF IInv, PageStateType, ReturnType
<1>2. CASE Open
  <2>1. AtEvent' /\ Tag \in [name : Name, attr : Text]
    BY <1>2, ReadsEvent DEF Open
  <2>2. PathType'
    BY <1>1, <1>2, <2>1, AppendedIn DEF Open, PathType
  <2>3. <<NewBuilder>> \in Option(BuilderType)
    BY Fresh, Options
  <2>4. PageStateType'
    BY <1>1, <1>2, <2>3 DEF Open, PageStateType
  <2> QED
    BY <1>2, <2>1, <2>2, <2>4, TypesKept DEF Open, IInv
<1>3. CASE EmptyElement
  <2>1. AtEvent'
    BY <1>3, ReadsEvent DEF EmptyElement
  <2>2. \/ UNCHANGED revision_builder
        \/ revision_builder' = Building([revision_builder[1] EXCEPT !.text = <<NormalText(<<>>)>>])
        \/ revision_builder' = Building([revision_builder[1] EXCEPT !.minor = TRUE])
    BY <1>3 DEF EmptyElement
  <2>3. <<NormalText(<<>>)>> \in Option(TextType)
    BY TextsAre, Options
  <2>4. revision_builder # <<>> =>
          /\ [revision_builder[1] EXCEPT !.text = <<NormalText(<<>>)>>] \in BuilderType
          /\ [revision_builder[1] EXCEPT !.minor = TRUE] \in BuilderType
    BY <1>1, <2>3 DEF BuilderType
  <2>5. revision_builder' \in Option(BuilderType)
    BY <1>1, <2>2, <2>4, BuildingIn DEF PageStateType
  <2>6. PageStateType'
    BY <1>1, <1>3, <2>5 DEF EmptyElement, PageStateType
  <2> QED
    BY <1>3, <2>1, <2>6, TypesKept DEF EmptyElement, IInv
<1>4. CASE PageText
  <2>1. AtEvent' /\ event.text \in Text
    BY <1>4, ReadsEvent DEF PageText
  <2>2. NormalizeTitle(AfterColon(event.text)) \in Text
    BY <2>1, NormalizedIn, AfterColonIn
  <2>3. (IF event.text \in Numbers THEN event.text ELSE Zero) \in Numbers
    BY TextsAre
  <2>4. page' \in PageType
    BY <1>1, <1>4, <2>2, <2>3 DEF PageText, PageType
  <2>5. PageStateType'
    BY <1>1, <1>4, <2>4 DEF PageText, PageStateType
  <2> QED
    BY <1>4, <2>1, <2>5, TypesKept DEF PageText, IInv
<1>5. CASE OtherText
  <2>1. AtEvent' /\ event.text \in Text
    BY <1>5, ReadsEvent DEF OtherText
  <2>2. revision_builder # <<>> =>
          Filled(revision_builder[1], Path, Last(current_path).attr, event.text) \in BuilderType
    BY <1>1, <2>1, FilledIn
  <2>3. revision_builder' \in Option(BuilderType)
    BY <1>1, <1>5, <2>2, BuildingIn DEF OtherText, PageStateType
  <2>4. PageStateType'
    BY <1>1, <1>5, <2>3 DEF OtherText, PageStateType
  <2> QED
    BY <1>5, <2>1, <2>4, TypesKept DEF OtherText, IInv
<1>6. CASE EndRevision
  <2>1. AtEvent' /\ PathType'
    BY <1>1, <1>6, ReadsEvent, ClosedIn DEF EndRevision, PathType
  <2>2. page' \in PageType
    <3>1. CASE revision_builder = <<>> \/ MissesField
      BY <1>1, <1>6, <3>1 DEF EndRevision
    <3>2. CASE ~(revision_builder = <<>> \/ MissesField)
      <4>1. Built(revision_builder[1]) \in RevisionType
        BY <1>1, <3>2, BuiltIn DEF MissesField
      <4>2. page.revisions \in Seq(RevisionType)
        BY <1>1 DEF PageType
      <4>3. Append(page.revisions, Built(revision_builder[1])) \in Seq(RevisionType)
        BY <4>1, <4>2, AppendProperties
      <4>4. page' = [page EXCEPT !.revisions = Append(@, Built(revision_builder[1]))]
        BY <1>6, <3>2 DEF EndRevision
      <4> QED
        BY <1>1, <4>3, <4>4 DEF PageType
    <3> QED
      BY <3>1, <3>2
  <2>3. PageStateType' /\ StatusType'
    BY <1>1, <1>6, <2>2, Options DEF EndRevision, PageStateType, IInv, StatusType
  <2> QED
    BY <1>6, <2>1, <2>3, TypesKept DEF EndRevision, IInv
<1>7. CASE EndPage
  <2>1. AtEvent' /\ PathType'
    BY <1>1, <1>7, ReadsEvent, ClosedIn DEF EndPage, PathType
  <2>2. ReturnType'
    BY <1>1, <1>7, AppendProperties DEF EndPage, ReturnType
  <2>3. PageStateType' /\ StatusType'
    BY <1>7, Fresh, Options DEF EndPage, PageStateType, IInv, StatusType
  <2> QED
    BY <1>7, <2>1, <2>2, <2>3, TypesKept DEF EndPage, IInv
<1>8. CASE Eof
  BY <1>8, TypesKept DEF Eof, IInv, StatusType
<1>9. CASE CloseOther("parse_page", {"revision", "page"})
  <2>1. AtEvent' /\ PathType'
    BY <1>1, <1>9, ReadsEvent, ClosedIn DEF CloseOther, PathType
  <2> QED
    BY <1>9, <2>1, TypesKept DEF CloseOther, IInv
<1> QED
  BY <1>2, <1>3, <1>4, <1>5, <1>6, <1>7, <1>8, <1>9 DEF ParsePage

LEMMA EitherStep ==
  ASSUME IInv, NEW f, Either(f)
  PROVE  IInv'
<1> USE DEF siteVars
<1>1. PathType
  BY DEF IInv
<1>2. AtEvent'
  BY ReadsEvent DEF Either, Panic, Fail, PassOver, RejectEnd
<1>3. PathType'
  BY <1>1, TypesKept, ClosedIn DEF Either, Panic, Fail, PassOver, RejectEnd, PathType
<1>4. StatusType'
  BY DEF Either, Panic, Fail, PassOver, RejectEnd, IInv, StatusType
<1> QED
  BY <1>2, <1>3, <1>4, TypesKept DEF Either, Panic, Fail, PassOver, RejectEnd, IInv

LEMMA TypeStep == IInv /\ [Next]_vars => IInv'
<1> SUFFICES ASSUME IInv, [Next]_vars PROVE IInv'
  OBVIOUS
<1>1. CASE UNCHANGED vars
  BY <1>1, TypesKept DEF vars, siteVars, pageVars, IInv
<1> QED
  BY <1>1, SiteStep, PageStep, EitherStep DEF Next, Finished

LEMMA TypesHold == Spec => []IInv
BY InitTypes, TypeStep, PTL DEF Spec

(***************************************************************************)
(* Whatever the events of the stream, in whatever order, the numbers the   *)
(* parser returns are numbers, and every revision of a page it returns has *)
(* its id, timestamp, contributor and text.                                *)
(***************************************************************************)
THEOREM ParserTypeCorrect == Spec => []TypeOK
BY TypesHold, TypesSuffice, PTL


-----------------------------------------------------------------------------
(* The path                                                                *)

\* The open elements after an event.
Deeper(path, e) ==
  CASE e.kind = "start" -> Append(path, e.name)
    [] e.kind = "end" -> Front(path)
    [] OTHER -> path

\* f holds the open elements after each of the first n events.
Opens(f, n) ==
  f = [m \in 0 .. n |->
         IF m = 0 THEN IF source.single THEN <<"mediawiki">> ELSE <<>>
         ELSE CASE source.events[m].kind = "start" -> Append(f[m - 1], source.events[m].name)
                [] source.events[m].kind = "end" -> Front(f[m - 1])
                [] OTHER -> f[m - 1]]

LEMMA OpensAt ==
  ASSUME NEW f, NEW n \in Nat
  PROVE  Opens(f, n) <=>
           /\ f = [m \in 0 .. n |-> f[m]]
           /\ f[0] = (IF source.single THEN <<"mediawiki">> ELSE <<>>)
           /\ \A m \in 1 .. n : f[m] = Deeper(f[m - 1], source.events[m])
<1>1. 0 \in 0 .. n /\ \A m \in 0 .. n : m # 0 <=> m \in 1 .. n
  OBVIOUS
<1>2. ASSUME Opens(f, n)
      PROVE  /\ f = [m \in 0 .. n |-> f[m]]
             /\ f[0] = (IF source.single THEN <<"mediawiki">> ELSE <<>>)
             /\ \A m \in 1 .. n : f[m] = Deeper(f[m - 1], source.events[m])
  <2>1. f = [m \in 0 .. n |-> f[m]]
    BY <1>2 DEF Opens
  <2>2. f[0] = (IF source.single THEN <<"mediawiki">> ELSE <<>>)
    BY <1>1, <1>2 DEF Opens
  <2>3. \A m \in 1 .. n : f[m] = Deeper(f[m - 1], source.events[m])
    <3>1. \A m \in 0 .. n :
            f[m] = IF m = 0 THEN IF source.single THEN <<"mediawiki">> ELSE <<>>
                   ELSE CASE source.events[m].kind = "start" -> Append(f[m - 1], source.events[m].name)
                          [] source.events[m].kind = "end" -> Front(f[m - 1])
                          [] OTHER -> f[m - 1]
      BY <1>2, Zenon DEF Opens
    <3> QED
      BY <1>1, <3>1 DEF Deeper
  <2> QED
    BY <2>1, <2>2, <2>3
<1>3. ASSUME f = [m \in 0 .. n |-> f[m]],
             f[0] = (IF source.single THEN <<"mediawiki">> ELSE <<>>),
             \A m \in 1 .. n : f[m] = Deeper(f[m - 1], source.events[m])
      PROVE  Opens(f, n)
  <2> DEFINE g == [m \in 0 .. n |->
                     IF m = 0 THEN IF source.single THEN <<"mediawiki">> ELSE <<>>
                     ELSE CASE source.events[m].kind = "start" -> Append(f[m - 1], source.events[m].name)
                            [] source.events[m].kind = "end" -> Front(f[m - 1])
                            [] OTHER -> f[m - 1]]
  <2>1. ASSUME NEW m \in 0 .. n PROVE f[m] = g[m]
    BY <1>1, <1>3, <2>1 DEF Deeper
  <2>2. f = g
    <3>1. g = [m \in 0 .. n |-> g[m]]
      OBVIOUS
    <3> HIDE DEF g
    <3>2. [m \in 0 .. n |-> f[m]] = [m \in 0 .. n |-> g[m]]
      BY <2>1
    <3> QED
      BY <1>3, <3>1, <3>2
  <2> QED
    BY <2>2 DEF Opens
<1> QED
  BY <1>2, <1>3

\* What is open after n + 1 events follows from what is open after n.
LEMMA OpensBefore ==
  ASSUME NEW f, NEW n \in Nat, Opens(f, n + 1)
  PROVE  /\ Opens([m \in 0 .. n |-> f[m]], n)
         /\ f[n + 1] = Deeper(f[n], source.events[n + 1])
<1> DEFINE g == [m \in 0 .. n |-> f[m]]
<1>1. /\ f[0] = (IF source.single THEN <<"mediawiki">> ELSE <<>>)
      /\ \A m \in 1 .. n + 1 : f[m] = Deeper(f[m - 1], source.events[m])
  BY OpensAt
<1>2. /\ n + 1 \in 1 .. n + 1 /\ (n + 1) - 1 = n /\ 0 \in 0 .. n
      /\ \A m \in 1 .. n : m \in 1 .. n + 1 /\ m - 1 \in 0 .. n /\ m \in 0 .. n
  OBVIOUS
<1>3. \A m \in 0 .. n : g[m] = f[m]
  OBVIOUS
<1>4. g = [m \in 0 .. n |-> g[m]]
  OBVIOUS
<1> HIDE DEF g
<1>5. g[0] = (IF source.single THEN <<"mediawiki">> ELSE <<>>)
  BY <1>1, <1>2, <1>3
<1>6. \A m \in 1 .. n : g[m] = Deeper(g[m - 1], source.events[m])
  BY <1>1, <1>2, <1>3
<1>7. Opens(g, n)
  BY <1>4, <1>5, <1>6, OpensAt
<1>8. f[n + 1] = Deeper(f[n], source.events[n + 1])
  BY <1>1, <1>2
<1> QED
  BY <1>7, <1>8 DEF g

\* The recursion is well founded: there is such a function for every n.
LEMMA OpensExists ==
  ASSUME NEW n \in Nat
  PROVE  \E f : Opens(f, n)
<1> DEFINE missing == {k \in Nat : ~ \E f : Opens(f, k)}
<1> SUFFICES ASSUME missing # {} PROVE FALSE
  OBVIOUS
<1>1. PICK k \in missing : \A l \in missing : k <= l
  <2>1. missing \in SUBSET Nat
    OBVIOUS
  <2> HIDE DEF missing
  <2> QED
    BY <2>1, Smallest
<1>2. k \in Nat /\ ~ \E f : Opens(f, k)
  BY <1>1
<1>3. CASE k = 0
  <2> DEFINE f == [m \in 0 .. 0 |-> IF source.single THEN <<"mediawiki">> ELSE <<>>]
  <2>1. f = [m \in 0 .. 0 |-> f[m]] /\ f[0] = (IF source.single THEN <<"mediawiki">> ELSE <<>>)
    OBVIOUS
  <2> HIDE DEF f
  <2>2. \A m \in 1 .. 0 : f[m] = Deeper(f[m - 1], source.events[m])
    OBVIOUS
  <2>3. Opens(f, 0)
    BY <2>1, <2>2, OpensAt
  <2> QED
    BY <1>2, <1>3, <2>3
<1>4. CASE k # 0
  <2>1. k - 1 \in Nat /\ ~(k <= k - 1)
    BY <1>2, <1>4
  <2>2. k - 1 \notin missing
    <3> HIDE DEF missing
    <3> QED
      BY <1>1, <2>1
  <2>3. PICK g : Opens(g, k - 1)
    BY <2>1, <2>2
  <2>4. /\ g[0] = (IF source.single THEN <<"mediawiki">> ELSE <<>>)
        /\ \A m \in 1 .. k - 1 : g[m] = Deeper(g[m - 1], source.events[m])
    BY <2>1, <2>3, OpensAt
  <2> DEFINE f == [m \in 0 .. k |-> IF m = k THEN Deeper(g[k - 1], source.events[k]) ELSE g[m]]
  <2>5. /\ 0 \in 0 .. k /\ 0 # k /\ k \in 0 .. k /\ k - 1 # k
        /\ \A m \in 1 .. k : m - 1 \in 0 .. k /\ m - 1 # k /\ m \in 0 .. k
                             /\ (m # k => m \in 1 .. k - 1)
    BY <1>2, <1>4
  <2>6. f = [m \in 0 .. k |-> f[m]]
    OBVIOUS
  <2>7. \A m \in 0 .. k : f[m] = IF m = k THEN Deeper(g[k - 1], source.events[k]) ELSE g[m]
    OBVIOUS
  <2> HIDE DEF f
  <2>8. f[0] = (IF source.single THEN <<"mediawiki">> ELSE <<>>)
    BY <2>4, <2>5, <2>7
  <2>9. \A m \in 1 .. k : f[m] = Deeper(f[m - 1], source.events[m])
    BY <2>4, <2>5, <2>7
  <2>10. Opens(f, k)
    BY <1>2, <2>6, <2>8, <2>9, OpensAt
  <2> QED
    BY <1>2, <2>10
<1> QED
  BY <1>3, <1>4


\* The names of the open elements follow the elements.
LEMMA Names ==
  ASSUME NEW p \in Seq([name : Name, attr : Text])
  PROVE  /\ PathOf(p) \in Seq(Name)
         /\ Len(PathOf(p)) = Len(p)
         /\ p = <<>> <=> PathOf(p) = <<>>
         /\ \A tag \in [name : Name, attr : Text] :
              PathOf(Append(p, tag)) = Append(PathOf(p), tag.name)
         /\ p # <<>> => PathOf(Front(p)) = Front(PathOf(p))
<1> DEFINE R == [name : Name, attr : Text]
<1> HIDE DEF R
<1>a. p \in Seq(R) /\ \A e \in R : e.name \in Name
  BY DEF R
<1>1. Len(p) \in Nat /\ DOMAIN p = 1 .. Len(p) /\ \A i \in 1 .. Len(p) : p[i] \in R
  BY <1>a, LenProperties
<1>2. \A i \in 1 .. Len(p) : PathOf(p)[i] = p[i].name
  BY <1>1 DEF PathOf
<1>3. PathOf(p) \in [1 .. Len(p) -> Name]
  BY <1>a, <1>1 DEF PathOf
<1>4. PathOf(p) \in Seq(Name) /\ DOMAIN PathOf(p) = 1 .. Len(p)
  BY <1>1, <1>3, IsASeq
<1>5. Len(PathOf(p)) = Len(p)
  BY <1>1, <1>4, LenProperties
<1>6. p = <<>> <=> PathOf(p) = <<>>
  BY <1>a, <1>4, <1>5, EmptySeq, Zenon
<1>7. ASSUME NEW tag \in R
      PROVE  PathOf(Append(p, tag)) = Append(PathOf(p), tag.name)
  <2>1. /\ Append(p, tag) \in Seq(R) /\ Len(Append(p, tag)) = Len(p) + 1
        /\ \A i \in 1 .. Len(p) : Append(p, tag)[i] = p[i]
        /\ Append(p, tag)[Len(p) + 1] = tag
    BY <1>a, AppendProperties
  <2>2. DOMAIN Append(p, tag) = 1 .. Len(p) + 1
    BY <2>1, LenProperties
  <2>3. tag.name \in Name
    BY <1>a
  <2>4. /\ Append(PathOf(p), tag.name) \in Seq(Name)
        /\ Len(Append(PathOf(p), tag.name)) = Len(PathOf(p)) + 1
        /\ \A i \in 1 .. Len(PathOf(p)) : Append(PathOf(p), tag.name)[i] = PathOf(p)[i]
        /\ Append(PathOf(p), tag.name)[Len(PathOf(p)) + 1] = tag.name
    BY <1>4, <2>3, AppendProperties
  <2>5. /\ DOMAIN Append(PathOf(p), tag.name) = 1 .. Len(p) + 1
        /\ Append(PathOf(p), tag.name)
             = [i \in 1 .. Len(p) + 1 |-> Append(PathOf(p), tag.name)[i]]
    BY <1>5, <2>4, LenProperties
  <2>6. PathOf(Append(p, tag)) = [i \in 1 .. Len(p) + 1 |-> Append(p, tag)[i].name]
    BY <2>2 DEF PathOf
  <2>7. ASSUME NEW i \in 1 .. Len(p) + 1
        PROVE  Append(p, tag)[i].name = Append(PathOf(p), tag.name)[i]
    <3>1. CASE i = Len(p) + 1
      BY <1>5, <2>1, <2>4, <3>1
    <3>2. CASE i # Len(p) + 1
      <4>1. i \in 1 .. Len(p)
        BY <1>1, <3>2
      <4> QED
        BY <1>2, <1>5, <2>1, <2>4, <4>1
    <3> QED
      BY <3>1, <3>2
  <2> QED
    BY <2>5, <2>6, <2>7
<1>8. ASSUME p # <<>>
      PROVE  PathOf(Front(p)) = Front(PathOf(p))
  <2>1. /\ DOMAIN Front(p) = 1 .. Len(p) - 1
        /\ \A i \in 1 .. Len(p) - 1 : Front(p)[i] = p[i]
    BY <1>8, <1>a, FrontIn
  <2>2. /\ DOMAIN Front(PathOf(p)) = 1 .. Len(p) - 1
        /\ \A i \in 1 .. Len(p) - 1 : Front(PathOf(p))[i] = PathOf(p)[i]
        /\ Front(PathOf(p)) \in Seq(Name)
    BY <1>8, <1>4, <1>5, <1>6, FrontIn
  <2>3. Front(PathOf(p)) = [i \in 1 .. Len(p) - 1 |-> Front(PathOf(p))[i]]
    BY <2>2, LenProperties
  <2>4. PathOf(Front(p)) = [i \in 1 .. Len(p) - 1 |-> Front(p)[i].name]
    BY <2>1 DEF PathOf
  <2>5. ASSUME NEW i \in 1 .. Len(p) - 1
        PROVE  Front(p)[i].name = Front(PathOf(p))[i]
    <3>1. i \in 1 .. Len(p)
      BY <1>1
    <3> QED
      BY <1>2, <2>1, <2>2, <3>1
  <2> QED
    BY <2>3, <2>4, <2>5
<1> QED
  BY <1>4, <1>5, <1>6, <1>7, <1>8 DEF R

(***************************************************************************)
(* An empty element for a namespace has a number for its key, as MediaWiki *)
(* writes it.  Without it the parser leaves the element on its path        *)
(* (EmptyInSite) and from there on takes every element for one within it.  *)
(***************************************************************************)
NamespacesNumbered ==
  source.single \/ \A n \in DOMAIN source.events :
    source.events[n].kind = "empty" /\ source.events[n].name = "namespace"
      => source.events[n].attr \in Numbers \ {MissingKey}

\* A single page is read without site info.
SingleStage == source.single => stage = "parse_page"

PathInv ==
  status = "reading" => \A f : Opens(f, pos) => f[pos] = Path

LEMMA PathIs == Path = PathOf(current_path)
BY DEF Path, PathOf

\* Only the element of a namespace ends the path to one.
LEMMA AtNamespace ==
  ASSUME NEW path \in Seq(Name), NEW name \in Name, Append(path, name) = NamespacePath
  PROVE  name = "namespace"
<1>1. Len(path) \in Nat
  BY LenProperties
<1>2. Len(Append(path, name)) = Len(path) + 1 /\ Append(path, name)[Len(path) + 1] = name
  BY AppendProperties
<1>3. Len(NamespacePath) = 4 /\ NamespacePath[4] = "namespace"
  BY DEF NamespacePath
<1>4. Len(path) + 1 = 4
  BY <1>2, <1>3
<1> QED
  BY <1>2, <1>3, <1>4

\* A step of a parser that goes on reads an event.
LEMMA StepReads ==
  ASSUME IInv, NamespacesNumbered, SingleStage, Next, status' = "reading"
  PROVE  \E f, kind :
           /\ Reads(f, kind)
           /\ \/ kind = "start" /\ current_path' = Append(current_path, Tag)
              \/ kind = "end" /\ current_path' = IF current_path = <<>> THEN <<>> ELSE Closed
              \/ kind \in {"empty", "text", "reference"} /\ UNCHANGED current_path
<1> DEFINE Step == \/ Reads("parse_site_info", "start") /\ current_path' = Append(current_path, Tag)
                   \/ Reads("parse_page", "start") /\ current_path' = Append(current_path, Tag)
                   \/ \E f : Reads(f, "end") /\ current_path' = IF current_path = <<>> THEN <<>> ELSE Closed
                   \/ \E f : \E kind \in {"empty", "text", "reference"} :
                        Reads(f, kind) /\ UNCHANGED current_path
<1>1. current_path \in Seq([name : Name, attr : Text])
  BY DEF IInv, PathType
<1>2. Step
  <2>1. CASE OpenInSite \/ Open
    BY <2>1 DEF OpenInSite, Open
  <2>2. CASE EmptyInSite
    <3>1. Reads("parse_site_info", "empty")
      BY <2>2 DEF EmptyInSite
    <3>2. /\ pos' \in DOMAIN source.events /\ event = source.events[pos'] /\ event.name \in Name
      BY <3>1, ReadsEvent DEF event
    <3>3. ~source.single /\ event.kind = "empty"
      BY <3>1 DEF Reads, SingleStage
    <3>4. Append(Path, event.name) = NamespacePath => Tag.attr \in Numbers
      <4>1. Path \in Seq(Name)
        BY <1>1, PathIs, Names
      <4> SUFFICES ASSUME Append(Path, event.name) = NamespacePath PROVE Tag.attr \in Numbers
        OBVIOUS
      <4>2. event.name = "namespace"
        BY <3>2, <4>1, AtNamespace
      <4>3. event.attr \in Numbers \ {MissingKey}
        BY <3>2, <3>3, <4>2 DEF NamespacesNumbered
      <4> QED
        BY <4>3 DEF Tag
    <3>5. UNCHANGED current_path
      BY <2>2, <3>4 DEF EmptyInSite
    <3> QED
      BY <3>1, <3>5
  <2>3. CASE TextInSite \/ EmptyElement \/ PageText \/ OtherText
    BY <2>3 DEF TextInSite, EmptyElement, PageText, OtherText
  <2>4. CASE EndSite \/ EndRevision \/ EndPage
    BY <2>4 DEF EndSite, EndRevision, EndPage, Closes
  <2>5. CASE CloseOther("parse_site_info", {"siteinfo"}) \/ CloseOther("parse_page", {"revision", "page"})
    BY <2>5 DEF CloseOther
  <2>6. ASSUME NEW f, Either(f) PROVE Step
    BY <2>6 DEF Either, Panic, Fail, PassOver, RejectEnd
  <2>7. ~EofInSite /\ ~Eof /\ ~Finished
    BY DEF EofInSite, Eof, Finished, vars
  <2> QED
    BY <2>1, <2>2, <2>3, <2>4, <2>5, <2>6, <2>7 DEF Next, ParseSiteInfo, ParsePage
<1> QED
  BY <1>2

\* A step of a parser that goes on reads one event and follows it on the path.
LEMMA PathFollows ==
  ASSUME IInv, NamespacesNumbered, SingleStage, Next, status' = "reading"
  PROVE  /\ status = "reading" /\ source' = source /\ pos \in Nat /\ pos' = pos + 1
         /\ Path' = Deeper(Path, source.events[pos + 1])
<1>1. current_path \in Seq([name : Name, attr : Text])
  BY DEF IInv, PathType
<1>3. PICK f, kind : /\ Reads(f, kind)
                     /\ \/ kind = "start" /\ current_path' = Append(current_path, Tag)
                        \/ kind = "end" /\ current_path' = IF current_path = <<>> THEN <<>> ELSE Closed
                        \/ kind \in {"empty", "text", "reference"} /\ UNCHANGED current_path
  BY StepReads
<1>4. /\ status = "reading" /\ source' = source /\ pos \in Nat /\ pos' = pos + 1
      /\ event = source.events[pos + 1] /\ event.kind = kind
      /\ Tag \in [name : Name, attr : Text] /\ Tag.name = event.name
  BY <1>3, ReadsEvent DEF Reads, event, Tag
<1>5. Path' = PathOf(current_path') /\ Path = PathOf(current_path)
  BY DEF Path, PathOf
<1>6. CASE kind = "start" /\ current_path' = Append(current_path, Tag)
  <2>1. Path' = Append(Path, event.name)
    BY <1>1, <1>4, <1>5, <1>6, Names
  <2> QED
    BY <1>4, <1>6, <2>1 DEF Deeper
<1>7. CASE kind = "end" /\ current_path' = IF current_path = <<>> THEN <<>> ELSE Closed
  <2>1. CASE current_path = <<>>
    <3>1. Path' = <<>> /\ Path = <<>>
      BY <1>1, <1>5, <1>7, <2>1, Names
    <3>2. Front(<<>>) = <<>>
      BY SubSeqEmpty DEF Front
    <3>3. Deeper(Path, event) = Front(Path)
      BY <1>4, <1>7 DEF Deeper
    <3> QED
      BY <1>4, <3>1, <3>2, <3>3
  <2>2. CASE current_path # <<>>
    <3>1. Path' = Front(Path)
      BY <1>1, <1>5, <1>7, <2>2, Names DEF Closed
    <3> QED
      BY <1>4, <1>7, <3>1 DEF Deeper
  <2> QED
    BY <2>1, <2>2
<1>8. CASE kind \in {"empty", "text", "reference"} /\ UNCHANGED current_path
  <2>1. Path' = Path
    BY <1>5, <1>8
  <2>2. event.kind # "start" /\ event.kind # "end"
    BY <1>4, <1>8
  <2> QED
    BY <1>4, <2>1, <2>2 DEF Deeper
<1> QED
  BY <1>3, <1>4, <1>6, <1>7, <1>8


LEMMA PathInit == Init => SingleStage /\ PathInv
<1> SUFFICES ASSUME Init PROVE SingleStage /\ PathInv
  OBVIOUS
<1>1. SingleStage
  BY DEF Init, SingleStage
<1>2. ASSUME NEW f, Opens(f, pos) PROVE f[pos] = Path
  <2>1. pos = 0 /\ f[0] = (IF source.single THEN <<"mediawiki">> ELSE <<>>)
    BY <1>2, OpensAt DEF Init
  <2>2. Path = IF source.single THEN <<"mediawiki">> ELSE <<>>
    <3>1. CASE source.single
      <4>1. current_path = <<MediaWikiTag>> /\ MediaWikiTag.name = "mediawiki"
        BY <3>1 DEF Init, MediaWikiTag
      <4>2. Path = <<"mediawiki">>
        BY <4>1 DEF Path
      <4> QED
        BY <3>1, <4>2
    <3>2. CASE ~source.single
      <4>1. current_path = <<>>
        BY <3>2 DEF Init
      <4> QED
        BY <3>2, <4>1 DEF Path
    <3> QED
      BY <3>1, <3>2
  <2> QED
    BY <2>1, <2>2
<1> QED
  BY <1>1, <1>2 DEF PathInv

LEMMA PathStep ==
  ASSUME IInv, NamespacesNumbered, SingleStage, PathInv, [Next]_vars
  PROVE  NamespacesNumbered' /\ SingleStage' /\ PathInv'
<1>1. CASE UNCHANGED vars
  BY <1>1 DEF vars, siteVars, NamespacesNumbered, SingleStage, PathInv, Opens, Path
<1>2. CASE Next
  <2>1. source' = source
    BY <1>2 DEF Next, ParseSiteInfo, ParsePage, Either, OpenInSite, EmptyInSite, TextInSite, EndSite,
                EofInSite, CloseOther, Open, EmptyElement, PageText, OtherText, EndRevision, EndPage,
                Eof, Panic, Fail, PassOver, RejectEnd, Reads, Finished, vars
  <2>2. NamespacesNumbered'
    BY <2>1 DEF NamespacesNumbered
  <2>3. stage' = stage \/ stage' = "parse_page"
    BY <1>2 DEF Next, ParseSiteInfo, ParsePage, Either, OpenInSite, EmptyInSite, TextInSite, EndSite,
                EofInSite, CloseOther, Open, EmptyElement, PageText, OtherText, EndRevision, EndPage,
                Eof, Panic, Fail, PassOver, RejectEnd, Finished, vars, siteVars
  <2>4. SingleStage'
    BY <2>1, <2>3 DEF SingleStage
  <2>5. ASSUME status' = "reading", NEW f, Opens(f, pos')
        PROVE  f[pos'] = Path'
    <3>1. /\ status = "reading" /\ pos \in Nat /\ pos' = pos + 1
          /\ Path' = Deeper(Path, source.events[pos + 1])
      BY <1>2, <2>5, PathFollows
    <3>2. /\ Opens([m \in 0 .. pos |-> f[m]], pos)
          /\ f[pos + 1] = Deeper(f[pos], source.events[pos + 1])
      BY <2>5, <3>1, OpensBefore
    <3>3. [m \in 0 .. pos |-> f[m]][pos] = Path
      BY <3>1, <3>2 DEF PathInv
    <3>4. pos \in 0 .. pos
      BY <3>1
    <3> QED
      BY <3>1, <3>2, <3>3, <3>4
  <2>6. ASSUME NEW f, Opens(f, pos)' PROVE Opens(f, pos')
    BY <2>1, <2>6 DEF Opens
  <2>7. PathInv'
    BY <2>5, <2>6 DEF PathInv
  <2> QED
    BY <2>2, <2>4, <2>7
<1> QED
  BY <1>1, <1>2

LEMMA PathSuffices == AtEvent /\ PathInv => PathIsOpen
<1> SUFFICES ASSUME AtEvent, PathInv, status = "reading" PROVE Path = OpenElements
  BY DEF PathIsOpen
<1> DEFINE open == CHOOSE f : Opens(f, pos)
<1>1. pos \in Nat
  BY StreamAssumption, LenProperties DEF AtEvent
<1>2. Opens(open, pos)
  BY <1>1, OpensExists
<1>3. OpenElements = open[pos]
  BY DEF OpenElements, Opens
<1> QED
  BY <1>2, <1>3 DEF PathInv

(***************************************************************************)
(* Whatever the events, in whatever order and however the end tags are     *)
(* spelled, the path is that of the elements that are open, as long as     *)
(* empty elements for a namespace have numbers for keys.                   *)
(***************************************************************************)
THEOREM PathSaysWhere == NamespacesNumbered /\ Spec => []PathIsOpen
<1> DEFINE Inv == IInv /\ NamespacesNumbered /\ SingleStage /\ PathInv
<1>1. NamespacesNumbered /\ Init => Inv
  BY InitTypes, PathInit
<1>2. Inv /\ [Next]_vars => Inv'
  BY TypeStep, PathStep
<1>3. Inv => PathIsOpen
  BY PathSuffices DEF IInv
<1> QED
  BY <1>1, <1>2, <1>3, PTL DEF Spec

-----------------------------------------------------------------------------
(* The feature "strict"                                                    *)

\* What RevisionBuilder::try_build insists on.
Mandatory == {"id", "timestamp", "contributor_name", "text"}

\* An event e within the elements named by path gives a revision the field.
Gives(e, path, field) ==
  \/ /\ e.kind = "text"
     /\ \/ field = "id" /\ path = InRevision(<<"id">>)
        \/ field = "timestamp" /\ path = InRevision(<<"timestamp">>) /\ e.text \in Timestamps
        \/ /\ field = "contributor_name"
           /\ path \in {InRevision(<<"contributor", "username">>), InRevision(<<"contributor", "ip">>)}
        \/ field = "text" /\ path = InRevision(<<"text">>)
  \/ e.kind = "empty" /\ field = "text" /\ Append(path, e.name) = InRevision(<<"text">>)

IsEnd(events, n, name) == events[n].kind = "end" /\ events[n].name = name

\* The site info is behind the n-th event.
InPages(n) == source.single \/ \E m \in 1 .. n - 1 : IsEnd(source.events, m, "siteinfo")

\* The last revision that began by event n, began with event r and is not over.
RevisionSince(events, r, n) ==
  /\ IsStart(events, r, "revision") /\ InPages(r)
  /\ \A m \in r + 1 .. n : /\ ~IsStart(events, m, "revision")
                           /\ ~IsEnd(events, m, "revision") /\ ~IsEnd(events, m, "page")

(***************************************************************************)
(* What is wrong with the m-th event, when f holds the elements that are   *)
(* open: the XML is malformed, a namespace has no key, an end tag is not   *)
(* that of the innermost element, or a revision ends that was never given  *)
(* one of its mandatory fields.                                            *)
(***************************************************************************)
Incomplete(events, f, m) ==
  /\ IsEnd(events, m, "revision")
  /\ \E r \in 1 .. m - 1 :
       /\ RevisionSince(events, r, m - 1)
       /\ \E field \in Mandatory : \A k \in r + 1 .. m - 1 : ~Gives(events[k], f[k - 1], field)

Fault(events, f, m) ==
  \/ NoTag(events[m]) \/ NoKey(events[m]) \/ WrongEnd(events[m], f[m - 1])
  \/ Incomplete(events, f, m)

\* Where a stream may end: with its page, if it has one only, or else behind the
\* site info when all elements are closed.
ProperEnd(f, n) ==
  IF source.single THEN n > 0 /\ IsEnd(source.events, n, "page")
  ELSE n = Len(source.events) /\ f[n] = <<>> /\ InPages(n + 1)

\* A field of the builder was given to it by the event that has just been read, or before.
LEMMA FieldGiven ==
  ASSUME NEW b \in BuilderType, NEW path, NEW attr, NEW e, e.kind = "text",
         NEW field \in Mandatory, Filled(b, path, attr, e.text)[field] # <<>>
  PROVE  b[field] # <<>> \/ Gives(e, path, field)
<1> DEFINE c == Filled(b, path, attr, e.text)
<1>0. c = Filled(b, path, attr, e.text)
  OBVIOUS
<1> HIDE DEF c
<1>1. \/ path = InRevision(<<"id">>) /\ c = [b EXCEPT !.id = IF e.text \in Numbers THEN <<e.text>> ELSE <<RandomId>>]
      \/ path = InRevision(<<"timestamp">>) /\ c = [b EXCEPT !.timestamp = Present(e.text, Timestamps)]
      \/ /\ path \in {InRevision(<<"contributor", "username">>), InRevision(<<"contributor", "ip">>)}
         /\ c = [b EXCEPT !.contributor_name = <<e.text>>]
      \/ c = [b EXCEPT !.contributor_id = Present(e.text, Numbers)]
      \/ /\ path = InRevision(<<"text">>)
         /\ c = [b EXCEPT !.text = IF attr = DeletedAttribute THEN <<DeletedText>> ELSE <<NormalText(e.text)>>]
      \/ c = [b EXCEPT !.sha1 = IF e.text \in Hashes THEN <<e.text>> ELSE @]
      \/ c = [b EXCEPT !.comment = <<e.text>>]
      \/ c = [b EXCEPT !.minor = TRUE]
      \/ c = b
  BY <1>0 DEF Filled
<1>2. c[field] # <<>> /\ field \in {"id", "timestamp", "contributor_name", "text"}
  BY <1>0 DEF Mandatory
<1>3. b = [id |-> b.id, timestamp |-> b.timestamp, contributor_name |-> b.contributor_name,
           contributor_id |-> b.contributor_id, text |-> b.text, sha1 |-> b.sha1,
           comment |-> b.comment, minor |-> b.minor]
  BY DEF BuilderType
<1>4. CASE path = InRevision(<<"id">>) /\ c = [b EXCEPT !.id = IF e.text \in Numbers THEN <<e.text>> ELSE <<RandomId>>]
  BY <1>2, <1>3, <1>4 DEF Gives
<1>5. CASE path = InRevision(<<"timestamp">>) /\ c = [b EXCEPT !.timestamp = Present(e.text, Timestamps)]
  BY <1>2, <1>3, <1>5 DEF Gives, Present
<1>6. CASE /\ path \in {InRevision(<<"contributor", "username">>), InRevision(<<"contributor", "ip">>)}
           /\ c = [b EXCEPT !.contributor_name = <<e.text>>]
  BY <1>2, <1>3, <1>6 DEF Gives
<1>7. CASE /\ path = InRevision(<<"text">>)
           /\ c = [b EXCEPT !.text = IF attr = DeletedAttribute THEN <<DeletedText>> ELSE <<NormalText(e.text)>>]
  BY <1>2, <1>3, <1>7 DEF Gives
<1>8. CASE \/ c = [b EXCEPT !.contributor_id = Present(e.text, Numbers)]
           \/ c = [b EXCEPT !.sha1 = IF e.text \in Hashes THEN <<e.text>> ELSE @]
           \/ c = [b EXCEPT !.comment = <<e.text>>]
           \/ c = [b EXCEPT !.minor = TRUE]
           \/ c = b
  BY <1>2, <1>3, <1>8
<1> QED
  BY <1>1, <1>4, <1>5, <1>6, <1>7, <1>8

LEMMA LastName ==
  ASSUME NEW p \in Seq([name : Name, attr : Text]), p # <<>>
  PROVE  Last(PathOf(p)) = Last(p).name
<1>1. Len(p) \in Nat /\ Len(p) # 0 /\ DOMAIN p = 1 .. Len(p) /\ Len(PathOf(p)) = Len(p)
  BY LenProperties, EmptySeq, Names
<1>2. PathOf(p)[Len(p)] = p[Len(p)].name
  BY <1>1 DEF PathOf
<1> QED
  BY <1>1, <1>2 DEF Last

\* An end tag is found to be the wrong one exactly if it is.
LEMMA MismatchIs ==
  ASSUME IInv, NEW f, Reads(f, "end")
  PROVE  Mismatched <=> WrongEnd(source.events[pos'], Path)
<1>1. current_path \in Seq([name : Name, attr : Text])
  BY DEF IInv, PathType
<1>2. Path = <<>> <=> current_path = <<>>
  BY <1>1, PathIs, Names
<1>3. current_path # <<>> => Last(Path) = Last(current_path).name
  BY <1>1, PathIs, LastName
<1>4. event = source.events[pos'] /\ event.kind = "end"
  BY DEF Reads, event
<1> QED
  BY <1>2, <1>3, <1>4 DEF Mismatched, WrongEnd

\* What a strict parser that goes on has seen in an event.
LEMMA NoFaultSeen ==
  ASSUME IInv, Strict, Next, status' = "reading"
  PROVE  /\ \E f, kind : Reads(f, kind)
         /\ ~NoTag(event) /\ ~NoKey(event) /\ ~WrongEnd(event, Path)
<1>1. \/ \E f : Reads(f, "start") /\ ~IsTodo
      \/ \E f : Reads(f, "empty") /\ ~IsTodo
      \/ \E f : \E kind \in {"text", "reference"} : Reads(f, kind)
      \/ \E f : Reads(f, "end") /\ ~Mismatched
  <2>1. CASE OpenInSite \/ Open \/ EmptyInSite \/ EmptyElement
    BY <2>1 DEF OpenInSite, Open, EmptyInSite, EmptyElement
  <2>2. CASE TextInSite \/ PageText \/ OtherText
    BY <2>2 DEF TextInSite, PageText, OtherText
  <2>3. CASE EndSite \/ EndRevision \/ EndPage
    BY <2>3 DEF EndSite, EndRevision, EndPage, Closes
  <2>4. CASE CloseOther("parse_site_info", {"siteinfo"}) \/ CloseOther("parse_page", {"revision", "page"})
    BY <2>4 DEF CloseOther
  <2>5. ASSUME NEW f, Either(f) PROVE Reads(f, "reference")
    BY <2>5 DEF Either, Panic, Fail, PassOver, RejectEnd
  <2>6. ~EofInSite /\ ~Eof /\ ~Finished
    BY DEF EofInSite, Eof, Finished, vars
  <2> QED
    BY <2>1, <2>2, <2>3, <2>4, <2>5, <2>6 DEF Next, ParseSiteInfo, ParsePage
<1>2. CASE \E f : Reads(f, "start") /\ ~IsTodo
  BY <1>2 DEF Reads, IsTodo, NoTag, NoKey, WrongEnd
<1>3. CASE \E f : Reads(f, "empty") /\ ~IsTodo
  BY <1>3 DEF Reads, IsTodo, NoTag, NoKey, WrongEnd
<1>4. CASE \E f : \E kind \in {"text", "reference"} : Reads(f, kind)
  BY <1>4 DEF Reads, NoTag, NoKey, WrongEnd
<1>5. CASE \E f : Reads(f, "end") /\ ~Mismatched
  <2>1. PICK f : Reads(f, "end") /\ ~Mismatched
    BY <1>5
  <2>2. ~WrongEnd(event, Path)
    BY <2>1, MismatchIs DEF event
  <2> QED
    BY <2>1, <2>2 DEF Reads, NoTag, NoKey
<1> QED
  BY <1>1, <1>2, <1>3, <1>4, <1>5

\* Which part of the stream a strict parser is in.
LEMMA StageFollows ==
  ASSUME IInv, Strict, Next, status' = "reading"
  PROVE  stage' = IF event.kind = "end" /\ event.name = "siteinfo" THEN "parse_page" ELSE stage
<1>1. CASE EndSite
  <2>1. event.kind = "end" /\ event.name = "siteinfo" /\ stage' = "parse_page"
    BY <1>1 DEF EndSite, Reads, Closes, Mismatched
  <2> QED
    BY <2>1
<1>2. CASE OpenInSite \/ EmptyInSite \/ TextInSite
  BY <1>2 DEF OpenInSite, EmptyInSite, TextInSite, Reads, siteVars
<1>3. CASE CloseOther("parse_site_info", {"siteinfo"})
  BY <1>3 DEF CloseOther, Closes, Mismatched, siteVars
<1>4. CASE \/ Open \/ EmptyElement \/ PageText \/ OtherText \/ EndRevision \/ EndPage
           \/ CloseOther("parse_page", {"revision", "page"})
  BY <1>4 DEF Open, EmptyElement, PageText, OtherText, EndRevision, EndPage, CloseOther, Reads, siteVars
<1>5. ASSUME NEW f, Either(f) PROVE stage' = stage /\ event.kind = "reference"
  BY <1>5 DEF Either, Panic, Fail, PassOver, RejectEnd, Reads, siteVars
<1>6. ~EofInSite /\ ~Eof /\ ~Finished
  BY DEF EofInSite, Eof, Finished, vars
<1> QED
  BY <1>1, <1>2, <1>3, <1>4, <1>5, <1>6 DEF Next, ParseSiteInfo, ParsePage

\* What happens to the builder of a revision.
LEMMA BuilderFollows ==
  ASSUME IInv, Strict, Next, status' = "reading", stage = "parse_page"
  PROVE  /\ event.kind = "start" /\ event.name = "revision" => revision_builder' = <<NewBuilder>>
         /\ event.kind = "end" /\ event.name = "revision" => ~MissesField
         /\ \/ event.kind = "start" /\ event.name = "revision"
            \/ event.kind = "end" /\ event.name \in {"revision", "page"}
            \/ revision_builder = <<>>
            \/ /\ revision_builder' # <<>>
               /\ \A field \in Mandatory :
                    revision_builder'[1][field] # <<>>
                      => revision_builder[1][field] # <<>> \/ Gives(event, Path, field)
<1>1. revision_builder # <<>> => revision_builder[1] \in BuilderType
  BY Options DEF IInv, PageStateType
<1>2. CASE Open
  BY <1>2 DEF Open, Reads
<1>3. CASE EmptyElement
  <2>1. event.kind = "empty"
    BY <1>3 DEF EmptyElement, Reads
  <2>2. \/ /\ Append(Path, event.name) = InRevision(<<"text">>)
           /\ revision_builder' = Building([revision_builder[1] EXCEPT !.text = <<NormalText(<<>>)>>])
        \/ revision_builder' = Building([revision_builder[1] EXCEPT !.minor = TRUE])
        \/ revision_builder' = revision_builder
    BY <1>3 DEF EmptyElement
  <2>3. CASE revision_builder # <<>>
    <3> DEFINE b == revision_builder[1]
    <3>1. b = [id |-> b.id, timestamp |-> b.timestamp, contributor_name |-> b.contributor_name,
               contributor_id |-> b.contributor_id, text |-> b.text, sha1 |-> b.sha1,
               comment |-> b.comment, minor |-> b.minor]
      BY <1>1, <2>3 DEF BuilderType
    <3>2. \/ /\ Append(Path, event.name) = InRevision(<<"text">>)
             /\ revision_builder' = <<[b EXCEPT !.text = <<NormalText(<<>>)>>]>>
          \/ revision_builder' = <<[b EXCEPT !.minor = TRUE]>>
          \/ revision_builder' = revision_builder
      BY <2>2, <2>3 DEF Building
    <3> HIDE DEF b
    <3>3. CASE /\ Append(Path, event.name) = InRevision(<<"text">>)
               /\ revision_builder' = <<[b EXCEPT !.text = <<NormalText(<<>>)>>]>>
      <4>1. /\ revision_builder' # <<>>
            /\ revision_builder'[1] = [b EXCEPT !.text = <<NormalText(<<>>)>>]
        BY <3>3
      <4>2. \A field \in Mandatory : revision_builder'[1][field] # <<>> => b[field] # <<>> \/ field = "text"
        BY <3>1, <4>1 DEF Mandatory
      <4>3. Gives(event, Path, "text")
        BY <2>1, <3>3 DEF Gives
      <4> QED
        BY <2>1, <4>1, <4>2, <4>3 DEF b
    <3>4. CASE revision_builder' = <<[b EXCEPT !.minor = TRUE]>>
      <4>1. revision_builder' # <<>> /\ revision_builder'[1] = [b EXCEPT !.minor = TRUE]
        BY <3>4
      <4>2. \A field \in Mandatory : revision_builder'[1][field] # <<>> => b[field] # <<>>
        BY <3>1, <4>1 DEF Mandatory
      <4> QED
        BY <2>1, <4>1, <4>2 DEF b
    <3>5. CASE revision_builder' = revision_builder
      BY <2>1, <2>3, <3>5
    <3> QED
      BY <3>2, <3>3, <3>4, <3>5
  <2> QED
    BY <2>1, <2>3
<1>4. CASE PageText
  BY <1>4 DEF PageText, Reads
<1>5. CASE OtherText
  <2>1. event.kind = "text" /\ event.text \in Text
    BY <1>5, ReadsEvent DEF OtherText, Reads
  <2>2. CASE current_path = <<>> \/ revision_builder = <<>>
    BY <1>5, <2>1, <2>2 DEF OtherText
  <2>3. CASE current_path # <<>> /\ revision_builder # <<>>
    <3> DEFINE c == Filled(revision_builder[1], Path, Last(current_path).attr, event.text)
    <3>1. revision_builder' = <<c>>
      BY <1>5, <2>3 DEF OtherText, Building
    <3>2. ASSUME NEW field \in Mandatory, c[field] # <<>>
          PROVE  revision_builder[1][field] # <<>> \/ Gives(event, Path, field)
      BY <1>1, <2>1, <2>3, <3>2, FieldGiven
    <3> HIDE DEF c
    <3>3. revision_builder' # <<>> /\ revision_builder'[1] = c
      BY <3>1
    <3> QED
      BY <2>1, <3>2, <3>3
  <2> QED
    BY <2>2, <2>3
<1>6. CASE EndRevision
  <2>1. event.kind = "end" /\ event.name = "revision"
    BY <1>6 DEF EndRevision, Reads, Closes, Mismatched
  <2>2. ~MissesField
    BY <1>6 DEF EndRevision
  <2> QED
    BY <2>1, <2>2
<1>7. CASE EndPage
  BY <1>7 DEF EndPage, Reads, Closes, Mismatched
<1>8. CASE CloseOther("parse_page", {"revision", "page"})
  BY <1>8 DEF CloseOther, Reads, Closes, Mismatched, pageVars
<1>9. ASSUME NEW f, Either(f) PROVE event.kind = "reference" /\ revision_builder' = revision_builder
  BY <1>9 DEF Either, Panic, Fail, PassOver, RejectEnd, Reads, pageVars
<1>10. ~ParseSiteInfo /\ ~Eof /\ ~Finished
  BY DEF ParseSiteInfo, OpenInSite, EmptyInSite, TextInSite, EndSite, EofInSite, CloseOther, Reads, Eof,
         Finished, vars
<1> QED
  BY <1>2, <1>3, <1>4, <1>5, <1>6, <1>7, <1>8, <1>9, <1>10 DEF Next, ParsePage

\* Since event r a mandatory field of the builder is set only if an event gave it.
Collected(f, r) ==
  /\ revision_builder # <<>>
  /\ \A field \in Mandatory :
       revision_builder[1][field] # <<>>
         => \E k \in r + 1 .. pos : Gives(source.events[k], f[k - 1], field)

StrictInv ==
  Strict => \A f : Opens(f, pos) =>
    /\ status \in {"reading", "end"} => \A m \in 1 .. pos : ~Fault(source.events, f, m)
    /\ status = "end" => ProperEnd(f, pos)
    /\ status = "reading" =>
         /\ stage = "parse_page" <=> InPages(pos + 1)
         /\ \A r \in 1 .. pos : RevisionSince(source.events, r, pos) => Collected(f, r)

LEMMA StrictInit == Init => StrictInv
<1> SUFFICES ASSUME Init, Strict, NEW f, Opens(f, pos)
             PROVE  /\ \A m \in 1 .. pos : ~Fault(source.events, f, m)
                    /\ status = "reading"
                    /\ stage = "parse_page" <=> InPages(pos + 1)
                    /\ \A r \in 1 .. pos : RevisionSince(source.events, r, pos) => Collected(f, r)
  BY DEF StrictInv
<1>1. pos = 0 /\ 1 .. 0 = {} /\ 1 .. (0 + 1) - 1 = {} /\ status = "reading"
  BY DEF Init
<1>2. stage = "parse_page" <=> source.single
  BY DEF Init
<1> QED
  BY <1>1, <1>2 DEF InPages

\* A fault of an event is a matter of what was open before it.
LEMMA FaultBefore ==
  ASSUME NEW events, NEW f, NEW n \in Nat, NEW m \in 1 .. n, Fault(events, f, m)
  PROVE  Fault(events, [k \in 0 .. n - 1 |-> f[k]], m)
<1> DEFINE g == [k \in 0 .. n - 1 |-> f[k]]
<1>1. \A k \in 1 .. n : g[k - 1] = f[k - 1]
  OBVIOUS
<1> HIDE DEF g
<1>2. g[m - 1] = f[m - 1]
  BY <1>1
<1>3. ASSUME Incomplete(events, f, m) PROVE Incomplete(events, g, m)
  <2>1. PICK r \in 1 .. m - 1, field \in Mandatory :
          /\ RevisionSince(events, r, m - 1)
          /\ \A k \in r + 1 .. m - 1 : ~Gives(events[k], f[k - 1], field)
    BY <1>3 DEF Incomplete
  <2>2. \A k \in r + 1 .. m - 1 : k \in 1 .. n
    OBVIOUS
  <2>3. \A k \in r + 1 .. m - 1 : ~Gives(events[k], g[k - 1], field)
    BY <1>1, <2>1, <2>2
  <2> QED
    BY <1>3, <2>1, <2>3 DEF Incomplete
<1>4. Fault(events, g, m)
  BY <1>2, <1>3 DEF Fault
<1> QED
  BY <1>4 DEF g

\* The event after n has no fault if it is well-formed and does not end a
\* revision that lacks a field.
LEMMA NoFaultYet ==
  ASSUME NEW f, NEW n \in Nat, Opens(f, n + 1),
         \A m \in 1 .. n : ~Fault(source.events, [k \in 0 .. n |-> f[k]], m),
         ~NoTag(source.events[n + 1]), ~NoKey(source.events[n + 1]),
         ~WrongEnd(source.events[n + 1], f[n]), ~Incomplete(source.events, f, n + 1)
  PROVE  \A m \in 1 .. n + 1 : ~Fault(source.events, f, m)
<1>1. (n + 1) - 1 = n /\ n + 1 \in Nat
  OBVIOUS
<1>2. ~Fault(source.events, f, n + 1)
  BY <1>1 DEF Fault
<1>3. ASSUME NEW m \in 1 .. n + 1, m # n + 1 PROVE ~Fault(source.events, f, m)
  <2>1. m \in 1 .. n
    BY <1>3
  <2>2. Fault(source.events, f, m) => Fault(source.events, [k \in 0 .. (n + 1) - 1 |-> f[k]], m)
    BY <1>1, <1>3, FaultBefore
  <2> QED
    BY <1>1, <2>1, <2>2
<1> QED
  BY <1>2, <1>3

LEMMA StrictGoesOn ==
  ASSUME IInv, NamespacesNumbered, SingleStage, PathInv, StrictInv, Next, Strict,
         status' = "reading", NEW f, Opens(f, pos')
  PROVE  /\ \A m \in 1 .. pos' : ~Fault(source.events, f, m)
         /\ stage' = "parse_page" <=> InPages(pos' + 1)
         /\ \A r \in 1 .. pos' : RevisionSince(source.events, r, pos') => Collected(f, r)'
<1> DEFINE g == [m \in 0 .. pos |-> f[m]]
           E == source.events
<1>1. status = "reading" /\ source' = source /\ pos \in Nat /\ pos' = pos + 1
  BY PathFollows
<1>2. Opens(g, pos)
  BY <1>1, OpensBefore
<1>3. event = E[pos + 1]
  BY <1>1 DEF event
<1>4. g[pos] = Path /\ \A m \in 0 .. pos : g[m] = f[m]
  BY <1>1, <1>2 DEF PathInv
<1>5. f[pos] = Path
  BY <1>1, <1>4
<1> HIDE DEF g
<1>6. /\ \A m \in 1 .. pos : ~Fault(E, g, m)
      /\ stage = "parse_page" <=> InPages(pos + 1)
      /\ \A r \in 1 .. pos : RevisionSince(E, r, pos) => Collected(g, r)
  BY <1>1, <1>2 DEF StrictInv
<1>7. ~NoTag(E[pos + 1]) /\ ~NoKey(E[pos + 1]) /\ ~WrongEnd(E[pos + 1], f[pos])
  BY <1>3, <1>5, NoFaultSeen
<1>8. stage \in {"parse_site_info", "parse_page"}
  BY DEF IInv, StageType
<1>9. ASSUME NEW r \in 1 .. pos, RevisionSince(E, r, pos) PROVE stage = "parse_page"
  <2>1. InPages(r)
    BY <1>9 DEF RevisionSince
  <2>2. \A m \in 1 .. r - 1 : m \in 1 .. (pos + 1) - 1
    BY <1>1
  <2>3. InPages(pos + 1)
    BY <2>1, <2>2 DEF InPages
  <2> QED
    BY <1>6, <2>3
<1>10. ~Incomplete(E, f, pos + 1)
  <2> SUFFICES ASSUME Incomplete(E, f, pos + 1) PROVE FALSE
    OBVIOUS
  <2>1. (pos + 1) - 1 = pos
    BY <1>1
  <2>2. PICK r \in 1 .. pos, field \in Mandatory :
          /\ RevisionSince(E, r, pos)
          /\ \A k \in r + 1 .. pos : ~Gives(E[k], f[k - 1], field)
    BY <2>1 DEF Incomplete
  <2>3. event.kind = "end" /\ event.name = "revision"
    BY <1>3 DEF Incomplete, IsEnd
  <2>4. stage = "parse_page"
    BY <1>9, <2>2
  <2>5. ~MissesField
    BY <2>3, <2>4, BuilderFollows
  <2>6. Collected(g, r)
    BY <1>6, <2>2
  <2>7. ~ \E k \in r + 1 .. pos : Gives(E[k], g[k - 1], field)
    <3>1. \A k \in r + 1 .. pos : k - 1 \in 0 .. pos
      BY <1>1
    <3> QED
      BY <1>4, <2>2, <3>1
  <2>8. revision_builder # <<>> /\ revision_builder[1][field] = <<>>
    BY <2>6, <2>7 DEF Collected
  <2>9. ~Buildable(revision_builder[1])
    BY <2>8 DEF Buildable, Mandatory
  <2> QED
    BY <2>5, <2>8, <2>9 DEF MissesField
<1>11. \A m \in 1 .. pos' : ~Fault(E, f, m)
  BY <1>1, <1>6, <1>7, <1>10, NoFaultYet DEF g
<1>12. stage' = "parse_page" <=> InPages(pos' + 1)
  <2>1. stage' = IF IsEnd(E, pos + 1, "siteinfo") THEN "parse_page" ELSE stage
    BY <1>3, StageFollows DEF IsEnd
  <2>2. \A m : m \in 1 .. (pos' + 1) - 1 <=> m \in 1 .. (pos + 1) - 1 \/ m = pos + 1
    BY <1>1
  <2>3. InPages(pos' + 1) <=> InPages(pos + 1) \/ IsEnd(E, pos + 1, "siteinfo")
    BY <2>2 DEF InPages
  <2> QED
    BY <1>6, <2>1, <2>3
<1>13. ASSUME NEW r \in 1 .. pos', RevisionSince(E, r, pos')
       PROVE  Collected(f, r)'
  <2>1. CASE r = pos + 1
    <3>1. IsStart(E, pos + 1, "revision") /\ InPages(pos + 1)
      BY <1>13, <2>1 DEF RevisionSince
    <3>2. revision_builder' = <<NewBuilder>>
      BY <1>3, <1>6, <3>1, BuilderFollows DEF IsStart
    <3>3. revision_builder' # <<>> /\ revision_builder'[1] = NewBuilder
      BY <3>2
    <3>4. \A field \in Mandatory : NewBuilder[field] = <<>>
      BY DEF Mandatory, NewBuilder
    <3> QED
      BY <3>3, <3>4 DEF Collected
  <2>2. CASE r # pos + 1
    <3>1. r \in 1 .. pos /\ pos + 1 \in r + 1 .. pos' /\ \A m \in r + 1 .. pos : m \in r + 1 .. pos'
      BY <1>1, <2>2
    <3>2. RevisionSince(E, r, pos)
      BY <1>13, <3>1 DEF RevisionSince
    <3>3. Collected(g, r) /\ stage = "parse_page"
      BY <1>6, <1>9, <3>1, <3>2
    <3>4. /\ ~(event.kind = "start" /\ event.name = "revision")
          /\ ~(event.kind = "end" /\ event.name \in {"revision", "page"})
      BY <1>3, <1>13, <3>1 DEF RevisionSince, IsStart, IsEnd
    <3>5. /\ revision_builder' # <<>>
          /\ \A field \in Mandatory :
               revision_builder'[1][field] # <<>>
                 => revision_builder[1][field] # <<>> \/ Gives(event, Path, field)
      BY <3>3, <3>4, BuilderFollows DEF Collected
    <3>6. ASSUME NEW field \in Mandatory, revision_builder'[1][field] # <<>>
          PROVE  \E k \in r + 1 .. pos' : Gives(E[k], f[k - 1], field)
      <4>1. CASE Gives(event, Path, field)
        <5>1. (pos + 1) - 1 = pos
          BY <1>1
        <5> QED
          BY <1>3, <1>5, <3>1, <4>1, <5>1
      <4>2. CASE revision_builder[1][field] # <<>>
        <5>1. PICK k \in r + 1 .. pos : Gives(E[k], g[k - 1], field)
          BY <3>3, <4>2 DEF Collected
        <5>2. k - 1 \in 0 .. pos
          BY <1>1
        <5> QED
          BY <1>4, <3>1, <5>1, <5>2
      <4> QED
        BY <3>5, <3>6, <4>1, <4>2
    <3> QED
      BY <1>1, <3>5, <3>6 DEF Collected
  <2> QED
    BY <2>1, <2>2
<1> QED
  BY <1>11, <1>12, <1>13

\* The last step of a strict parser that ends normally.
LEMMA StrictEnds ==
  ASSUME IInv, PathInv, StrictInv, Next, Strict, status = "reading", status' = "end",
         NEW f, Opens(f, pos')
  PROVE  ProperEnd(f, pos') /\ \A m \in 1 .. pos' : ~Fault(source.events, f, m)
<1>1. Eof \/ EndPage
  <2>1. ~ParseSiteInfo /\ ~Either("parse_site_info") /\ ~Either("parse_page") /\ ~Finished
    BY DEF ParseSiteInfo, OpenInSite, EmptyInSite, TextInSite, EndSite, EofInSite, CloseOther, Either,
           Panic, Fail, PassOver, RejectEnd, Finished
  <2>2. ~Open /\ ~EmptyElement /\ ~PageText /\ ~OtherText /\ ~EndRevision
        /\ ~CloseOther("parse_page", {"revision", "page"})
    BY DEF Open, EmptyElement, PageText, OtherText, EndRevision, CloseOther
  <2> QED
    BY <2>1, <2>2 DEF Next, ParsePage
<1>2. pos \in Nat /\ Len(source.events) \in Nat
  BY StreamAssumption, LenProperties DEF IInv, AtEvent
<1>3. CASE Eof
  <2>1. pos' = pos /\ pos = Len(source.events) /\ current_path = <<>> /\ ~source.single
    BY <1>3 DEF Eof
  <2>2. Path = <<>>
    BY <2>1 DEF Path
  <2>3. f[pos] = Path
    BY <2>1 DEF PathInv
  <2>4. InPages(pos + 1) /\ \A m \in 1 .. pos : ~Fault(source.events, f, m)
    BY <1>3, <2>1 DEF StrictInv, Eof
  <2> QED
    BY <2>1, <2>2, <2>3, <2>4 DEF ProperEnd
<1>4. CASE EndPage
  <2>1. Reads("parse_page", "end") /\ event.kind = "end" /\ event.name = "page" /\ ~Mismatched /\ source.single
    BY <1>4 DEF EndPage, Reads, Closes, Mismatched
  <2>2. pos' = pos + 1 /\ event = source.events[pos + 1]
    BY <2>1 DEF Reads, event
  <2> DEFINE g == [m \in 0 .. pos |-> f[m]]
  <2>3. Opens(g, pos)
    BY <1>2, <2>2, OpensBefore
  <2>4. g[pos] = Path /\ g[pos] = f[pos]
    BY <1>2, <2>3 DEF PathInv
  <2>5. \A m \in 1 .. pos : ~Fault(source.events, g, m)
    BY <2>3 DEF StrictInv
  <2>6. ~WrongEnd(source.events[pos + 1], f[pos])
    BY <2>1, <2>2, <2>4, MismatchIs
  <2>7. /\ ~NoTag(source.events[pos + 1]) /\ ~NoKey(source.events[pos + 1])
        /\ ~Incomplete(source.events, f, pos + 1)
    BY <2>1, <2>2 DEF NoTag, NoKey, Incomplete, IsEnd
  <2>8. \A m \in 1 .. pos + 1 : ~Fault(source.events, f, m)
    BY <1>2, <2>2, <2>5, <2>6, <2>7, NoFaultYet
  <2>9. ProperEnd(f, pos')
    BY <1>2, <2>1, <2>2 DEF ProperEnd, IsEnd
  <2> QED
    BY <2>2, <2>8, <2>9
<1> QED
  BY <1>1, <1>3, <1>4

LEMMA StrictStep ==
  ASSUME IInv, NamespacesNumbered, SingleStage, PathInv, StrictInv, [Next]_vars
  PROVE  StrictInv'
<1>1. CASE UNCHANGED vars
  <2>1. UNCHANGED <<source, pos, status, stage, revision_builder>>
    BY <1>1 DEF vars, siteVars, pageVars
  <2>2. /\ Strict' <=> Strict
        /\ \A f : Opens(f, pos)' <=> Opens(f, pos)
        /\ \A f : ProperEnd(f, pos)' <=> ProperEnd(f, pos)
        /\ InPages(pos + 1)' <=> InPages(pos + 1)
        /\ \A f, r : Collected(f, r)' <=> Collected(f, r)
        /\ \A f, m : Fault(source.events, f, m)' <=> Fault(source.events, f, m)
        /\ \A r : RevisionSince(source.events, r, pos)' <=> RevisionSince(source.events, r, pos)
    BY <2>1 DEF Strict, Opens, ProperEnd, InPages, RevisionSince, Collected, Fault, Incomplete
  <2> QED
    BY <2>1, <2>2 DEF StrictInv
<1>2. CASE Next
  <2>1. source' = source
    BY <1>2 DEF Next, ParseSiteInfo, ParsePage, Either, OpenInSite, EmptyInSite, TextInSite, EndSite,
                EofInSite, CloseOther, Open, EmptyElement, PageText, OtherText, EndRevision, EndPage,
                Eof, Panic, Fail, PassOver, RejectEnd, Reads, Finished, vars
  <2>2. /\ Strict' <=> Strict
        /\ \A f : Opens(f, pos)' <=> Opens(f, pos')
        /\ \A f : ProperEnd(f, pos)' <=> ProperEnd(f, pos')
        /\ InPages(pos + 1)' <=> InPages(pos' + 1)
        /\ \A f, m : Fault(source.events, f, m)' <=> Fault(source.events, f, m)
        /\ \A r : RevisionSince(source.events, r, pos)' <=> RevisionSince(source.events, r, pos')
    BY <2>1 DEF Strict, Opens, ProperEnd, InPages, Fault, Incomplete, RevisionSince
  <2>3. CASE status' = "reading"
    BY <1>2, <2>1, <2>2, <2>3, StrictGoesOn DEF StrictInv
  <2>4. CASE status' = "end" /\ status = "reading"
    BY <1>2, <2>1, <2>2, <2>4, StrictEnds DEF StrictInv
  <2>5. CASE status # "reading"
    <3>1. UNCHANGED vars
      BY <1>2, <2>5 DEF Next, ParseSiteInfo, ParsePage, Either, OpenInSite, EmptyInSite, TextInSite, EndSite,
                EofInSite, CloseOther, Open, EmptyElement, PageText, OtherText, EndRevision, EndPage,
                Eof, Panic, Fail, PassOver, RejectEnd, Reads, Finished
    <3> QED
      BY <1>1, <3>1
  <2>6. CASE status' \notin {"reading", "end"}
    BY <2>6 DEF StrictInv
  <2> QED
    BY <2>3, <2>4, <2>5, <2>6
<1> QED
  BY <1>1, <1>2

(***************************************************************************)
(* With "strict" the parser ends normally only where the stream properly   *)
(* ends, and only if none of the events it has read has a fault: nothing   *)
(* malformed, no namespace without a key, no wrong end tag, and no         *)
(* revision that ended without a mandatory field is passed over.           *)
(***************************************************************************)
StrictEndsWell ==
  Strict /\ status = "end" =>
    \A f : Opens(f, pos) => ProperEnd(f, pos) /\ \A m \in 1 .. pos : ~Fault(source.events, f, m)

(***************************************************************************)
(* A stream that is marked as unsound has a fault before every place where *)
(* it may properly end.                                                    *)
(***************************************************************************)
UnsoundIsFaulty ==
  Strict /\ ~source.sound =>
    \A n \in Nat : \A f : Opens(f, n) /\ ProperEnd(f, n) => \E m \in 1 .. n : Fault(source.events, f, m)

LEMMA UnsoundStays ==
  ASSUME UnsoundIsFaulty, IInv, [Next]_vars
  PROVE  UnsoundIsFaulty'
<1>1. source' = source
  BY DEF Next, ParseSiteInfo, ParsePage, Either, OpenInSite, EmptyInSite, TextInSite, EndSite,
         EofInSite, CloseOther, Open, EmptyElement, PageText, OtherText, EndRevision, EndPage,
         Eof, Panic, Fail, PassOver, RejectEnd, Reads, Finished, vars
<1>2. /\ Strict' <=> Strict
      /\ \A f, n : Opens(f, n)' <=> Opens(f, n)
      /\ \A f, n : ProperEnd(f, n)' <=> ProperEnd(f, n)
      /\ \A f, m : Fault(source.events, f, m)' <=> Fault(source.events, f, m)
  BY <1>1 DEF Strict, Opens, ProperEnd, Fault, Incomplete, RevisionSince, InPages
<1> QED
  BY <1>1, <1>2 DEF UnsoundIsFaulty

LEMMA StrictHolds == NamespacesNumbered /\ Spec => [](IInv /\ StrictInv)
<1> DEFINE Inv == IInv /\ NamespacesNumbered /\ SingleStage /\ PathInv /\ StrictInv
<1>1. NamespacesNumbered /\ Init => Inv
  BY InitTypes, PathInit, StrictInit
<1>2. Inv /\ [Next]_vars => Inv'
  BY TypeStep, PathStep, StrictStep
<1> QED
  BY <1>1, <1>2, PTL DEF Spec

\* A program with "strict" that comes to a clean end has passed over nothing wrong.
THEOREM StrictIsStrict == NamespacesNumbered /\ Spec => []StrictEndsWell
<1>1. StrictInv => StrictEndsWell
  BY DEF StrictInv, StrictEndsWell
<1> QED
  BY <1>1, StrictHolds, PTL

(***************************************************************************)
(* So a stream that is not structured as an export has to be makes it      *)
(* abort.                                                                  *)
(***************************************************************************)
THEOREM StrictlyAborts == NamespacesNumbered /\ UnsoundIsFaulty /\ Spec => []StrictAborts
<1> DEFINE Inv == UnsoundIsFaulty /\ IInv /\ StrictInv
<1>1. Inv => StrictAborts
  <2> SUFFICES ASSUME Inv, Strict, ~source.sound, status = "end" PROVE FALSE
    BY DEF StrictAborts
  <2>1. pos \in Nat
    BY StreamAssumption, LenProperties DEF IInv, AtEvent
  <2>2. PICK f : Opens(f, pos)
    BY <2>1, OpensExists
  <2>3. ProperEnd(f, pos) /\ \A m \in 1 .. pos : ~Fault(source.events, f, m)
    BY <2>2 DEF StrictInv
  <2> QED
    BY <2>1, <2>2, <2>3 DEF UnsoundIsFaulty
<1>2. UnsoundIsFaulty /\ IInv /\ [Next]_vars => UnsoundIsFaulty'
  BY UnsoundStays
<1> QED
  BY <1>1, <1>2, StrictHolds, PTL DEF Spec

-----------------------------------------------------------------------------
(* The site info                                                           *)

\* The events of a site info before its namespaces.
Preamble(site) ==
  <<Start("mediawiki", NoAttribute), Start("siteinfo", NoAttribute)>>
  \o Field("dbname", site.dbname) \o UnknownElement \o <<Start("namespaces", NoAttribute)>>

\* A site info has a number for every namespace without a name, and one name for
\* every number.
IsSite(site) ==
  /\ site.namespaces \in Seq([key : Text, name : Text])
  /\ \A i \in DOMAIN site.namespaces :
       site.namespaces[i].name = <<>> => site.namespaces[i].key \in Numbers
  /\ \A i, j \in DOMAIN site.namespaces :
       site.namespaces[i].key = site.namespaces[j].key
         => site.namespaces[i].name = site.namespaces[j].name

\* e stands where a document has d: an end tag may be misspelled, and the stream damaged.
StandsFor(e, d) == e = d \/ e.kind = "malformed" \/ (e.kind = "end" /\ d.kind = "end")

\* From place at on, as far as they go, the events are those of a part of a document.
HasAt(events, at, part) ==
  \A i \in 1 .. Len(part) : at + i - 1 <= Len(events) => StandsFor(events[at + i - 1], part[i])

\* The k-th namespace is at place at[k], and behind the last one both elements are closed.
WrittenAt(events, site, at) ==
  LET n == Len(site.namespaces)
  IN /\ at \in [1 .. n + 1 -> Nat] /\ at[1] = 12
     /\ \A k \in 1 .. n : at[k + 1] = at[k] + Len(NamespaceEvents(site.namespaces[k]))
     /\ HasAt(events, 1, Preamble(site))
     /\ \A k \in 1 .. n : HasAt(events, at[k], NamespaceEvents(site.namespaces[k]))
     /\ HasAt(events, at[n + 1], <<End("namespaces"), End("siteinfo")>>)

(***************************************************************************)
(* The stream is that of a document with the site info it means, cut off,  *)
(* damaged or with misspelled end tags; or that of a single page.  What    *)
(* stands for a namespace without a key is no number.                      *)
(***************************************************************************)
SiteIsWritten ==
  /\ <<"ignored">> \notin Numbers /\ MissingKey \notin Numbers
  /\ IF source.single THEN source.site = [dbname |-> <<>>, namespaces |-> <<>>]
     ELSE \E site, at : IsSite(site) /\ WrittenAt(source.events, site, at) /\ source.site = SiteMeaning(site)

\* Sequences that are written out, joined.
LEMMA ElementOfOne ==
  ASSUME NEW a, NEW b, NEW c
  PROVE  <<a>> \o <<b>> \o <<c>> = <<a, b, c>>
<1> DEFINE S == {a, b, c}
<1>1. a \in S /\ b \in S /\ c \in S
  OBVIOUS
<1> HIDE DEF S
<1>2. <<a>> \in Seq(S) /\ <<b>> \in Seq(S) /\ <<c>> \in Seq(S) /\ <<a, b, c>> \in Seq(S)
  BY <1>1
<1>3. (<<a>> \o <<b>> \o <<c>>) \in Seq(S) /\ Len(<<a>> \o <<b>> \o <<c>>) = 3
  BY <1>2
<1>4. \A i \in 1 .. 3 : (<<a>> \o <<b>> \o <<c>>)[i] = <<a, b, c>>[i]
  BY <1>2
<1> QED
  BY <1>2, <1>3, <1>4, SeqEqual

LEMMA ElementOfThree ==
  ASSUME NEW a, NEW b, NEW c, NEW d, NEW e
  PROVE  <<a>> \o <<b, c, d>> \o <<e>> = <<a, b, c, d, e>>
<1> DEFINE S == {a, b, c, d, e}
<1>1. a \in S /\ b \in S /\ c \in S /\ d \in S /\ e \in S
  OBVIOUS
<1> HIDE DEF S
<1>2. <<a>> \in Seq(S) /\ <<b, c, d>> \in Seq(S) /\ <<e>> \in Seq(S) /\ <<a, b, c, d, e>> \in Seq(S)
  BY <1>1
<1>3. (<<a>> \o <<b, c, d>> \o <<e>>) \in Seq(S) /\ Len(<<a>> \o <<b, c, d>> \o <<e>>) = 5
  BY <1>2
<1>4. \A i \in 1 .. 5 : (<<a>> \o <<b, c, d>> \o <<e>>)[i] = <<a, b, c, d, e>>[i]
  BY <1>2
<1> QED
  BY <1>2, <1>3, <1>4, SeqEqual

LEMMA FieldIs ==
  ASSUME NEW name, NEW text
  PROVE  Field(name, text) = <<Start(name, NoAttribute), Piece(text), End(name)>>
BY ElementOfOne, Zenon DEF Field, Element

LEMMA UnknownIs ==
  UnknownElement = <<Start("unknown", NoAttribute), Reference("lt"), Piece(<<"space">>),
                     Empty("unknown", NoAttribute), End("unknown")>>
BY ElementOfThree, Zenon DEF UnknownElement, Element

LEMMA PreambleIs ==
  ASSUME NEW site
  PROVE  Preamble(site) =
           <<Start("mediawiki", NoAttribute), Start("siteinfo", NoAttribute),
             Start("dbname", NoAttribute), Piece(site.dbname), End("dbname"),
             Start("unknown", NoAttribute), Reference("lt"), Piece(<<"space">>),
             Empty("unknown", NoAttribute), End("unknown"), Start("namespaces", NoAttribute)>>
<1> DEFINE a == Start("mediawiki", NoAttribute)
           b == Start("siteinfo", NoAttribute)
           c == Start("dbname", NoAttribute)
           d == Piece(site.dbname)
           e == End("dbname")
           f == Start("unknown", NoAttribute)
           g == Reference("lt")
           h == Piece(<<"space">>)
           i == Empty("unknown", NoAttribute)
           j == End("unknown")
           k == Start("namespaces", NoAttribute)
           S == {a, b, c, d, e, f, g, h, i, j, k}
           s == <<a, b>> \o <<c, d, e>> \o <<f, g, h, i, j>> \o <<k>>
           t == <<a, b, c, d, e, f, g, h, i, j, k>>
<1>1. Field("dbname", site.dbname) = <<c, d, e>>
  BY FieldIs, Zenon
<1>2. Preamble(site) = s
  BY <1>1, UnknownIs, Zenon DEF Preamble
<1>3. /\ a \in S /\ b \in S /\ c \in S /\ d \in S /\ e \in S
      /\ f \in S /\ g \in S /\ h \in S /\ i \in S /\ j \in S /\ k \in S
  OBVIOUS
<1> HIDE DEF S, a, b, c, d, e, f, g, h, i, j, k
<1>4. /\ <<a, b>> \in Seq(S) /\ <<c, d, e>> \in Seq(S) /\ <<f, g, h, i, j>> \in Seq(S) /\ <<k>> \in Seq(S)
      /\ t \in Seq(S)
  BY <1>3
<1>5. s \in Seq(S) /\ Len(s) = 11
  BY <1>4
<1>6. \A n \in 1 .. 11 : s[n] = t[n]
  BY <1>4
<1>7. s = t
  BY <1>4, <1>5, <1>6, SeqEqual
<1> HIDE DEF s, t
<1>8. Preamble(site) = t
  BY <1>2, <1>7
<1> QED
  BY <1>8, Zenon DEF t, a, b, c, d, e, f, g, h, i, j, k

LEMMA NamespaceIs ==
  ASSUME NEW n
  PROVE  NamespaceEvents(n) =
           IF n.name = <<>> THEN <<Empty("namespace", n.key)>>
           ELSE <<Start("namespace", n.key), Piece(n.name), End("namespace")>>
BY ElementOfOne, Zenon DEF NamespaceEvents, Element

\* What an event does to the site info and to where in the stream the parser is.
LEMMA SiteFollows ==
  ASSUME IInv, NamespacesNumbered, SingleStage, Next, stage = "parse_site_info", status' = "reading"
  PROVE  /\ stage' = IF event.kind = "end" /\ Path # <<>> /\ Last(Path) = "siteinfo"
                     THEN "parse_page" ELSE stage
         /\ event.kind # "malformed"
         /\ event.kind = "start" => current_path' = Append(current_path, Tag) /\ UNCHANGED site_info
         /\ event.kind = "empty" =>
              site_info' = IF Append(Path, event.name) = NamespacePath
                           THEN WithNamespace(event.attr, <<>>) ELSE site_info
         /\ event.kind = "text" =>
              /\ UNCHANGED current_path
              /\ site_info' =
                   CASE Path = <<"mediawiki", "siteinfo", "dbname">> -> [site_info EXCEPT !.dbname = event.text]
                     [] Path = NamespacePath /\ Last(current_path).attr \in Numbers ->
                          WithNamespace(Last(current_path).attr, event.text)
                     [] OTHER -> site_info
         /\ event.kind \in {"end", "reference"} => UNCHANGED site_info
<1>1. current_path \in Seq([name : Name, attr : Text])
  BY DEF IInv, PathType
<1>2. (Path = <<>> <=> current_path = <<>>) /\ (current_path # <<>> => Last(Path) = Last(current_path).name)
  BY <1>1, PathIs, Names, LastName
<1>3. \/ OpenInSite \/ EmptyInSite \/ TextInSite \/ EndSite \/ CloseOther("parse_site_info", {"siteinfo"})
      \/ PassOver("parse_site_info")
  <2>1. ~ParsePage
    BY DEF ParsePage, Open, EmptyElement, PageText, OtherText, EndRevision, EndPage, Eof, CloseOther, Reads
  <2>2. ~Either("parse_page")
    BY DEF Either, Panic, Fail, PassOver, RejectEnd, Reads
  <2>3. Either("parse_site_info") => PassOver("parse_site_info")
    BY DEF Either, Panic, Fail, RejectEnd
  <2>4. ~EofInSite /\ ~Finished
    BY DEF EofInSite, Finished, vars
  <2> QED
    BY <2>1, <2>2, <2>3, <2>4 DEF Next, ParseSiteInfo
<1>4. CASE OpenInSite
  BY <1>4 DEF OpenInSite, Reads, siteVars
<1>5. CASE EmptyInSite
  <2>1. Reads("parse_site_info", "empty") /\ stage' = stage
    BY <1>5 DEF EmptyInSite
  <2>2. /\ pos' \in DOMAIN source.events /\ event = source.events[pos'] /\ event.name \in Name
        /\ event.kind = "empty"
    BY <2>1, ReadsEvent DEF event, Reads
  <2>3. ~source.single
    BY DEF SingleStage
  <2>4. Append(Path, event.name) = NamespacePath => event.attr \in Numbers /\ Tag.attr = event.attr
    <3>1. Path \in Seq(Name)
      BY <1>1, PathIs, Names
    <3> SUFFICES ASSUME Append(Path, event.name) = NamespacePath
                 PROVE  event.attr \in Numbers /\ Tag.attr = event.attr
      OBVIOUS
    <3>2. event.name = "namespace"
      BY <2>2, <3>1, AtNamespace
    <3>3. event.attr \in Numbers \ {MissingKey}
      BY <2>2, <2>3, <3>2 DEF NamespacesNumbered
    <3> QED
      BY <3>3 DEF Tag
  <2> QED
    BY <1>5, <2>1, <2>2, <2>4 DEF EmptyInSite
<1>6. CASE TextInSite
  <2>1. event.kind = "text" /\ UNCHANGED <<stage, current_path>>
    BY <1>6 DEF TextInSite, Reads
  <2> QED
    BY <1>6, <2>1 DEF TextInSite
<1>7. CASE EndSite
  BY <1>2, <1>7 DEF EndSite, Closes, Reads
<1>8. CASE CloseOther("parse_site_info", {"siteinfo"})
  <2>1. event.kind = "end" /\ UNCHANGED <<stage, site_info>> /\ ~Closes("siteinfo") /\ ~(Strict /\ Mismatched)
    BY <1>8 DEF CloseOther, Reads, siteVars
  <2>2. ~(Path # <<>> /\ Last(Path) = "siteinfo")
    BY <1>2, <2>1 DEF Closes
  <2> QED
    BY <2>1, <2>2
<1>9. CASE PassOver("parse_site_info")
  BY <1>9 DEF PassOver, Reads, siteVars
<1> QED
  BY <1>3, <1>4, <1>5, <1>6, <1>7, <1>8, <1>9

\* Behind the site info nothing changes it.
LEMMA SiteStays ==
  ASSUME IInv, Next
  PROVE  /\ source' = source
         /\ stage = "parse_page" => stage' = "parse_page" /\ site_info' = site_info
         /\ status' # "reading" => stage' = stage
<1>1. source' = source
  BY DEF Next, ParseSiteInfo, ParsePage, Either, OpenInSite, EmptyInSite, TextInSite, EndSite,
         EofInSite, CloseOther, Open, EmptyElement, PageText, OtherText, EndRevision, EndPage,
         Eof, Panic, Fail, PassOver, RejectEnd, Reads, Finished, vars
<1>2. stage = "parse_page" => stage' = "parse_page" /\ site_info' = site_info
  BY DEF Next, ParseSiteInfo, ParsePage, Either, OpenInSite, EmptyInSite, TextInSite, EndSite,
         EofInSite, CloseOther, Open, EmptyElement, PageText, OtherText, EndRevision, EndPage,
         Eof, Panic, Fail, PassOver, RejectEnd, Reads, Finished, vars, siteVars
<1>3. status' # "reading" => stage' = stage
  BY DEF Next, ParseSiteInfo, ParsePage, Either, OpenInSite, EmptyInSite, TextInSite, EndSite,
         EofInSite, CloseOther, Open, EmptyElement, PageText, OtherText, EndRevision, EndPage,
         Eof, Panic, Fail, PassOver, RejectEnd, Reads, Finished, vars, siteVars
<1> QED
  BY <1>1, <1>2, <1>3

-----------------------------------------------------------------------------
(* Where in the site info the parser is, and what it has noted by then     *)

InDump == <<"mediawiki", "siteinfo">>
InNamespaces == <<"mediawiki", "siteinfo", "namespaces">>

\* The elements that are open after p events of the preamble.
PreamblePath(p) ==
  CASE p = 0 -> <<>>
    [] p = 1 -> <<"mediawiki">>
    [] p \in {2, 5, 10} -> InDump
    [] p \in {3, 4} -> <<"mediawiki", "siteinfo", "dbname">>
    [] p \in 6 .. 9 -> <<"mediawiki", "siteinfo", "unknown">>
    [] OTHER -> InNamespaces

\* The first k namespaces are noted.
Noted(site, k) ==
  LET numbered == {i \in 1 .. k : site.namespaces[i].key \in Numbers}
      names == site_info.namespaces
  IN /\ names = [key \in {site.namespaces[i].key : i \in numbered} |-> names[key]]
     /\ \A i \in numbered : names[site.namespaces[i].key] = site.namespaces[i].name

\* from_start_bytes: the key that is kept with the element of a namespace.
KeyOf(n) == IF n.key = MissingKey THEN <<"ignored">> ELSE n.key

\* The places in the site info: in its preamble, before, in and behind the text of a
\* namespace, and behind the last one.
SitePlace(site, at) ==
  LET n == Len(site.namespaces)
      ns == site.namespaces
  IN \/ /\ pos <= 10 /\ Path = PreamblePath(pos) /\ Noted(site, 0)
        /\ site_info.dbname = IF pos < 4 THEN <<>> ELSE site.dbname
     \/ /\ site_info.dbname = site.dbname
        /\ \/ \E k \in 1 .. n + 1 : pos = at[k] - 1 /\ Path = InNamespaces /\ Noted(site, k - 1)
           \/ \E k \in 1 .. n : /\ pos = at[k] /\ ns[k].name # <<>> /\ Path = NamespacePath
                                /\ Last(current_path).attr = KeyOf(ns[k]) /\ Noted(site, k - 1)
           \/ \E k \in 1 .. n : /\ pos = at[k] + 1 /\ ns[k].name # <<>> /\ Path = NamespacePath
                                /\ Noted(site, k)
           \/ pos = at[n + 1] /\ Path = InDump /\ Noted(site, n)

\* What has been noted in the end is what the site info means.
LEMMA NotedAll ==
  ASSUME SiteType, NEW site, IsSite(site), Noted(site, Len(site.namespaces)), site_info.dbname = site.dbname
  PROVE  site_info = SiteMeaning(site)
<1> DEFINE ns == site.namespaces
           numbered == {i \in 1 .. Len(ns) : ns[i].key \in Numbers}
           keys == {ns[i].key : i \in numbered}
           meant == [key \in keys |-> ns[CHOOSE i \in numbered : ns[i].key = key].name]
<1>1. DOMAIN ns = 1 .. Len(ns) /\ Len(ns) \in Nat
  BY LenProperties DEF IsSite
<1>2. SiteMeaning(site) = [dbname |-> site.dbname, namespaces |-> meant]
  BY <1>1 DEF SiteMeaning
<1>3. /\ site_info.namespaces = [key \in keys |-> site_info.namespaces[key]]
      /\ \A i \in numbered : site_info.namespaces[ns[i].key] = ns[i].name
  BY DEF Noted
<1>4. ASSUME NEW key \in keys PROVE site_info.namespaces[key] = meant[key]
  <2> DEFINE i == CHOOSE i \in numbered : ns[i].key = key
  <2>1. i \in numbered /\ ns[i].key = key
    BY <1>4
  <2>2. meant[key] = ns[i].name
    BY <1>4
  <2> HIDE DEF i, meant, numbered
  <2> QED
    BY <1>3, <2>1, <2>2
<1>5. site_info = [dbname |-> site_info.dbname, namespaces |-> site_info.namespaces]
  BY DEF SiteType
<1>6. site_info.namespaces = meant
  <2>1. meant = [key \in keys |-> meant[key]]
    OBVIOUS
  <2> HIDE DEF meant, keys
  <2>2. [key \in keys |-> site_info.namespaces[key]] = [key \in keys |-> meant[key]]
    BY <1>4
  <2> QED
    BY <1>3, <2>1, <2>2
<1> HIDE DEF meant
<1> QED
  BY <1>2, <1>5, <1>6

\* Appending a name to a path leaves the names before it.
LEMMA AppendKeeps ==
  ASSUME NEW S, NEW path \in Seq(S), NEW name \in S, NEW i \in 1 .. Len(path)
  PROVE  Append(path, name)[i] = path[i]
BY AppendProperties

\* Paths that are written out, one element longer or shorter.
LEMMA Lengthened ==
  ASSUME NEW a, NEW b, NEW c, NEW d
  PROVE  /\ Append(<<>>, a) = <<a>> /\ Append(<<a>>, b) = <<a, b>>
         /\ Append(<<a, b>>, c) = <<a, b, c>> /\ Append(<<a, b, c>>, d) = <<a, b, c, d>>
<1> DEFINE S == {a, b, c, d}
<1>1. a \in S /\ b \in S /\ c \in S /\ d \in S
  OBVIOUS
<1> HIDE DEF S
<1>2. ASSUME NEW s \in Seq(S), NEW e \in S, NEW t \in Seq(S), Len(t) = Len(s) + 1,
             \A i \in 1 .. Len(s) : t[i] = s[i], t[Len(s) + 1] = e
      PROVE  Append(s, e) = t
  <2>1. /\ Append(s, e) \in Seq(S) /\ Len(Append(s, e)) = Len(s) + 1
        /\ \A i \in 1 .. Len(s) : Append(s, e)[i] = s[i]
        /\ Append(s, e)[Len(s) + 1] = e
    BY <1>2, AppendProperties
  <2>2. Len(s) \in Nat
    BY <1>2, LenProperties
  <2>3. \A i \in 1 .. Len(t) : Append(s, e)[i] = t[i]
    BY <1>2, <2>1, <2>2
  <2> QED
    BY <1>2, <2>1, <2>3, SeqEqual
<1>3. /\ <<>> \in Seq(S) /\ <<a>> \in Seq(S) /\ <<a, b>> \in Seq(S)
      /\ <<a, b, c>> \in Seq(S) /\ <<a, b, c, d>> \in Seq(S)
  BY <1>1
<1>4. Append(<<>>, a) = <<a>>
  BY <1>1, <1>2, <1>3
<1>5. Append(<<a>>, b) = <<a, b>>
  <2> DEFINE s == <<a>>
             t == <<a, b>>
  <2>1. s \in Seq(S) /\ t \in Seq(S) /\ Len(s) = 1 /\ Len(t) = 2 /\ t[2] = b
    BY <1>3
  <2>2. \A i \in 1 .. 1 : t[i] = s[i]
    OBVIOUS
  <2> HIDE DEF s, t
  <2>3. Len(t) = Len(s) + 1 /\ (\A i \in 1 .. Len(s) : t[i] = s[i]) /\ t[Len(s) + 1] = b
    BY <2>1, <2>2
  <2>4. Append(s, b) = t
    BY <1>1, <1>2, <2>1, <2>3, Zenon
  <2> QED
    BY <2>4 DEF s, t
<1>6. Append(<<a, b>>, c) = <<a, b, c>>
  <2> DEFINE s == <<a, b>>
             t == <<a, b, c>>
  <2>1. s \in Seq(S) /\ t \in Seq(S) /\ Len(s) = 2 /\ Len(t) = 3 /\ t[3] = c
    BY <1>3
  <2>2. \A i \in 1 .. 2 : t[i] = s[i]
    OBVIOUS
  <2> HIDE DEF s, t
  <2>3. Len(t) = Len(s) + 1 /\ (\A i \in 1 .. Len(s) : t[i] = s[i]) /\ t[Len(s) + 1] = c
    BY <2>1, <2>2
  <2>4. Append(s, c) = t
    BY <1>1, <1>2, <2>1, <2>3, Zenon
  <2> QED
    BY <2>4 DEF s, t
<1>7. Append(<<a, b, c>>, d) = <<a, b, c, d>>
  <2> DEFINE s == <<a, b, c>>
             t == <<a, b, c, d>>
  <2>1. s \in Seq(S) /\ t \in Seq(S) /\ Len(s) = 3 /\ Len(t) = 4 /\ t[4] = d
    BY <1>3
  <2>2. \A i \in 1 .. 3 : t[i] = s[i]
    OBVIOUS
  <2> HIDE DEF s, t
  <2>3. Len(t) = Len(s) + 1 /\ (\A i \in 1 .. Len(s) : t[i] = s[i]) /\ t[Len(s) + 1] = d
    BY <2>1, <2>2
  <2>4. Append(s, d) = t
    BY <1>1, <1>2, <2>1, <2>3, Zenon
  <2> QED
    BY <2>4 DEF s, t
<1> QED
  BY <1>4, <1>5, <1>6, <1>7

LEMMA Shortened ==
  ASSUME NEW a, NEW b, NEW c, NEW d
  PROVE  Front(<<a, b, c>>) = <<a, b>> /\ Front(<<a, b, c, d>>) = <<a, b, c>>
<1> DEFINE S == {a, b, c, d}
<1>1. a \in S /\ b \in S /\ c \in S /\ d \in S
  OBVIOUS
<1> HIDE DEF S
<1>2. /\ <<a, b>> \in Seq(S) /\ <<a, b, c>> \in Seq(S) /\ <<a, b, c, d>> \in Seq(S)
  BY <1>1
<1>3. ASSUME NEW s \in Seq(S), NEW t \in Seq(S), s # <<>>, Len(s) = Len(t) + 1, \A i \in 1 .. Len(t) : t[i] = s[i]
      PROVE  Front(s) = t
  <2>1. Len(s) \in Nat /\ Len(t) \in Nat /\ Len(s) - 1 = Len(t)
    BY <1>3, LenProperties
  <2>2. /\ DOMAIN Front(s) = 1 .. Len(s) - 1 /\ Front(s) \in Seq(S)
        /\ \A i \in 1 .. Len(s) - 1 : Front(s)[i] = s[i]
    BY <1>3, FrontIn
  <2>3. Len(Front(s)) = Len(t)
    BY <2>1, <2>2, LenProperties
  <2> QED
    BY <1>3, <2>1, <2>2, <2>3, SeqEqual
<1>4. Front(<<a, b, c>>) = <<a, b>>
  <2> DEFINE s == <<a, b, c>>
             t == <<a, b>>
  <2>1. s \in Seq(S) /\ t \in Seq(S) /\ Len(s) = 3 /\ Len(t) = 2 /\ s # <<>>
    BY <1>2
  <2>2. \A i \in 1 .. 2 : t[i] = s[i]
    OBVIOUS
  <2> HIDE DEF s, t
  <2>3. Len(s) = Len(t) + 1 /\ \A i \in 1 .. Len(t) : t[i] = s[i]
    BY <2>1, <2>2
  <2>4. Front(s) = t
    BY <1>3, <2>1, <2>3, Zenon
  <2> QED
    BY <2>4 DEF s, t
<1>5. Front(<<a, b, c, d>>) = <<a, b, c>>
  <2> DEFINE s == <<a, b, c, d>>
             t == <<a, b, c>>
  <2>1. s \in Seq(S) /\ t \in Seq(S) /\ Len(s) = 4 /\ Len(t) = 3 /\ s # <<>>
    BY <1>2
  <2>2. \A i \in 1 .. 3 : t[i] = s[i]
    OBVIOUS
  <2> HIDE DEF s, t
  <2>3. Len(s) = Len(t) + 1 /\ \A i \in 1 .. Len(t) : t[i] = s[i]
    BY <2>1, <2>2
  <2>4. Front(s) = t
    BY <1>3, <2>1, <2>3, Zenon
  <2> QED
    BY <2>4 DEF s, t
<1> QED
  BY <1>4, <1>5

\* A namespace with a number is noted.
LEMMA NotedNext ==
  ASSUME SiteType, NEW site, NEW k \in 1 .. Len(site.namespaces), IsSite(site), Noted(site, k - 1),
         \/ /\ site.namespaces[k].key \in Numbers
            /\ site_info' = WithNamespace(site.namespaces[k].key, site.namespaces[k].name)
         \/ site.namespaces[k].key \notin Numbers /\ site_info' = site_info
  PROVE  Noted(site, k)' /\ site_info'.dbname = site_info.dbname
<1> DEFINE ns == site.namespaces
           Numbered(j) == {i \in 1 .. j : ns[i].key \in Numbers}
           Keys(j) == {ns[i].key : i \in Numbered(j)}
           names == site_info.namespaces
<1>1. k \in Nat /\ k - 1 \in Nat /\ \A i : i \in 1 .. k <=> i \in 1 .. k - 1 \/ i = k
  BY LenProperties DEF IsSite
<1>2. names = [key \in Keys(k - 1) |-> names[key]] /\ \A i \in Numbered(k - 1) : names[ns[i].key] = ns[i].name
  BY DEF Noted
<1>3. SUFFICES /\ site_info'.namespaces = [key \in Keys(k) |-> site_info'.namespaces[key]]
               /\ \A i \in Numbered(k) : site_info'.namespaces[ns[i].key] = ns[i].name
               /\ site_info'.dbname = site_info.dbname
  BY DEF Noted
<1>4. CASE ns[k].key \in Numbers /\ site_info' = WithNamespace(ns[k].key, ns[k].name)
  <2>1. Keys(k) = Keys(k - 1) \cup {ns[k].key}
    BY <1>1, <1>4
  <2>2. DOMAIN names = Keys(k - 1)
    BY <1>2
  <2>3. /\ site_info'.dbname = site_info.dbname
        /\ site_info'.namespaces = [key \in DOMAIN names \cup {ns[k].key} |->
                                      IF key = ns[k].key THEN ns[k].name ELSE names[key]]
    BY <1>4 DEF SiteType, WithNamespace
  <2>4. site_info'.namespaces = [key \in Keys(k) |-> IF key = ns[k].key THEN ns[k].name ELSE names[key]]
    BY <2>1, <2>2, <2>3
  <2>5. ASSUME NEW i \in Numbered(k) PROVE site_info'.namespaces[ns[i].key] = ns[i].name
    <3>1. ns[i].key \in Keys(k)
      BY <2>5
    <3>2. CASE ns[i].key = ns[k].key
      <4>1. i \in DOMAIN ns /\ k \in DOMAIN ns
        BY <1>1, <2>5, LenProperties DEF IsSite
      <4>2. ns[i].name = ns[k].name
        BY <3>2, <4>1 DEF IsSite
      <4> QED
        BY <2>4, <3>1, <3>2, <4>2
    <3>3. CASE ns[i].key # ns[k].key
      <4>1. i \in Numbered(k - 1)
        BY <1>1, <2>5, <3>3
      <4> HIDE DEF Numbered, Keys
      <4> QED
        BY <1>2, <2>4, <3>1, <3>3, <4>1
    <3> QED
      BY <3>2, <3>3
  <2> HIDE DEF Keys, Numbered
  <2>6. site_info'.namespaces = [key \in Keys(k) |-> site_info'.namespaces[key]]
    BY <2>4
  <2> QED
    BY <2>3, <2>5, <2>6
<1>5. CASE ns[k].key \notin Numbers /\ site_info' = site_info
  <2>1. Numbered(k) = Numbered(k - 1)
    BY <1>1, <1>5
  <2> QED
    BY <1>2, <1>5, <2>1
<1> QED
  BY <1>4, <1>5

LEMMA EventsAre ==
  /\ \A name, attr : /\ Start(name, attr).kind = "start" /\ Start(name, attr).name = name
                     /\ Start(name, attr).attr = attr
  /\ \A name, attr : /\ Empty(name, attr).kind = "empty" /\ Empty(name, attr).name = name
                     /\ Empty(name, attr).attr = attr
  /\ \A name : End(name).kind = "end"
  /\ \A text : Piece(text).kind = "text" /\ Piece(text).text = text
  /\ \A symbol : Reference(symbol).kind = "reference"
BY Zenon DEF Start, Empty, End, Piece, Reference, Event

LEMMA PreambleAt ==
  ASSUME NEW site
  PROVE  /\ Preamble(site)[1] = Start("mediawiki", NoAttribute)
         /\ Preamble(site)[2] = Start("siteinfo", NoAttribute)
         /\ Preamble(site)[3] = Start("dbname", NoAttribute)
         /\ Preamble(site)[4] = Piece(site.dbname)
         /\ Preamble(site)[5] = End("dbname")
         /\ Preamble(site)[6] = Start("unknown", NoAttribute)
         /\ Preamble(site)[7] = Reference("lt")
         /\ Preamble(site)[8] = Piece(<<"space">>)
         /\ Preamble(site)[9] = Empty("unknown", NoAttribute)
         /\ Preamble(site)[10] = End("unknown")
         /\ Preamble(site)[11] = Start("namespaces", NoAttribute)
BY PreambleIs

\* The kinds of the events of the preamble, the elements they open, and the name of the wiki.
LEMMA PreambleKinds ==
  ASSUME NEW site
  PROVE  /\ Preamble(site)[1].kind = "start" /\ Preamble(site)[1].name = "mediawiki"
         /\ Preamble(site)[2].kind = "start" /\ Preamble(site)[2].name = "siteinfo"
         /\ Preamble(site)[3].kind = "start" /\ Preamble(site)[3].name = "dbname"
         /\ Preamble(site)[4].kind = "text" /\ Preamble(site)[4].text = site.dbname
         /\ Preamble(site)[5].kind = "end"
         /\ Preamble(site)[6].kind = "start" /\ Preamble(site)[6].name = "unknown"
         /\ Preamble(site)[7].kind = "reference"
         /\ Preamble(site)[8].kind = "text"
         /\ Preamble(site)[9].kind = "empty" /\ Preamble(site)[9].name = "unknown"
         /\ Preamble(site)[10].kind = "end"
         /\ Preamble(site)[11].kind = "start" /\ Preamble(site)[11].name = "namespaces"
<1>1. Preamble(site)[1].kind = "start" /\ Preamble(site)[1].name = "mediawiki"
  <2>1. Preamble(site)[1] = Start("mediawiki", NoAttribute)
    BY PreambleAt
  <2>2. Start("mediawiki", NoAttribute).kind = "start" /\ Start("mediawiki", NoAttribute).name = "mediawiki"
    BY EventsAre
  <2> QED
    BY <2>1, <2>2
<1>2. Preamble(site)[2].kind = "start" /\ Preamble(site)[2].name = "siteinfo"
  <2>1. Preamble(site)[2] = Start("siteinfo", NoAttribute)
    BY PreambleAt
  <2>2. Start("siteinfo", NoAttribute).kind = "start" /\ Start("siteinfo", NoAttribute).name = "siteinfo"
    BY EventsAre
  <2> QED
    BY <2>1, <2>2
<1>3. Preamble(site)[3].kind = "start" /\ Preamble(site)[3].name = "dbname"
  <2>1. Preamble(site)[3] = Start("dbname", NoAttribute)
    BY PreambleAt
  <2>2. Start("dbname", NoAttribute).kind = "start" /\ Start("dbname", NoAttribute).name = "dbname"
    BY EventsAre
  <2> QED
    BY <2>1, <2>2
<1>4. Preamble(site)[4].kind = "text" /\ Preamble(site)[4].text = site.dbname
  <2>1. Preamble(site)[4] = Piece(site.dbname)
    BY PreambleAt
  <2>2. Piece(site.dbname).kind = "text" /\ Piece(site.dbname).text = site.dbname
    BY EventsAre
  <2> QED
    BY <2>1, <2>2
<1>5. Preamble(site)[5].kind = "end"
  <2>1. Preamble(site)[5] = End("dbname")
    BY PreambleAt
  <2>2. End("dbname").kind = "end"
    BY EventsAre
  <2> QED
    BY <2>1, <2>2
<1>6. Preamble(site)[6].kind = "start" /\ Preamble(site)[6].name = "unknown"
  <2>1. Preamble(site)[6] = Start("unknown", NoAttribute)
    BY PreambleAt
  <2>2. Start("unknown", NoAttribute).kind = "start" /\ Start("unknown", NoAttribute).name = "unknown"
    BY EventsAre
  <2> QED
    BY <2>1, <2>2
<1>7. Preamble(site)[7].kind = "reference"
  <2>1. Preamble(site)[7] = Reference("lt")
    BY PreambleAt
  <2>2. Reference("lt").kind = "reference"
    BY EventsAre
  <2> QED
    BY <2>1, <2>2
<1>8. Preamble(site)[8].kind = "text"
  <2>1. Preamble(site)[8] = Piece(<<"space">>)
    BY PreambleAt
  <2>2. Piece(<<"space">>).kind = "text"
    BY EventsAre
  <2> QED
    BY <2>1, <2>2
<1>9. Preamble(site)[9].kind = "empty" /\ Preamble(site)[9].name = "unknown"
  <2>1. Preamble(site)[9] = Empty("unknown", NoAttribute)
    BY PreambleAt
  <2>2. Empty("unknown", NoAttribute).kind = "empty" /\ Empty("unknown", NoAttribute).name = "unknown"
    BY EventsAre
  <2> QED
    BY <2>1, <2>2
<1>10. Preamble(site)[10].kind = "end"
  <2>1. Preamble(site)[10] = End("unknown")
    BY PreambleAt
  <2>2. End("unknown").kind = "end"
    BY EventsAre
  <2> QED
    BY <2>1, <2>2
<1>11. Preamble(site)[11].kind = "start" /\ Preamble(site)[11].name = "namespaces"
  <2>1. Preamble(site)[11] = Start("namespaces", NoAttribute)
    BY PreambleAt
  <2>2. Start("namespaces", NoAttribute).kind = "start" /\ Start("namespaces", NoAttribute).name = "namespaces"
    BY EventsAre
  <2> QED
    BY <2>1, <2>2
<1> QED
  BY <1>1, <1>2, <1>3, <1>4, <1>5, <1>6, <1>7, <1>8, <1>9, <1>10, <1>11

\* What an event of the preamble does to the path, and what it is not taken for.
PreambleGoes(site, p, path, e) ==
  /\ Deeper(path, e) = PreamblePath(p + 1)
  /\ e.kind = "end" => Last(path) # "siteinfo"
  /\ e.kind = "empty" => Append(path, e.name) # NamespacePath
  /\ e.kind = "text" =>
       /\ path # NamespacePath
       /\ \/ p = 3 /\ path = <<"mediawiki", "siteinfo", "dbname">> /\ e.text = site.dbname
          \/ p > 3 /\ path # <<"mediawiki", "siteinfo", "dbname">>
  /\ p < 3 \/ p = 10 => e.kind # "text"
  /\ e.kind \in {"start", "empty", "text", "end", "reference"}
  /\ p = 3 => e.kind = "text"

LEMMA PreambleStep ==
  ASSUME NEW site, NEW p \in 0 .. 10, NEW path, path = PreamblePath(p), NEW e,
         e.kind = Preamble(site)[p + 1].kind,
         Preamble(site)[p + 1].kind # "end" => e = Preamble(site)[p + 1]
  PROVE  PreambleGoes(site, p, path, e)
<1>1. CASE p = 0
  <2>1. p + 1 = 1
    BY <1>1
  <2>2. Preamble(site)[1].kind = "start" /\ Preamble(site)[1].name = "mediawiki"
    BY PreambleKinds
  <2>3. e.kind = "start" /\ e.name = "mediawiki"
    BY <2>1, <2>2
  <2>4. path = <<>> /\ PreamblePath(p + 1) = <<"mediawiki">>
    BY <1>1 DEF PreamblePath, InDump, InNamespaces
  <2>5. Deeper(path, e) = Append(<<>>, "mediawiki")
    BY <2>3, <2>4 DEF Deeper
  <2> QED
    BY <1>1, <2>3, <2>4, <2>5, Lengthened DEF PreambleGoes
<1>2. CASE p = 1
  <2>1. p + 1 = 2
    BY <1>2
  <2>2. Preamble(site)[2].kind = "start" /\ Preamble(site)[2].name = "siteinfo"
    BY PreambleKinds
  <2>3. e.kind = "start" /\ e.name = "siteinfo"
    BY <2>1, <2>2
  <2>4. path = <<"mediawiki">> /\ PreamblePath(p + 1) = <<"mediawiki", "siteinfo">>
    BY <1>2 DEF PreamblePath, InDump, InNamespaces
  <2>5. Deeper(path, e) = Append(<<"mediawiki">>, "siteinfo")
    BY <2>3, <2>4 DEF Deeper
  <2> QED
    BY <1>2, <2>3, <2>4, <2>5, Lengthened DEF PreambleGoes
<1>3. CASE p = 2
  <2>1. p + 1 = 3
    BY <1>3
  <2>2. Preamble(site)[3].kind = "start" /\ Preamble(site)[3].name = "dbname"
    BY PreambleKinds
  <2>3. e.kind = "start" /\ e.name = "dbname"
    BY <2>1, <2>2
  <2>4. path = <<"mediawiki", "siteinfo">> /\ PreamblePath(p + 1) = <<"mediawiki", "siteinfo", "dbname">>
    BY <1>3 DEF PreamblePath, InDump, InNamespaces
  <2>5. Deeper(path, e) = Append(<<"mediawiki", "siteinfo">>, "dbname")
    BY <2>3, <2>4 DEF Deeper
  <2> QED
    BY <1>3, <2>3, <2>4, <2>5, Lengthened DEF PreambleGoes
<1>4. CASE p = 3
  <2>1. p + 1 = 4
    BY <1>4
  <2>2. Preamble(site)[4].kind = "text" /\ Preamble(site)[4].text = site.dbname
    BY PreambleKinds
  <2>3. e.kind = "text" /\ e.text = site.dbname
    BY <2>1, <2>2
  <2>4. path = <<"mediawiki", "siteinfo", "dbname">> /\ PreamblePath(p + 1) = <<"mediawiki", "siteinfo", "dbname">>
    BY <1>4 DEF PreamblePath, InDump, InNamespaces
  <2>5. Deeper(path, e) = path
    BY <2>3 DEF Deeper
  <2>6. path # NamespacePath
    <3>1. Len(path) = 3 /\ Len(NamespacePath) = 4
      BY <2>4 DEF NamespacePath
    <3> QED
      BY <3>1
  <2> QED
    BY <1>4, <2>3, <2>4, <2>5, <2>6 DEF PreambleGoes
<1>5. CASE p = 4
  <2>1. p + 1 = 5
    BY <1>5
  <2>2. Preamble(site)[5].kind = "end"
    BY PreambleKinds
  <2>3. e.kind = "end"
    BY <2>1, <2>2
  <2>4. path = <<"mediawiki", "siteinfo", "dbname">> /\ PreamblePath(p + 1) = <<"mediawiki", "siteinfo">>
    BY <1>5 DEF PreamblePath, InDump, InNamespaces
  <2>5. Deeper(path, e) = Front(<<"mediawiki", "siteinfo", "dbname">>)
    BY <2>3, <2>4 DEF Deeper
  <2>6. Last(path) = "dbname"
    BY <2>4 DEF Last
  <2>7. Deeper(path, e) = <<"mediawiki", "siteinfo">>
    BY <2>5, Shortened
  <2> QED
    BY <1>5, <2>3, <2>4, <2>6, <2>7 DEF PreambleGoes
<1>6. CASE p = 5
  <2>1. p + 1 = 6
    BY <1>6
  <2>2. Preamble(site)[6].kind = "start" /\ Preamble(site)[6].name = "unknown"
    BY PreambleKinds
  <2>3. e.kind = "start" /\ e.name = "unknown"
    BY <2>1, <2>2
  <2>4. path = <<"mediawiki", "siteinfo">> /\ PreamblePath(p + 1) = <<"mediawiki", "siteinfo", "unknown">>
    BY <1>6 DEF PreamblePath, InDump, InNamespaces
  <2>5. Deeper(path, e) = Append(<<"mediawiki", "siteinfo">>, "unknown")
    BY <2>3, <2>4 DEF Deeper
  <2> QED
    BY <1>6, <2>3, <2>4, <2>5, Lengthened DEF PreambleGoes
<1>7. CASE p = 6
  <2>1. p + 1 = 7
    BY <1>7
  <2>2. Preamble(site)[7].kind = "reference"
    BY PreambleKinds
  <2>3. e.kind = "reference"
    BY <2>1, <2>2
  <2>4. path = <<"mediawiki", "siteinfo", "unknown">> /\ PreamblePath(p + 1) = <<"mediawiki", "siteinfo", "unknown">>
    BY <1>7 DEF PreamblePath, InDump, InNamespaces
  <2>5. Deeper(path, e) = path
    BY <2>3 DEF Deeper
  <2> QED
    BY <1>7, <2>3, <2>4, <2>5 DEF PreambleGoes
<1>8. CASE p = 7
  <2>1. p + 1 = 8
    BY <1>8
  <2>2. Preamble(site)[8].kind = "text"
    BY PreambleKinds
  <2>3. e.kind = "text"
    BY <2>1, <2>2
  <2>4. path = <<"mediawiki", "siteinfo", "unknown">> /\ PreamblePath(p + 1) = <<"mediawiki", "siteinfo", "unknown">>
    BY <1>8 DEF PreamblePath, InDump, InNamespaces
  <2>5. Deeper(path, e) = path
    BY <2>3 DEF Deeper
  <2>6. path # NamespacePath
    <3>1. Len(path) = 3 /\ Len(NamespacePath) = 4
      BY <2>4 DEF NamespacePath
    <3> QED
      BY <3>1
  <2>7. path # <<"mediawiki", "siteinfo", "dbname">>
    <3>1. path[3] = "unknown" /\ <<"mediawiki", "siteinfo", "dbname">>[3] = "dbname"
      BY <2>4
    <3> QED
      BY <3>1
  <2> QED
    BY <1>8, <2>3, <2>4, <2>5, <2>6, <2>7 DEF PreambleGoes
<1>9. CASE p = 8
  <2>1. p + 1 = 9
    BY <1>9
  <2>2. Preamble(site)[9].kind = "empty" /\ Preamble(site)[9].name = "unknown"
    BY PreambleKinds
  <2>3. e.kind = "empty" /\ e.name = "unknown"
    BY <2>1, <2>2
  <2>4. path = <<"mediawiki", "siteinfo", "unknown">> /\ PreamblePath(p + 1) = <<"mediawiki", "siteinfo", "unknown">>
    BY <1>9 DEF PreamblePath, InDump, InNamespaces
  <2>5. Deeper(path, e) = path
    BY <2>3 DEF Deeper
  <2>7. Append(path, e.name) # NamespacePath
    <3>1. path \in Seq({"mediawiki", "siteinfo", "unknown"}) /\ Len(path) = 3 /\ path[3] = "unknown"
      BY <2>4
    <3>2. e.name \in {"mediawiki", "siteinfo", "unknown"}
      BY <2>3
    <3>4. Append(path, e.name)[3] = "unknown"
      <4>1. path \in Seq({"mediawiki", "siteinfo", "unknown"})
        BY <3>1
      <4>2. Len(path) = 3
        BY <3>1
      <4>3. path[3] = "unknown"
        BY <3>1
      <4>4. 3 \in 1 .. Len(path)
        BY <4>2
      <4>5. Append(path, e.name)[3] = path[3]
        BY <4>1, <4>4, <3>2, AppendKeeps, Zenon
      <4> QED
        BY <4>3, <4>5
    <3>3. NamespacePath[3] = "namespaces"
      BY DEF NamespacePath
    <3> QED
      BY <3>3, <3>4
  <2> QED
    BY <1>9, <2>3, <2>4, <2>5, <2>7 DEF PreambleGoes
<1>10. CASE p = 9
  <2>1. p + 1 = 10
    BY <1>10
  <2>2. Preamble(site)[10].kind = "end"
    BY PreambleKinds
  <2>3. e.kind = "end"
    BY <2>1, <2>2
  <2>4. path = <<"mediawiki", "siteinfo", "unknown">> /\ PreamblePath(p + 1) = <<"mediawiki", "siteinfo">>
    BY <1>10 DEF PreamblePath, InDump, InNamespaces
  <2>5. Deeper(path, e) = Front(<<"mediawiki", "siteinfo", "unknown">>)
    BY <2>3, <2>4 DEF Deeper
  <2>6. Last(path) = "unknown"
    BY <2>4 DEF Last
  <2>7. Deeper(path, e) = <<"mediawiki", "siteinfo">>
    BY <2>5, Shortened
  <2> QED
    BY <1>10, <2>3, <2>4, <2>6, <2>7 DEF PreambleGoes
<1>11. CASE p = 10
  <2>1. p + 1 = 11
    BY <1>11
  <2>2. Preamble(site)[11].kind = "start" /\ Preamble(site)[11].name = "namespaces"
    BY PreambleKinds
  <2>3. e.kind = "start" /\ e.name = "namespaces"
    BY <2>1, <2>2
  <2>4. path = <<"mediawiki", "siteinfo">> /\ PreamblePath(p + 1) = <<"mediawiki", "siteinfo", "namespaces">>
    BY <1>11 DEF PreamblePath, InDump, InNamespaces
  <2>5. Deeper(path, e) = Append(<<"mediawiki", "siteinfo">>, "namespaces")
    BY <2>3, <2>4 DEF Deeper
  <2> QED
    BY <1>11, <2>3, <2>4, <2>5, Lengthened DEF PreambleGoes
<1> QED
  BY <1>1, <1>2, <1>3, <1>4, <1>5, <1>6, <1>7, <1>8, <1>9, <1>10, <1>11

\* A parser that goes on has read the next event.
LEMMA ReadsNext ==
  ASSUME IInv, NamespacesNumbered, SingleStage, Next, status' = "reading"
  PROVE  /\ pos \in Nat /\ pos' = pos + 1 /\ source' = source
         /\ pos + 1 <= Len(source.events) /\ event = source.events[pos + 1]
         /\ Path' = Deeper(Path, event)
<1>1. pos \in Nat /\ pos' = pos + 1 /\ source' = source /\ Path' = Deeper(Path, source.events[pos + 1])
  BY PathFollows
<1>2. \E f, kind : Reads(f, kind)
  <2>1. ~EofInSite /\ ~Eof /\ ~Finished
    BY DEF EofInSite, Eof, Finished, vars
  <2> QED
    BY <2>1 DEF Next, ParseSiteInfo, ParsePage, Either, OpenInSite, EmptyInSite, TextInSite, EndSite,
              CloseOther, Open, EmptyElement, PageText, OtherText, EndRevision, EndPage,
              Panic, Fail, PassOver, RejectEnd
<1>3. pos < Len(source.events) /\ Len(source.events) \in Nat
  BY <1>2, StreamAssumption, LenProperties DEF Reads, IInv, AtEvent
<1> QED
  BY <1>1, <1>3 DEF event

LEMMA InPreamble ==
  ASSUME IInv, NamespacesNumbered, SingleStage, Next, stage = "parse_site_info", status' = "reading",
         NEW site, HasAt(source.events, 1, Preamble(site)),
         NEW p, pos = p, p <= 10, Path = PreamblePath(p), Noted(site, 0),
         site_info.dbname = IF p < 4 THEN <<>> ELSE site.dbname
  PROVE  /\ stage' = stage /\ Path' = PreamblePath(p + 1) /\ Noted(site, 0)'
         /\ site_info'.dbname = IF p + 1 < 4 THEN <<>> ELSE site.dbname
<1>b. stage' = IF event.kind = "end" /\ Path # <<>> /\ Last(Path) = "siteinfo"
               THEN "parse_page" ELSE stage
  BY SiteFollows
<1>c. event.kind # "malformed"
  BY SiteFollows
<1>d. event.kind \in {"start", "end", "reference"} => site_info' = site_info
  BY SiteFollows
<1>e. event.kind = "empty" =>
        site_info' = IF Append(Path, event.name) = NamespacePath
                     THEN WithNamespace(event.attr, <<>>) ELSE site_info
  BY SiteFollows
<1>f. event.kind = "text" =>
        site_info' =
          CASE Path = <<"mediawiki", "siteinfo", "dbname">> -> [site_info EXCEPT !.dbname = event.text]
            [] Path = NamespacePath /\ Last(current_path).attr \in Numbers ->
                 WithNamespace(Last(current_path).attr, event.text)
            [] OTHER -> site_info
  BY SiteFollows
<1>1. /\ p \in Nat /\ Path' = Deeper(Path, event) /\ event = source.events[p + 1]
      /\ p + 1 <= Len(source.events)
  BY ReadsNext
<1>2. event.kind # "malformed"
  BY SiteFollows
<1>3. Len(Preamble(site)) = 11
  BY PreambleIs
<1>4. p + 1 \in 1 .. 11 /\ p + 1 = 1 + (p + 1) - 1 /\ p \in 0 .. 10
  BY <1>1
<1>5. /\ event.kind = Preamble(site)[p + 1].kind
      /\ Preamble(site)[p + 1].kind # "end" => event = Preamble(site)[p + 1]
  <2>1. PICK q : q = p + 1
    OBVIOUS
  <2>3. q \in 1 .. Len(Preamble(site)) /\ Len(Preamble(site)) \in Nat
    BY <1>3, <1>4, <2>1
  <2>4. q = 1 + q - 1
    BY <2>3
  <2>5. q <= Len(source.events)
    BY <1>1, <2>1
  <2>6. source.events[q].kind # "malformed"
    BY <1>1, <1>2, <2>1
  <2>7. /\ source.events[q].kind = Preamble(site)[q].kind
        /\ Preamble(site)[q].kind # "end" => source.events[q] = Preamble(site)[q]
    <3>1. StandsFor(source.events[q], Preamble(site)[q])
      BY <2>3, <2>4, <2>5 DEF HasAt
    <3> QED
      BY <2>6, <3>1 DEF StandsFor
  <2> QED
    BY <1>1, <2>1, <2>7
<1>6. PICK e : e = event
  OBVIOUS
<1>7. PICK path : path = Path
  OBVIOUS
<1>a. /\ path = PreamblePath(p) /\ p \in 0 .. 10
      /\ e.kind = Preamble(site)[p + 1].kind
      /\ Preamble(site)[p + 1].kind # "end" => e = Preamble(site)[p + 1]
  BY <1>4, <1>5, <1>6, <1>7
<1>8. PreambleGoes(site, p, path, e)
  <2>1. p \in 0 .. 10
    BY <1>a
  <2>2. path = PreamblePath(p)
    BY <1>a
  <2>3. e.kind = Preamble(site)[p + 1].kind
    BY <1>a
  <2>4. Preamble(site)[p + 1].kind # "end" => e = Preamble(site)[p + 1]
    BY <1>a
  <2> QED
    BY <2>1, <2>2, <2>3, <2>4, PreambleStep, Zenon
<1>9. Path' = PreamblePath(p + 1)
  BY <1>1, <1>6, <1>7, <1>8 DEF PreambleGoes
<1>10. stage' = stage
  BY <1>b, <1>6, <1>7, <1>8 DEF PreambleGoes
<1>11. \/ p = 3 /\ site_info' = [site_info EXCEPT !.dbname = site.dbname]
       \/ p # 3 /\ site_info' = site_info
  <2>1. e.kind = "text" =>
          \/ p = 3 /\ site_info' = [site_info EXCEPT !.dbname = site.dbname]
          \/ p # 3 /\ site_info' = site_info
    <3> SUFFICES ASSUME e.kind = "text"
                 PROVE  \/ p = 3 /\ site_info' = [site_info EXCEPT !.dbname = site.dbname]
                        \/ p # 3 /\ site_info' = site_info
      OBVIOUS
    <3>1. path # NamespacePath
      BY <1>8 DEF PreambleGoes
    <3>2. CASE p = 3 /\ path = <<"mediawiki", "siteinfo", "dbname">> /\ e.text = site.dbname
      <4>1. site_info' = [site_info EXCEPT !.dbname = event.text]
        <5>1. event.kind = "text" /\ Path = <<"mediawiki", "siteinfo", "dbname">>
          BY <1>6, <1>7, <3>2
        <5>2. Path # NamespacePath
          BY <1>7, <3>1
        <5> QED
          BY <1>f, <5>1, <5>2
      <4> QED
        BY <1>6, <3>2, <4>1
    <3>3. CASE p > 3 /\ path # <<"mediawiki", "siteinfo", "dbname">>
      <4>1. site_info' = site_info
        BY <1>f, <1>6, <1>7, <3>1, <3>3
      <4>2. p # 3
        BY <3>3
      <4> QED
        BY <4>1, <4>2
    <3> QED
      BY <1>8, <3>2, <3>3 DEF PreambleGoes
  <2>2. e.kind = "empty" => site_info' = site_info
    BY <1>e, <1>6, <1>7, <1>8 DEF PreambleGoes
  <2>3. e.kind \in {"start", "end", "reference"} => site_info' = site_info
    BY <1>d, <1>6
  <2> QED
    BY <1>8, <2>1, <2>2, <2>3 DEF PreambleGoes
<1>12. site_info = [dbname |-> site_info.dbname, namespaces |-> site_info.namespaces]
  BY DEF IInv, SiteType
<1>13. site_info'.namespaces = site_info.namespaces
  BY <1>11, <1>12
<1>14. site_info'.dbname = IF p + 1 < 4 THEN <<>> ELSE site.dbname
  <2>1. CASE p = 3
    BY <1>11, <1>12, <2>1
  <2>2. CASE p # 3
    <3>1. p < 4 <=> p + 1 < 4
      BY <1>4, <2>2
    <3> QED
      BY <1>11, <2>2, <3>1
  <2> QED
    BY <2>1, <2>2
<1>15. Noted(site, 0)'
  BY <1>13 DEF Noted
<1> QED
  BY <1>9, <1>10, <1>14, <1>15


LEMMA NamespaceOpens == Append(InNamespaces, "namespace") = NamespacePath
<1> DEFINE S == {"mediawiki", "siteinfo", "namespaces", "namespace"}
<1>1. /\ InNamespaces \in Seq(S) /\ Len(InNamespaces) = 3
      /\ NamespacePath \in Seq(S) /\ Len(NamespacePath) = 4 /\ NamespacePath[4] = "namespace"
      /\ \A i \in 1 .. 3 : InNamespaces[i] = NamespacePath[i]
  BY DEF InNamespaces, NamespacePath
<1>2. "namespace" \in S
  OBVIOUS
<1> HIDE DEF S
<1>3. /\ Append(InNamespaces, "namespace") \in Seq(S) /\ Len(Append(InNamespaces, "namespace")) = 4
      /\ Append(InNamespaces, "namespace")[4] = "namespace"
      /\ \A i \in 1 .. 3 : Append(InNamespaces, "namespace")[i] = InNamespaces[i]
  <2>1. ASSUME NEW s \in Seq(S), NEW e \in S
        PROVE  /\ Append(s, e) \in Seq(S) /\ Len(Append(s, e)) = Len(s) + 1
               /\ \A i \in 1 .. Len(s) : Append(s, e)[i] = s[i]
               /\ Append(s, e)[Len(s) + 1] = e
    BY <2>1, AppendProperties
  <2>2. /\ Append(InNamespaces, "namespace") \in Seq(S)
        /\ Len(Append(InNamespaces, "namespace")) = Len(InNamespaces) + 1
        /\ \A i \in 1 .. Len(InNamespaces) : Append(InNamespaces, "namespace")[i] = InNamespaces[i]
        /\ Append(InNamespaces, "namespace")[Len(InNamespaces) + 1] = "namespace"
    BY <1>1, <1>2, <2>1, Zenon
  <2> QED
    BY <1>1, <2>2
<1>4. \A i \in 1 .. 4 : Append(InNamespaces, "namespace")[i] = NamespacePath[i]
  BY <1>1, <1>3
<1> QED
  BY <1>1, <1>3, <1>4, SeqEqual

LEMMA LastIsAppended ==
  ASSUME NEW S, NEW s \in Seq(S), NEW e
  PROVE  Last(Append(s, e)) = e
<1>1. s \in Seq(S \cup {e}) /\ e \in S \cup {e}
  <2>1. S \subseteq S \cup {e}
    OBVIOUS
  <2> QED
    BY <2>1, SeqMonotonic
<1> HIDE DEF Last
<1>2. Append(s, e)[Len(s) + 1] = e /\ Len(Append(s, e)) = Len(s) + 1
  BY <1>1, AppendProperties
<1> QED
  BY <1>2 DEF Last

\* In the site info the parser goes from place to place; behind it, it has read it.
LEMMA InSite ==
  ASSUME IInv, NamespacesNumbered, SingleStage, Next, stage = "parse_site_info", status' = "reading",
         <<"ignored">> \notin Numbers, MissingKey \notin Numbers,
         NEW site, NEW at, IsSite(site), WrittenAt(source.events, site, at), SitePlace(site, at)
  PROVE  \/ stage' = stage /\ SitePlace(site, at)'
         \/ stage' = "parse_page" /\ site_info' = SiteMeaning(site)
<1> DEFINE ns == site.namespaces
           n == Len(ns)
<1>1. /\ pos \in Nat /\ pos' = pos + 1 /\ Path' = Deeper(Path, event)
      /\ pos + 1 <= Len(source.events) /\ event = source.events[pos + 1]
  BY ReadsNext
<1>2. PICK e : e = event
  OBVIOUS
<1>3. PICK path : path = Path
  OBVIOUS
<1>4. PICK p : p = pos
  OBVIOUS
<1>5. stage' = IF e.kind = "end" /\ path # <<>> /\ Last(path) = "siteinfo"
               THEN "parse_page" ELSE stage
  BY <1>2, <1>3, SiteFollows
<1>6. e.kind # "malformed"
  BY <1>2, SiteFollows
<1>7. e.kind \in {"start", "end", "reference"} => site_info' = site_info
  BY <1>2, SiteFollows
<1>8. e.kind = "start" => current_path' = Append(current_path, Tag)
  BY <1>2, SiteFollows
<1>9. e.kind = "empty" =>
        site_info' = IF Append(path, e.name) = NamespacePath
                     THEN WithNamespace(e.attr, <<>>) ELSE site_info
  BY <1>2, <1>3, SiteFollows
<1>10. e.kind = "text" =>
        /\ current_path' = current_path
        /\ site_info' =
             CASE path = <<"mediawiki", "siteinfo", "dbname">> -> [site_info EXCEPT !.dbname = e.text]
               [] path = NamespacePath /\ Last(current_path).attr \in Numbers ->
                    WithNamespace(Last(current_path).attr, e.text)
               [] OTHER -> site_info
  BY <1>2, <1>3, SiteFollows
<1>11. /\ p \in Nat /\ pos' = p + 1 /\ Path' = Deeper(path, e)
       /\ p + 1 <= Len(source.events) /\ e = source.events[p + 1]
  BY <1>1, <1>2, <1>3, <1>4
<1>12. /\ n \in Nat /\ DOMAIN ns = 1 .. n
       /\ ns \in Seq([key : Text, name : Text])
  BY LenProperties DEF IsSite
<1>13. /\ at \in [1 .. n + 1 -> Nat] /\ at[1] = 12
       /\ HasAt(source.events, 1, Preamble(site))
       /\ HasAt(source.events, at[n + 1], <<End("namespaces"), End("siteinfo")>>)
  BY DEF WrittenAt
<1>14. ASSUME NEW k \in 1 .. n
       PROVE  at[k + 1] = at[k] + Len(NamespaceEvents(ns[k])) /\ HasAt(source.events, at[k], NamespaceEvents(ns[k]))
  BY DEF WrittenAt
<1>15. ASSUME NEW a \in Nat, NEW part, HasAt(source.events, a, part), NEW i \in 1 .. Len(part), p + 1 = a + i - 1
       PROVE  e.kind = part[i].kind /\ (part[i].kind # "end" => e = part[i])
  <2>1. StandsFor(source.events[a + i - 1], part[i])
    BY <1>11, <1>15 DEF HasAt
  <2>2. StandsFor(e, part[i])
    BY <1>11, <1>15, <2>1
  <2> QED
    BY <1>6, <2>2 DEF StandsFor
<1>16. ASSUME site_info' = site_info, NEW k, Noted(site, k) PROVE Noted(site, k)'
  BY <1>16 DEF Noted
<1>17. stage = "parse_site_info" /\ SiteType
  BY DEF IInv
<1> HIDE DEF ns, n
<1>20. CASE pos <= 10 /\ Path = PreamblePath(pos) /\ Noted(site, 0)
            /\ site_info.dbname = IF pos < 4 THEN <<>> ELSE site.dbname
  <2>1. /\ stage' = stage /\ Path' = PreamblePath(p + 1) /\ Noted(site, 0)'
        /\ site_info'.dbname = IF p + 1 < 4 THEN <<>> ELSE site.dbname
    <3>1. /\ p <= 10 /\ Path = PreamblePath(p)
          /\ site_info.dbname = IF p < 4 THEN <<>> ELSE site.dbname
      BY <1>4, <1>20
    <3>2. Noted(site, 0)
      BY <1>20
    <3> QED
      BY <1>4, <1>13, <3>1, <3>2, InPreamble
  <2>2. CASE p + 1 <= 10
    BY <1>11, <2>1, <2>2 DEF SitePlace
  <2>3. CASE p = 10
    <3>1. pos' = at[1] - 1 /\ 1 \in 1 .. n + 1
      BY <1>11, <1>12, <1>13, <2>3
    <3>2. Path' = InNamespaces
      BY <2>1, <2>3 DEF PreamblePath
    <3>3. site_info'.dbname = site.dbname
      BY <2>1, <2>3
    <3>4. 1 - 1 = 0
      OBVIOUS
    <3>5. Noted(site, 1 - 1)'
      BY <2>1, <3>4
    <3> QED
      BY <2>1, <3>1, <3>2, <3>3, <3>5 DEF SitePlace, n, ns
  <2>4. p + 1 <= 10 \/ p = 10
    BY <1>4, <1>11, <1>20
  <2> QED
    BY <2>2, <2>3, <2>4
<1>21. ASSUME site_info.dbname = site.dbname, pos = at[n + 1] - 1, Path = InNamespaces, Noted(site, n)
       PROVE  stage' = stage /\ SitePlace(site, at)'
  <2>1. at[n + 1] \in Nat
    BY <1>12, <1>13
  <2>2. e.kind = "end"
    <3> DEFINE part == <<End("namespaces"), End("siteinfo")>>
    <3>1. 1 \in 1 .. Len(part) /\ part[1] = End("namespaces")
      OBVIOUS
    <3>2. p + 1 = at[n + 1] + 1 - 1
      BY <1>4, <1>11, <1>21, <2>1
    <3>3. HasAt(source.events, at[n + 1], part)
      BY <1>13
    <3>4. End("namespaces").kind = "end"
      BY EventsAre
    <3>5. part[1].kind = "end"
      BY <3>1, <3>4
    <3> HIDE DEF part
    <3> QED
      BY <1>15, <2>1, <3>1, <3>2, <3>3, <3>5
  <2>3. path = InNamespaces
    BY <1>3, <1>21
  <2>4. Path' = InDump
    <3>1. Path' = Front(InNamespaces)
      BY <1>11, <2>2, <2>3 DEF Deeper
    <3>2. Front(InNamespaces) = InDump
      BY Shortened DEF InNamespaces, InDump
    <3> QED
      BY <3>1, <3>2
  <2>5. Last(path) = "namespaces"
    BY <2>3 DEF Last, InNamespaces
  <2>6. stage' = stage /\ site_info' = site_info
    BY <1>5, <1>7, <2>2, <2>5
  <2>7. Noted(site, n)'
    BY <1>16, <1>21, <2>6
  <2>8. pos' = at[n + 1]
    BY <1>4, <1>11, <1>21, <2>1
  <2> QED
    BY <1>21, <2>4, <2>6, <2>7, <2>8 DEF SitePlace, n, ns
<1>22. ASSUME NEW k \in 1 .. n, site_info.dbname = site.dbname, pos = at[k] - 1, Path = InNamespaces,
              Noted(site, k - 1)
       PROVE  stage' = stage /\ SitePlace(site, at)'
  <2>1. /\ k + 1 \in 1 .. n + 1 /\ k \in 1 .. n + 1 /\ at[k] \in Nat /\ (k + 1) - 1 = k
        /\ k \in 1 .. Len(site.namespaces) /\ ns[k] = site.namespaces[k]
    BY <1>12, <1>13 DEF n, ns
  <2>2. path = InNamespaces
    BY <1>3, <1>22
  <2>3. CASE ns[k].name = <<>>
    <3> DEFINE part == <<Empty("namespace", ns[k].key)>>
    <3>1. NamespaceEvents(ns[k]) = part
      BY <2>3, NamespaceIs
    <3>2. 1 \in 1 .. Len(part) /\ part[1] = Empty("namespace", ns[k].key) /\ Len(part) = 1
      OBVIOUS
    <3>3. HasAt(source.events, at[k], part) /\ at[k + 1] = at[k] + 1
      BY <1>14, <3>1, <3>2
    <3>4. p + 1 = at[k] + 1 - 1
      BY <1>4, <1>11, <1>22, <2>1
    <3>5. /\ Empty("namespace", ns[k].key).kind = "empty" /\ Empty("namespace", ns[k].key).name = "namespace"
          /\ Empty("namespace", ns[k].key).attr = ns[k].key
      BY EventsAre
    <3>6. part[1].kind = "empty" /\ part[1].name = "namespace" /\ part[1].attr = ns[k].key
      BY <3>2, <3>5
    <3>7. e.kind = part[1].kind /\ (part[1].kind # "end" => e = part[1])
      <4> HIDE DEF part
      <4> QED
        BY <1>15, <2>1, <3>2, <3>3, <3>4
    <3> HIDE DEF part
    <3>8. e.kind = "empty" /\ e.name = "namespace" /\ e.attr = ns[k].key
      BY <3>6, <3>7
    <3>9. Append(path, e.name) = NamespacePath
      BY <2>2, <3>8, NamespaceOpens
    <3>10. site_info' = WithNamespace(ns[k].key, ns[k].name)
      BY <1>9, <2>3, <3>8, <3>9
    <3>11. site.namespaces[k].key \in Numbers
      BY <1>12, <2>1, <2>3 DEF IsSite, n, ns
    <3>12. /\ site.namespaces[k].key \in Numbers
           /\ site_info' = WithNamespace(site.namespaces[k].key, site.namespaces[k].name)
      BY <2>1, <3>10, <3>11
    <3>13. Noted(site, k)' /\ site_info'.dbname = site_info.dbname
      BY <1>17, <1>22, <2>1, <3>12, NotedNext
    <3>14. stage' = stage
      BY <1>5, <3>8
    <3>15. Path' = InNamespaces
      BY <1>11, <2>2, <3>8 DEF Deeper
    <3>16. pos' = at[k + 1] - 1
      BY <1>4, <1>11, <1>22, <2>1, <3>3
    <3>17. Noted(site, (k + 1) - 1)'
      BY <2>1, <3>13
    <3> QED
      BY <1>22, <2>1, <3>13, <3>14, <3>15, <3>16, <3>17 DEF SitePlace, n, ns
  <2>4. CASE ns[k].name # <<>>
    <3> DEFINE part == <<Start("namespace", ns[k].key), Piece(ns[k].name), End("namespace")>>
    <3>1. NamespaceEvents(ns[k]) = part
      BY <2>4, NamespaceIs
    <3>2. 1 \in 1 .. Len(part) /\ part[1] = Start("namespace", ns[k].key)
      OBVIOUS
    <3>3. HasAt(source.events, at[k], part)
      BY <1>14, <3>1
    <3>4. p + 1 = at[k] + 1 - 1
      BY <1>4, <1>11, <1>22, <2>1
    <3>5. /\ Start("namespace", ns[k].key).kind = "start" /\ Start("namespace", ns[k].key).name = "namespace"
          /\ Start("namespace", ns[k].key).attr = ns[k].key
      BY EventsAre
    <3>6. part[1].kind = "start" /\ part[1].name = "namespace" /\ part[1].attr = ns[k].key
      BY <3>2, <3>5
    <3>7. e.kind = part[1].kind /\ (part[1].kind # "end" => e = part[1])
      <4> HIDE DEF part
      <4> QED
        BY <1>15, <2>1, <3>2, <3>3, <3>4
    <3> HIDE DEF part
    <3>8. e.kind = "start" /\ e.name = "namespace" /\ e.attr = ns[k].key
      BY <3>6, <3>7
    <3>9. Append(path, e.name) = NamespacePath
      BY <2>2, <3>8, NamespaceOpens
    <3>10. stage' = stage /\ site_info' = site_info
      BY <1>5, <1>7, <3>8
    <3>11. Path' = NamespacePath
      BY <1>11, <3>8, <3>9 DEF Deeper
    <3>12. Last(current_path').attr = KeyOf(ns[k])
      <4>1. current_path' = Append(current_path, Tag)
        BY <1>8, <3>8
      <4>2. Tag.attr = KeyOf(ns[k])
        BY <1>2, <3>8 DEF Tag, KeyOf
      <4>3. Last(Append(current_path, Tag)) = Tag
        <5>1. current_path \in Seq([name : Name, attr : Text])
          BY DEF IInv, PathType
        <5> QED
          BY <5>1, LastIsAppended
      <4> QED
        BY <4>1, <4>2, <4>3
    <3>13. Noted(site, k - 1)'
      BY <1>16, <1>22, <3>10
    <3>14. pos' = at[k]
      BY <1>4, <1>11, <1>22, <2>1
    <3> QED
      BY <1>22, <2>1, <2>4, <3>10, <3>11, <3>12, <3>13, <3>14 DEF SitePlace, n, ns
  <2> QED
    BY <2>3, <2>4
<1>23. ASSUME NEW k \in 1 .. n, site_info.dbname = site.dbname, pos = at[k], ns[k].name # <<>>,
              Path = NamespacePath, Last(current_path).attr = KeyOf(ns[k]), Noted(site, k - 1)
       PROVE  stage' = stage /\ SitePlace(site, at)'
  <2>1. /\ k \in 1 .. n + 1 /\ at[k] \in Nat
        /\ k \in 1 .. Len(site.namespaces) /\ ns[k] = site.namespaces[k]
    <3>1. k \in 1 .. n + 1 /\ at[k] \in Nat
      BY <1>12, <1>13
    <3> QED
      BY <3>1 DEF n, ns
  <2>2. path = NamespacePath
    BY <1>3, <1>23
  <2> DEFINE part == <<Start("namespace", ns[k].key), Piece(ns[k].name), End("namespace")>>
  <2>3. NamespaceEvents(ns[k]) = part
    BY <1>23, NamespaceIs
  <2>4. 2 \in 1 .. Len(part) /\ part[2] = Piece(ns[k].name)
    OBVIOUS
  <2>5. HasAt(source.events, at[k], part)
    BY <1>14, <2>3
  <2>6. p + 1 = at[k] + 2 - 1
    BY <1>4, <1>11, <1>23, <2>1
  <2>7. Piece(ns[k].name).kind = "text" /\ Piece(ns[k].name).text = ns[k].name
    BY EventsAre
  <2>8. part[2].kind = "text" /\ part[2].text = ns[k].name
    BY <2>4, <2>7
  <2> HIDE DEF part
  <2>9. e.kind = "text" /\ e.text = ns[k].name
    BY <1>15, <2>1, <2>4, <2>5, <2>6, <2>8
  <2>10. path # <<"mediawiki", "siteinfo", "dbname">>
    <3>1. Len(path) = 4 /\ Len(<<"mediawiki", "siteinfo", "dbname">>) = 3
      BY <2>2 DEF NamespacePath
    <3> QED
      BY <3>1
  <2>11. \/ site.namespaces[k].key \in Numbers /\ site_info' = WithNamespace(site.namespaces[k].key, site.namespaces[k].name)
         \/ site.namespaces[k].key \notin Numbers /\ site_info' = site_info
    <3>1. CASE ns[k].key \in Numbers
      <4>1. Last(current_path).attr = ns[k].key
        BY <1>23, <3>1 DEF KeyOf
      <4>2. site_info' = WithNamespace(ns[k].key, ns[k].name)
        BY <1>10, <2>2, <2>9, <2>10, <3>1, <4>1
      <4> QED
        BY <2>1, <3>1, <4>2
    <3>2. CASE ns[k].key \notin Numbers
      <4>1. Last(current_path).attr \notin Numbers
        BY <1>23, <3>2 DEF KeyOf
      <4>2. site_info' = site_info
        BY <1>10, <2>2, <2>9, <2>10, <4>1
      <4> QED
        BY <2>1, <3>2, <4>2
    <3> QED
      BY <3>1, <3>2
  <2>12. Noted(site, k)' /\ site_info'.dbname = site_info.dbname
    BY <1>17, <1>23, <2>1, <2>11, NotedNext
  <2>13. stage' = stage
    BY <1>5, <2>9
  <2>14. Path' = NamespacePath
    BY <1>11, <2>2, <2>9 DEF Deeper
  <2>15. pos' = at[k] + 1
    BY <1>4, <1>11, <1>23, <2>1, <2>6
  <2> QED
    BY <1>23, <2>1, <2>12, <2>13, <2>14, <2>15 DEF SitePlace, n, ns
<1>24. ASSUME NEW k \in 1 .. n, site_info.dbname = site.dbname, pos = at[k] + 1, ns[k].name # <<>>,
              Path = NamespacePath, Noted(site, k)
       PROVE  stage' = stage /\ SitePlace(site, at)'
  <2>1. k + 1 \in 1 .. n + 1 /\ k \in 1 .. n + 1 /\ at[k] \in Nat /\ (k + 1) - 1 = k
    BY <1>12, <1>13
  <2>2. path = NamespacePath
    BY <1>3, <1>24
  <2> DEFINE part == <<Start("namespace", ns[k].key), Piece(ns[k].name), End("namespace")>>
  <2>3. NamespaceEvents(ns[k]) = part
    BY <1>24, NamespaceIs
  <2>4. 3 \in 1 .. Len(part) /\ part[3] = End("namespace") /\ Len(part) = 3
    OBVIOUS
  <2>5. HasAt(source.events, at[k], part) /\ at[k + 1] = at[k] + 3
    BY <1>14, <2>3, <2>4
  <2>6. p + 1 = at[k] + 3 - 1
    BY <1>4, <1>11, <1>24, <2>1
  <2>7. End("namespace").kind = "end"
    BY EventsAre
  <2>8. part[3].kind = "end"
    BY <2>4, <2>7
  <2> HIDE DEF part
  <2>9. e.kind = "end"
    BY <1>15, <2>1, <2>4, <2>5, <2>6, <2>8
  <2>10. Path' = InNamespaces
    <3>1. Path' = Front(NamespacePath)
      BY <1>11, <2>2, <2>9 DEF Deeper
    <3>2. Front(NamespacePath) = InNamespaces
      BY Shortened DEF NamespacePath, InNamespaces
    <3> QED
      BY <3>1, <3>2
  <2>11. Last(path) = "namespace"
    BY <2>2 DEF Last, NamespacePath
  <2>12. stage' = stage /\ site_info' = site_info
    BY <1>5, <1>7, <2>9, <2>11
  <2>13. Noted(site, (k + 1) - 1)'
    BY <1>16, <1>24, <2>1, <2>12
  <2>14. pos' = at[k + 1] - 1
    BY <1>4, <1>11, <1>24, <2>1, <2>5
  <2> QED
    BY <1>24, <2>1, <2>10, <2>12, <2>13, <2>14 DEF SitePlace, n, ns
<1>25. CASE site_info.dbname = site.dbname /\ pos = at[n + 1] /\ Path = InDump /\ Noted(site, n)
  <2>1. at[n + 1] \in Nat
    BY <1>12, <1>13
  <2>2. e.kind = "end"
    <3> DEFINE part == <<End("namespaces"), End("siteinfo")>>
    <3>1. 2 \in 1 .. Len(part) /\ part[2] = End("siteinfo")
      OBVIOUS
    <3>2. p + 1 = at[n + 1] + 2 - 1
      BY <1>4, <1>11, <1>25, <2>1
    <3>3. HasAt(source.events, at[n + 1], part)
      BY <1>13
    <3>4. End("siteinfo").kind = "end"
      BY EventsAre
    <3>5. part[2].kind = "end"
      BY <3>1, <3>4
    <3> HIDE DEF part
    <3> QED
      BY <1>15, <2>1, <3>1, <3>2, <3>3, <3>5
  <2>3. path = <<"mediawiki", "siteinfo">>
    BY <1>3, <1>25 DEF InDump
  <2>4. path # <<>> /\ Last(path) = "siteinfo"
    BY <2>3 DEF Last
  <2>5. stage' = "parse_page" /\ site_info' = site_info
    BY <1>5, <1>7, <2>2, <2>4
  <2>6. site_info = SiteMeaning(site)
    <3>1. Noted(site, Len(site.namespaces))
      BY <1>25 DEF n, ns
    <3> QED
      BY <1>17, <1>25, <3>1, NotedAll
  <2> QED
    BY <2>5, <2>6
<1>30. \/ /\ pos <= 10 /\ Path = PreamblePath(pos) /\ Noted(site, 0)
          /\ site_info.dbname = IF pos < 4 THEN <<>> ELSE site.dbname
       \/ /\ site_info.dbname = site.dbname
          /\ \/ \E k \in 1 .. n + 1 : pos = at[k] - 1 /\ Path = InNamespaces /\ Noted(site, k - 1)
             \/ \E k \in 1 .. n : /\ pos = at[k] /\ ns[k].name # <<>> /\ Path = NamespacePath
                                  /\ Last(current_path).attr = KeyOf(ns[k]) /\ Noted(site, k - 1)
             \/ \E k \in 1 .. n : /\ pos = at[k] + 1 /\ ns[k].name # <<>> /\ Path = NamespacePath
                                  /\ Noted(site, k)
             \/ pos = at[n + 1] /\ Path = InDump /\ Noted(site, n)
  BY DEF SitePlace, ns, n
<1>31. ASSUME site_info.dbname = site.dbname, NEW k \in 1 .. n + 1, pos = at[k] - 1, Path = InNamespaces,
              Noted(site, k - 1)
       PROVE  stage' = stage /\ SitePlace(site, at)'
  <2>1. CASE k = n + 1
    <3>1. k - 1 = n
      BY <1>12, <2>1
    <3> QED
      BY <1>21, <1>31, <2>1, <3>1
  <2>2. CASE k # n + 1
    <3>1. k \in 1 .. n
      BY <1>12, <2>2
    <3> QED
      BY <1>22, <1>31, <3>1
  <2> QED
    BY <2>1, <2>2
<1> QED
  BY <1>20, <1>23, <1>24, <1>25, <1>30, <1>31


\* A site info that has been read is that of the dump; one that is being read is noted
\* as far as the parser has come.
SiteInv ==
  /\ SiteInfoRead
  /\ status = "reading" /\ stage = "parse_site_info" =>
       \E site, at : /\ IsSite(site) /\ WrittenAt(source.events, site, at)
                     /\ source.site = SiteMeaning(site) /\ SitePlace(site, at)

LEMMA SiteInit == SiteIsWritten /\ Init => SiteInv
<1> SUFFICES ASSUME SiteIsWritten, Init PROVE SiteInv
  OBVIOUS
<1>1. SiteInfoRead
  BY DEF SiteIsWritten, Init, SiteInfoRead
<1>2. ASSUME stage = "parse_site_info"
      PROVE  \E site, at : /\ IsSite(site) /\ WrittenAt(source.events, site, at)
                           /\ source.site = SiteMeaning(site) /\ SitePlace(site, at)
  <2>1. ~source.single
    BY <1>2 DEF Init
  <2>2. PICK site, at : IsSite(site) /\ WrittenAt(source.events, site, at) /\ source.site = SiteMeaning(site)
    BY <2>1 DEF SiteIsWritten
  <2>3. pos = 0 /\ site_info = [dbname |-> <<>>, namespaces |-> <<>>] /\ current_path = <<>>
    BY <2>1 DEF Init
  <2>4. Path = <<>> /\ PreamblePath(0) = <<>>
    BY <2>3 DEF Path, PreamblePath
  <2>5. site_info.dbname = <<>> /\ site_info.namespaces = <<>>
    BY <2>3
  <2>6. Noted(site, 0)
    <3> DEFINE numbered == {i \in 1 .. 0 : site.namespaces[i].key \in Numbers}
               keys == {site.namespaces[i].key : i \in numbered}
               names == site_info.namespaces
    <3>1. numbered = {}
      OBVIOUS
    <3>2. keys = {}
      BY <3>1
    <3>3. names = [key \in {} |-> names[key]]
      BY <2>5
    <3> QED
      BY <3>1, <3>2, <3>3 DEF Noted
  <2>7. SitePlace(site, at)
    BY <2>3, <2>4, <2>5, <2>6 DEF SitePlace
  <2> QED
    BY <2>2, <2>7
<1> QED
  BY <1>1, <1>2 DEF SiteInv

LEMMA SiteKept ==
  ASSUME SiteIsWritten, IInv, NamespacesNumbered, SingleStage, SiteInv, [Next]_vars
  PROVE  SiteIsWritten' /\ SiteInv'
<1>1. source' = source
  BY SiteStays DEF vars
<1>2. SiteIsWritten'
  BY <1>1 DEF SiteIsWritten
<1>3. CASE UNCHANGED vars
  <2>1. /\ UNCHANGED <<source, pos, stage, status, site_info, current_path>>
        /\ Path' = Path
    BY <1>3 DEF vars, siteVars, Path
  <2>2. \A site, k : Noted(site, k)' <=> Noted(site, k)
    BY <2>1 DEF Noted
  <2>3. \A site, at : SitePlace(site, at)' <=> SitePlace(site, at)
    BY <2>1, <2>2 DEF SitePlace
  <2>4. SiteInfoRead'
    BY <2>1 DEF SiteInv, SiteInfoRead
  <2>5. ASSUME status = "reading", stage = "parse_site_info"
        PROVE  \E site, at : /\ IsSite(site) /\ WrittenAt(source.events', site, at)
                             /\ source'.site = SiteMeaning(site) /\ SitePlace(site, at)'
    <3>1. PICK site, at : /\ IsSite(site) /\ WrittenAt(source.events, site, at)
                          /\ source.site = SiteMeaning(site) /\ SitePlace(site, at)
      BY <2>5 DEF SiteInv
    <3> QED
      BY <2>1, <2>3, <3>1
  <2> QED
    BY <1>2, <2>1, <2>4, <2>5 DEF SiteInv
<1>4. CASE Next
  <2>1. CASE stage = "parse_page"
    <3>1. stage' = "parse_page" /\ site_info' = site_info
      BY <1>4, <2>1, SiteStays
    <3> QED
      BY <1>1, <1>2, <2>1, <3>1 DEF SiteInv, SiteInfoRead
  <2>2. CASE stage # "parse_page" /\ status' # "reading"
    <3>1. stage' = stage
      BY <1>4, <2>2, SiteStays
    <3> QED
      BY <1>2, <2>2, <3>1 DEF SiteInv, SiteInfoRead
  <2>3. CASE stage # "parse_page" /\ status' = "reading"
    <3>1. status = "reading"
      BY <1>4, <2>3, PathFollows
    <3>2. stage = "parse_site_info"
      BY <2>3 DEF IInv, StageType
    <3>3. PICK site, at : /\ IsSite(site) /\ WrittenAt(source.events, site, at)
                          /\ source.site = SiteMeaning(site) /\ SitePlace(site, at)
      BY <3>1, <3>2 DEF SiteInv
    <3>4. <<"ignored">> \notin Numbers /\ MissingKey \notin Numbers
      BY DEF SiteIsWritten
    <3>5. \/ stage' = stage /\ SitePlace(site, at)'
          \/ stage' = "parse_page" /\ site_info' = SiteMeaning(site)
      BY <1>4, <2>3, <3>2, <3>3, <3>4, InSite
    <3>6. CASE stage' = stage /\ SitePlace(site, at)'
      <4>1. SiteInfoRead'
        BY <3>2, <3>6 DEF SiteInfoRead
      <4>2. WrittenAt(source.events', site, at) /\ source'.site = SiteMeaning(site)
        BY <1>1, <3>3
      <4> QED
        BY <1>2, <3>3, <3>6, <4>1, <4>2 DEF SiteInv
    <3>7. CASE stage' = "parse_page" /\ site_info' = SiteMeaning(site)
      BY <1>1, <1>2, <3>3, <3>7 DEF SiteInv, SiteInfoRead
    <3> QED
      BY <3>5, <3>6, <3>7
  <2> QED
    BY <2>1, <2>2, <2>3
<1> QED
  BY <1>3, <1>4

(***************************************************************************)
(* Whatever the namespaces of a dump and wherever its stream is cut off,   *)
(* damaged or misspelled: once new has returned, the name of the wiki and  *)
(* the numbered namespaces are those of the dump, no more and no fewer.    *)
(***************************************************************************)
THEOREM SiteIsRead == NamespacesNumbered /\ SiteIsWritten /\ Spec => []SiteInfoRead
<1> DEFINE Inv == IInv /\ NamespacesNumbered /\ SingleStage /\ PathInv /\ SiteIsWritten /\ SiteInv
<1>1. NamespacesNumbered /\ SiteIsWritten /\ Init => Inv
  BY InitTypes, PathInit, SiteInit
<1>2. Inv /\ [Next]_vars => Inv'
  BY TypeStep, PathStep, SiteKept
<1>3. Inv => SiteInfoRead
  BY DEF SiteInv
<1> QED
  BY <1>1, <1>2, <1>3, PTL DEF Spec

-----------------------------------------------------------------------------
(* Lemmas about what the events tell                                       *)

\* The paths of the fields are different ones.
LEMMA FieldPaths ==
  ASSUME NEW a, NEW b, NEW c
  PROVE  /\ InPage(<<a>>) = InPage(<<b>>) => a = b
         /\ InRevision(<<a>>) = InRevision(<<b>>) => a = b
         /\ InRevision(<<c, a>>) = InRevision(<<c, b>>) => a = b
         /\ InPage(<<a>>) # InRevision(<<b>>) /\ InPage(<<a>>) # InRevision(<<c, b>>)
         /\ InRevision(<<a>>) # InRevision(<<c, b>>)
         /\ InPage(<<a>>) # <<>> /\ InRevision(<<a>>) # <<>> /\ InRevision(<<c, a>>) # <<>>
<1> DEFINE S == {a, b, c, "mediawiki", "page", "revision"}
           start == <<"mediawiki", "page">>
           rev == <<"revision">>
           fa == <<a>>
           fb == <<b>>
           ga == <<c, a>>
           gb == <<c, b>>
<1>1. /\ start \in Seq(S) /\ rev \in Seq(S)
      /\ fa \in Seq(S) /\ fb \in Seq(S) /\ ga \in Seq(S) /\ gb \in Seq(S)
      /\ Len(start) = 2 /\ Len(rev) = 1
      /\ Len(fa) = 1 /\ Len(fb) = 1 /\ Len(ga) = 2 /\ Len(gb) = 2
      /\ fa[1] = a /\ fb[1] = b /\ ga[2] = a /\ gb[2] = b
  OBVIOUS
<1>2. \A s : InPage(s) = start \o s /\ InRevision(s) = InPage(rev) \o s
  BY DEF InPage, InRevision
<1> HIDE DEF S, start, rev, fa, fb, ga, gb
<1>3. ASSUME NEW s \in Seq(S), NEW t \in Seq(S)
      PROVE  /\ s \o t \in Seq(S) /\ Len(s \o t) = Len(s) + Len(t)
             /\ \A i \in 1 .. Len(t) : (s \o t)[Len(s) + i] = t[i]
  <2>1. /\ s \o t \in Seq(S) /\ Len(s \o t) = Len(s) + Len(t) /\ Len(s) \in Nat /\ Len(t) \in Nat
        /\ \A i \in 1 .. Len(s) + Len(t) : (s \o t)[i] = IF i <= Len(s) THEN s[i] ELSE t[i - Len(s)]
    BY ConcatProperties, LenProperties
  <2>2. ASSUME NEW i \in 1 .. Len(t) PROVE (s \o t)[Len(s) + i] = t[i]
    <3>1. Len(s) + i \in 1 .. Len(s) + Len(t) /\ ~(Len(s) + i <= Len(s)) /\ (Len(s) + i) - Len(s) = i
      BY <2>1
    <3> QED
      BY <2>1, <3>1
  <2> QED
    BY <2>1, <2>2
<1>4. ASSUME NEW s \in Seq(S)
      PROVE  /\ InPage(s) \in Seq(S) /\ Len(InPage(s)) = 2 + Len(s)
             /\ \A i \in 1 .. Len(s) : InPage(s)[2 + i] = s[i]
  <2>1. /\ start \o s \in Seq(S) /\ Len(start \o s) = Len(start) + Len(s)
        /\ \A i \in 1 .. Len(s) : (start \o s)[Len(start) + i] = s[i]
    BY <1>1, <1>3, Zenon
  <2> QED
    BY <1>1, <1>2, <2>1, Zenon
<1>5. InPage(rev) \in Seq(S) /\ Len(InPage(rev)) = 3
  <2>1. Len(InPage(rev)) = 2 + 1
    BY <1>1, <1>4, Zenon
  <2> QED
    BY <1>1, <1>4, <2>1
<1>6. ASSUME NEW s \in Seq(S)
      PROVE  /\ InRevision(s) \in Seq(S) /\ Len(InRevision(s)) = 3 + Len(s)
             /\ \A i \in 1 .. Len(s) : InRevision(s)[3 + i] = s[i]
  <2>1. /\ InPage(rev) \o s \in Seq(S) /\ Len(InPage(rev) \o s) = Len(InPage(rev)) + Len(s)
        /\ \A i \in 1 .. Len(s) : (InPage(rev) \o s)[Len(InPage(rev)) + i] = s[i]
    BY <1>3, <1>5, Zenon
  <2> QED
    BY <1>2, <1>5, <2>1, Zenon
<1>7. /\ Len(InPage(fa)) = 3 /\ InPage(fa)[3] = a
      /\ Len(InPage(fb)) = 3 /\ InPage(fb)[3] = b
  <2>1. 1 \in 1 .. Len(fa) /\ 1 \in 1 .. Len(fb)
    BY <1>1
  <2>2. /\ Len(InPage(fa)) = 2 + 1 /\ InPage(fa)[2 + 1] = a
        /\ Len(InPage(fb)) = 2 + 1 /\ InPage(fb)[2 + 1] = b
    BY <1>1, <1>4, <2>1, Zenon
  <2>3. 2 + 1 = 3
    OBVIOUS
  <2> QED
    BY <2>2, <2>3, Zenon
<1>8. /\ Len(InRevision(fa)) = 4 /\ InRevision(fa)[4] = a
      /\ Len(InRevision(fb)) = 4 /\ InRevision(fb)[4] = b
  <2>1. 1 \in 1 .. Len(fa) /\ 1 \in 1 .. Len(fb)
    BY <1>1
  <2>2. /\ Len(InRevision(fa)) = 3 + 1 /\ InRevision(fa)[3 + 1] = a
        /\ Len(InRevision(fb)) = 3 + 1 /\ InRevision(fb)[3 + 1] = b
    BY <1>1, <1>6, <2>1, Zenon
  <2>3. 3 + 1 = 4
    OBVIOUS
  <2> QED
    BY <2>2, <2>3, Zenon
<1>9. /\ Len(InRevision(ga)) = 5 /\ InRevision(ga)[5] = a
      /\ Len(InRevision(gb)) = 5 /\ InRevision(gb)[5] = b
  <2>1. 2 \in 1 .. Len(ga) /\ 2 \in 1 .. Len(gb)
    BY <1>1
  <2>2. /\ Len(InRevision(ga)) = 3 + 2 /\ InRevision(ga)[3 + 2] = a
        /\ Len(InRevision(gb)) = 3 + 2 /\ InRevision(gb)[3 + 2] = b
    BY <1>1, <1>6, <2>1, Zenon
  <2>3. 3 + 2 = 5
    OBVIOUS
  <2> QED
    BY <2>2, <2>3, Zenon
<1>10. /\ InPage(fa) = InPage(fb) => a = b
       /\ InRevision(fa) = InRevision(fb) => a = b
       /\ InRevision(ga) = InRevision(gb) => a = b
       /\ InPage(fa) # InRevision(fb) /\ InPage(fa) # InRevision(gb)
       /\ InRevision(fa) # InRevision(gb)
       /\ InPage(fa) # <<>> /\ InRevision(fa) # <<>> /\ InRevision(ga) # <<>>
  <2>1. Len(<<>>) = 0 /\ 0 # 3 /\ 0 # 4 /\ 0 # 5 /\ 3 # 4 /\ 3 # 5 /\ 4 # 5
    OBVIOUS
  <2> QED
    BY <1>7, <1>8, <1>9, <2>1, Zenon
<1> QED
  BY <1>10 DEF fa, fb, ga, gb

\* Which events offer what.
LEMMA OffersWhat ==
  ASSUME NEW h, NEW n
  PROVE  LET e == h.events[n]
             isText == e.kind = "text"
         IN /\ Offers(h, n, "title") <=> isText /\ Within(h, n) = InPage(<<"title">>)
            /\ Offers(h, n, "namespace") <=> isText /\ Within(h, n) = InPage(<<"ns">>)
            /\ Offers(h, n, "id") <=> isText /\ Within(h, n) = InRevision(<<"id">>)
            /\ Offers(h, n, "timestamp") <=> isText /\ Within(h, n) = InRevision(<<"timestamp">>)
            /\ Offers(h, n, "contributor_name") <=>
                 isText /\ Within(h, n) \in {InRevision(<<"contributor", "username">>),
                                             InRevision(<<"contributor", "ip">>)}
            /\ Offers(h, n, "contributor_id") <=>
                 isText /\ Within(h, n) = InRevision(<<"contributor", "id">>)
            /\ Offers(h, n, "sha1") <=>
                 isText /\ Within(h, n) = InRevision(<<"sha1">>) /\ e.text \in Hashes
            /\ Offers(h, n, "comment") <=> isText /\ Within(h, n) = InRevision(<<"comment">>)
            /\ \A field \in {"text", "minor"} :
                 Offers(h, n, field) <=>
                   \/ isText /\ Within(h, n) = InRevision(<<field>>)
                   \/ e.kind = "empty" /\ Append(Within(h, n), e.name) = InRevision(<<field>>)
BY DEF Offers

LEMMA OfferedWhat ==
  ASSUME NEW h, NEW n
  PROVE  LET e == h.events[n]
         IN /\ Offered(h, n, "title") = NormalizeTitle(AfterColon(e.text))
            /\ Offered(h, n, "namespace") = IF e.text \in Numbers THEN e.text ELSE Zero
            /\ Offered(h, n, "id") = IF e.text \in Numbers THEN <<e.text>> ELSE <<RandomId>>
            /\ Offered(h, n, "timestamp") = Present(e.text, Timestamps)
            /\ Offered(h, n, "contributor_name") = <<e.text>>
            /\ Offered(h, n, "contributor_id") = Present(e.text, Numbers)
            /\ Offered(h, n, "sha1") = <<e.text>>
            /\ Offered(h, n, "comment") = <<e.text>>
            /\ Offered(h, n, "minor") = TRUE
            /\ e.kind = "empty" => Offered(h, n, "text") = <<NormalText(<<>>)>>
            /\ e.kind = "text" =>
                 Offered(h, n, "text") = IF Last(h.open[n - 1]).attr = DeletedAttribute
                                         THEN <<DeletedText>> ELSE <<NormalText(e.text)>>
BY DEF Offered

\* A field with an event more.
LEMMA LatestStep ==
  ASSUME NEW value, NEW default, NEW h, NEW r \in Nat, NEW n \in Nat, r <= n, NEW field,
         Latest(value, default, h, r, n, field), NEW next,
         next = IF Offers(h, n + 1, field) THEN Offered(h, n + 1, field) ELSE value
  PROVE  Latest(next, default, h, r, n + 1, field)
<1>1. CASE Offers(h, n + 1, field)
  <2>1. n + 1 \in r + 1 .. n + 1 /\ \A j \in n + 1 + 1 .. n + 1 : ~Offers(h, j, field)
    OBVIOUS
  <2> QED
    BY <1>1, <2>1 DEF Latest
<1>2. CASE ~Offers(h, n + 1, field)
  <2>1. \A k \in r + 1 .. n + 1 : k \in r + 1 .. n \/ k = n + 1
    OBVIOUS
  <2>2. CASE value = default /\ \A k \in r + 1 .. n : ~Offers(h, k, field)
    BY <1>2, <2>1, <2>2 DEF Latest
  <2>3. CASE \E k \in r + 1 .. n :
               /\ Offers(h, k, field) /\ value = Offered(h, k, field)
               /\ \A j \in k + 1 .. n : ~Offers(h, j, field)
    <3>1. PICK k \in r + 1 .. n : /\ Offers(h, k, field) /\ value = Offered(h, k, field)
                                  /\ \A j \in k + 1 .. n : ~Offers(h, j, field)
      BY <2>3
    <3>2. k \in r + 1 .. n + 1 /\ \A j \in k + 1 .. n + 1 : j \in k + 1 .. n \/ j = n + 1
      OBVIOUS
    <3> QED
      BY <1>2, <3>1, <3>2 DEF Latest
  <2> QED
    BY <2>2, <2>3 DEF Latest
<1> QED
  BY <1>1, <1>2

\* No event has given anything yet.
LEMMA LatestNone ==
  ASSUME NEW default, NEW h, NEW n \in Nat, NEW field
  PROVE  Latest(default, default, h, n, n, field)
<1>1. \A k : k \notin n + 1 .. n
  OBVIOUS
<1> QED
  BY <1>1 DEF Latest

LEMMA LatestUnique ==
  ASSUME NEW v, NEW w, NEW default, NEW h, NEW r \in Nat, NEW n \in Nat, NEW field,
         Latest(v, default, h, r, n, field), Latest(w, default, h, r, n, field)
  PROVE  v = w
<1>1. CASE \A k \in r + 1 .. n : ~Offers(h, k, field)
  BY <1>1 DEF Latest
<1>2. CASE ~ \A k \in r + 1 .. n : ~Offers(h, k, field)
  <2>1. PICK k \in r + 1 .. n : /\ Offers(h, k, field) /\ v = Offered(h, k, field)
                                /\ \A j \in k + 1 .. n : ~Offers(h, j, field)
    BY <1>2 DEF Latest
  <2>2. PICK l \in r + 1 .. n : /\ Offers(h, l, field) /\ w = Offered(h, l, field)
                                /\ \A j \in l + 1 .. n : ~Offers(h, j, field)
    BY <1>2 DEF Latest
  <2>3. k = l \/ l \in k + 1 .. n \/ k \in l + 1 .. n
    OBVIOUS
  <2> QED
    BY <2>1, <2>2, <2>3
<1> QED
  BY <1>1, <1>2

-----------------------------------------------------------------------------
(* Revisions                                                               *)

\* No revision begins or ends with an event, so the one underway goes on.
LEMMA UnderwayOn ==
  ASSUME NEW h, NEW s \in Nat, NEW n \in Nat, ~IsStart(h.events, n + 1, "revision"),
         ~Shuts(h, n + 1, "revision"), ~Shuts(h, n + 1, "page")
  PROVE  \A r : Underway(h, s, r, n + 1) <=> Underway(h, s, r, n)
<1>1. ASSUME NEW r, Underway(h, s, r, n + 1) PROVE Underway(h, s, r, n)
  <2>1. r \in s + 1 .. n + 1 /\ IsStart(h.events, r, "revision")
    BY <1>1 DEF Underway
  <2>2. r \in s + 1 .. n
    BY <2>1
  <2>3. \A m \in r + 1 .. n : m \in r + 1 .. n + 1
    BY <2>2
  <2> QED
    BY <1>1, <2>1, <2>2, <2>3 DEF Underway
<1>2. ASSUME NEW r, Underway(h, s, r, n) PROVE Underway(h, s, r, n + 1)
  <2>1. r \in s + 1 .. n /\ IsStart(h.events, r, "revision")
    BY <1>2 DEF Underway
  <2>2. r \in s + 1 .. n + 1 /\ \A m \in r + 1 .. n + 1 : m \in r + 1 .. n \/ m = n + 1
    BY <2>1
  <2> QED
    BY <1>2, <2>1, <2>2 DEF Underway
<1> QED
  BY <1>1, <1>2

LEMMA UnderwayBegins ==
  ASSUME NEW h, NEW s \in Nat, NEW n \in Nat, s <= n, IsStart(h.events, n + 1, "revision")
  PROVE  Underway(h, s, n + 1, n + 1)
<1>1. n + 1 \in s + 1 .. n + 1 /\ \A m : m \notin n + 1 + 1 .. n + 1
  OBVIOUS
<1> QED
  BY <1>1 DEF Underway

LEMMA UnderwayEnds ==
  ASSUME NEW h, NEW s \in Nat, NEW n \in Nat, Shuts(h, n + 1, "revision") \/ Shuts(h, n + 1, "page")
  PROVE  \A r : ~Underway(h, s, r, n + 1)
<1> SUFFICES ASSUME NEW r, Underway(h, s, r, n + 1) PROVE FALSE
  OBVIOUS
<1>1. r \in s + 1 .. n + 1 /\ IsStart(h.events, r, "revision")
  BY DEF Underway
<1>2. r # n + 1
  BY <1>1 DEF IsStart, Shuts
<1>3. n + 1 \in r + 1 .. n + 1
  BY <1>1, <1>2
<1> QED
  BY <1>3 DEF Underway

LEMMA UnderwayUnique ==
  ASSUME NEW h, NEW s \in Nat, NEW n \in Nat, NEW q, NEW r, Underway(h, s, q, n), Underway(h, s, r, n)
  PROVE  q = r
<1>1. /\ q \in s + 1 .. n /\ IsStart(h.events, q, "revision")
      /\ r \in s + 1 .. n /\ IsStart(h.events, r, "revision")
  BY DEF Underway
<1>2. q = r \/ q \in r + 1 .. n \/ r \in q + 1 .. n
  BY <1>1
<1> QED
  BY <1>1, <1>2 DEF Underway

LEMMA ToldNew ==
  ASSUME NEW h, NEW n \in Nat
  PROVE  RevisionTold(NewBuilder, h, n, n)
BY Fresh, LatestNone DEF RevisionTold

LEMMA ToldStep ==
  ASSUME NEW h, NEW r \in Nat, NEW n \in Nat, r <= n, NEW b, RevisionTold(b, h, r, n),
         NEW c \in BuilderType,
         \A field \in RevisionFields :
           c[field] = IF Offers(h, n + 1, field) THEN Offered(h, n + 1, field) ELSE b[field]
  PROVE  RevisionTold(c, h, r, n + 1)
<1>1. ASSUME NEW field \in RevisionFields
      PROVE  Latest(c[field], NewBuilder[field], h, r, n + 1, field)
  <2>1. Latest(b[field], NewBuilder[field], h, r, n, field)
    BY DEF RevisionTold
  <2>2. c[field] = IF Offers(h, n + 1, field) THEN Offered(h, n + 1, field) ELSE b[field]
    OBVIOUS
  <2> QED
    BY <2>1, <2>2, LatestStep
<1> QED
  BY <1>1 DEF RevisionTold

LEMMA ToldUnique ==
  ASSUME NEW h, NEW r \in Nat, NEW n \in Nat, NEW b, NEW c,
         RevisionTold(b, h, r, n), RevisionTold(c, h, r, n)
  PROVE  Buildable(b) <=> Buildable(c)
<1>1. ASSUME NEW field \in RevisionFields PROVE b[field] = c[field]
  <2>1. /\ Latest(b[field], NewBuilder[field], h, r, n, field)
        /\ Latest(c[field], NewBuilder[field], h, r, n, field)
    BY DEF RevisionTold
  <2> QED
    BY <2>1, LatestUnique
<1>2. b["id"] = c["id"] /\ b["timestamp"] = c["timestamp"]
      /\ b["contributor_name"] = c["contributor_name"] /\ b["text"] = c["text"]
  BY <1>1 DEF RevisionFields
<1> QED
  BY <1>2 DEF Buildable

\* The end of a revision completes it if it has its mandatory fields.
LEMMA CompletesIs ==
  ASSUME NEW h, NEW s \in Nat, NEW n \in Nat, Shuts(h, n + 1, "revision"), NEW r, Underway(h, s, r, n),
         NEW b, RevisionTold(b, h, r, n)
  PROVE  RevisionEnds(b, h, s, n + 1) /\ (Completes(h, s, n + 1) <=> Buildable(b))
<1>1. (n + 1) - 1 = n /\ r \in 1 .. n /\ r \in Nat
  BY DEF Underway
<1>2. RevisionEnds(b, h, s, n + 1)
  BY <1>1 DEF RevisionEnds
<1>3. ASSUME NEW c, RevisionEnds(c, h, s, n + 1), Buildable(c) PROVE Buildable(b)
  <2>1. PICK q \in 1 .. n : Underway(h, s, q, n) /\ RevisionTold(c, h, q, n)
    BY <1>1, <1>3 DEF RevisionEnds
  <2>2. q = r
    BY <2>1, UnderwayUnique
  <2> QED
    BY <1>1, <1>3, <2>1, <2>2, ToldUnique
<1> QED
  BY <1>2, <1>3 DEF Completes

LEMMA CompletesNot ==
  ASSUME NEW h, NEW s \in Nat, NEW n \in Nat,
         ~Shuts(h, n + 1, "revision") \/ \A r : ~Underway(h, s, r, n)
  PROVE  ~Completes(h, s, n + 1)
<1>1. (n + 1) - 1 = n
  OBVIOUS
<1> QED
  BY <1>1 DEF Completes, RevisionEnds

-----------------------------------------------------------------------------
(* Places                                                                  *)

LEMMA EnumNone == Enumerates(<<>>, {})
<1>1. <<>> \in Seq(Nat) /\ DOMAIN <<>> = {}
  BY EmptySeq
<1> QED
  BY <1>1 DEF Enumerates, Range

LEMMA EnumAppend ==
  ASSUME NEW S, NEW places, Enumerates(places, S), NEW x \in Nat, \A y \in S : y < x
  PROVE  Enumerates(Append(places, x), S \cup {x})
<1>1. /\ places \in Seq(Nat) /\ DOMAIN places = 1 .. Len(places) /\ Len(places) \in Nat
      /\ \A i, j \in DOMAIN places : i < j => places[i] < places[j]
      /\ \A i \in DOMAIN places : places[i] \in S
      /\ \A y \in S : \E i \in DOMAIN places : places[i] = y
  BY LenProperties DEF Enumerates, Range
<1> DEFINE next == Append(places, x)
<1>2. /\ next \in Seq(Nat) /\ Len(next) = Len(places) + 1
      /\ \A i \in 1 .. Len(places) : next[i] = places[i]
      /\ next[Len(places) + 1] = x
  BY <1>1, AppendProperties
<1>3. next = Append(places, x)
  OBVIOUS
<1> HIDE DEF next
<1>4. DOMAIN next = 1 .. Len(places) + 1
  BY <1>2, LenProperties
<1>5. \A i \in 1 .. Len(places) + 1 : i \in 1 .. Len(places) \/ i = Len(places) + 1
  BY <1>1
<1>6. ASSUME NEW i \in DOMAIN next, NEW j \in DOMAIN next, i < j PROVE next[i] < next[j]
  <2>1. i \in 1 .. Len(places)
    BY <1>1, <1>4, <1>6
  <2>2. CASE j \in 1 .. Len(places)
    BY <1>1, <1>2, <1>6, <2>1, <2>2
  <2>3. CASE j = Len(places) + 1
    <3>1. next[i] \in S
      BY <1>1, <1>2, <2>1
    <3> QED
      BY <1>2, <2>3, <3>1
  <2> QED
    BY <1>4, <1>5, <2>2, <2>3
<1>7. \A i \in DOMAIN next : next[i] \in S \cup {x}
  BY <1>1, <1>2, <1>4, <1>5
<1>8. \A y \in S \cup {x} : \E i \in DOMAIN next : next[i] = y
  <2>1. ASSUME NEW y \in S PROVE \E i \in DOMAIN next : next[i] = y
    <3>1. PICK i \in DOMAIN places : places[i] = y
      BY <1>1
    <3>2. i \in 1 .. Len(places) + 1
      BY <1>1
    <3> QED
      BY <1>1, <1>2, <1>4, <3>1, <3>2
  <2>2. Len(places) + 1 \in DOMAIN next
    BY <1>1, <1>4
  <2> QED
    BY <1>2, <2>1, <2>2
<1>9. Range(next) = S \cup {x}
  BY <1>7, <1>8 DEF Range
<1> QED
  BY <1>2, <1>3, <1>6, <1>9 DEF Enumerates

LEMMA RevisionsNone ==
  ASSUME NEW h, NEW s, NEW n \in Nat
  PROVE  RevisionsTold(<<>>, h, s, n, n)
<1>1. {k \in n + 1 .. n : Completes(h, s, k)} = {}
  OBVIOUS
<1>2. <<>> \in Seq(RevisionType) /\ Len(<<>>) = 0 /\ DOMAIN <<>> = {}
  BY EmptySeq
<1> DEFINE places == <<>>
<1>3. Enumerates(places, {k \in n + 1 .. n : Completes(h, s, k)}) /\ Len(places) = 0 /\ DOMAIN places = {}
  BY <1>1, <1>2, EnumNone
<1> HIDE DEF places
<1> QED
  BY <1>2, <1>3 DEF RevisionsTold

LEMMA RevisionsStay ==
  ASSUME NEW h, NEW s, NEW m \in Nat, NEW n \in Nat, m <= n, NEW revisions,
         RevisionsTold(revisions, h, s, m, n), ~Completes(h, s, n + 1)
  PROVE  RevisionsTold(revisions, h, s, m, n + 1)
<1>1. {k \in m + 1 .. n + 1 : Completes(h, s, k)} = {k \in m + 1 .. n : Completes(h, s, k)}
  <2>1. \A k : k \in m + 1 .. n + 1 <=> k \in m + 1 .. n \/ k = n + 1
    OBVIOUS
  <2> QED
    BY <2>1
<1> QED
  BY <1>1 DEF RevisionsTold

LEMMA RevisionsGrow ==
  ASSUME NEW h, NEW s, NEW m \in Nat, NEW n \in Nat, m <= n, NEW revisions,
         RevisionsTold(revisions, h, s, m, n),
         NEW b, RevisionEnds(b, h, s, n + 1), Buildable(b), Built(b) \in RevisionType
  PROVE  RevisionsTold(Append(revisions, Built(b)), h, s, m, n + 1)
<1> DEFINE S == {k \in m + 1 .. n : Completes(h, s, k)}
           T == {k \in m + 1 .. n + 1 : Completes(h, s, k)}
<1>1. T = S \cup {n + 1} /\ \A y \in S : y < n + 1
  <2>1. \A k : k \in m + 1 .. n + 1 <=> k \in m + 1 .. n \/ k = n + 1
    OBVIOUS
  <2>2. Completes(h, s, n + 1)
    BY DEF Completes
  <2> QED
    BY <2>1, <2>2
<1>2. PICK places : /\ Enumerates(places, S) /\ Len(revisions) = Len(places)
                    /\ \A i \in DOMAIN places : \E c : RevisionEnds(c, h, s, places[i]) /\ revisions[i] = Built(c)
  BY DEF RevisionsTold
<1>3. Enumerates(Append(places, n + 1), T)
  <2> HIDE DEF S, T
  <2> QED
    BY <1>1, <1>2, EnumAppend
<1> DEFINE next == Append(places, n + 1)
           grown == Append(revisions, Built(b))
<1>4. places \in Seq(Nat) /\ revisions \in Seq(RevisionType) /\ Len(places) \in Nat
  BY <1>2, LenProperties DEF Enumerates, RevisionsTold
<1>5. /\ next \in Seq(Nat) /\ Len(next) = Len(places) + 1 /\ next[Len(places) + 1] = n + 1
      /\ \A i \in 1 .. Len(places) : next[i] = places[i]
  BY <1>4, AppendProperties
<1>6. /\ grown \in Seq(RevisionType) /\ Len(grown) = Len(revisions) + 1
      /\ grown[Len(revisions) + 1] = Built(b)
      /\ \A i \in 1 .. Len(revisions) : grown[i] = revisions[i]
  BY <1>4, AppendProperties
<1>7. Enumerates(next, T) /\ grown = Append(revisions, Built(b))
  BY <1>3
<1> HIDE DEF S, T, next, grown
<1>8. /\ DOMAIN next = 1 .. Len(places) + 1 /\ DOMAIN places = 1 .. Len(places)
      /\ \A i \in 1 .. Len(places) + 1 : i \in 1 .. Len(places) \/ i = Len(places) + 1
  BY <1>4, <1>5, LenProperties
<1>9. ASSUME NEW i \in DOMAIN next PROVE \E c : RevisionEnds(c, h, s, next[i]) /\ grown[i] = Built(c)
  <2>1. CASE i \in 1 .. Len(places)
    BY <1>2, <1>5, <1>6, <1>8, <2>1
  <2>2. CASE i = Len(places) + 1
    BY <1>2, <1>5, <1>6, <2>2
  <2> QED
    BY <1>8, <2>1, <2>2
<1>10. RevisionsTold(grown, h, s, m, n + 1)
  <2>1. Len(grown) = Len(next)
    BY <1>2, <1>5, <1>6
  <2> QED
    BY <1>6, <1>7, <1>9, <2>1, Zenon DEF RevisionsTold, T
<1> QED
  BY <1>7, <1>10

-----------------------------------------------------------------------------
(* Pages                                                                   *)

\* A page of which nothing has been told yet.
LEMMA PageNone ==
  ASSUME NEW h, NEW s, NEW n \in Nat
  PROVE  PageTold(NoPage, h, s, n, n)
<1>1. NoPage \in PageType /\ NoPage.title = <<>> /\ NoPage.namespace = Zero /\ NoPage.revisions = <<>>
  BY Fresh DEF NoPage
<1> QED
  BY <1>1, LatestNone, RevisionsNone DEF PageTold

\* A page with an event more.
LEMMA PageGoesOn ==
  ASSUME NEW h, NEW s, NEW m \in Nat, NEW n \in Nat, m <= n, NEW p, PageTold(p, h, s, m, n),
         NEW q \in PageType,
         q.title = IF Offers(h, n + 1, "title") THEN Offered(h, n + 1, "title") ELSE p.title,
         q.namespace = IF Offers(h, n + 1, "namespace") THEN Offered(h, n + 1, "namespace")
                       ELSE p.namespace,
         RevisionsTold(q.revisions, h, s, m, n + 1)
  PROVE  PageTold(q, h, s, m, n + 1)
<1>1. /\ Latest(p.title, <<>>, h, m, n, "title")
      /\ Latest(p.namespace, Zero, h, m, n, "namespace")
  BY DEF PageTold
<1>2. Latest(q.title, <<>>, h, m, n + 1, "title")
  BY <1>1, LatestStep
<1>3. Latest(q.namespace, Zero, h, m, n + 1, "namespace")
  BY <1>1, LatestStep
<1> QED
  BY <1>2, <1>3 DEF PageTold

\* Where the page that is being read begins.
LEMMA SinceIs ==
  ASSUME NEW h, NEW s \in Nat, NEW n \in Nat, s <= n, NEW pages, NEW places,
         PagesTold(pages, places, h, s, n)
  PROVE  /\ Len(places) \in Nat
         /\ Since(places, s, Len(places) + 1) \in s .. n
<1>1. /\ places \in Seq(Nat) /\ Range(places) \subseteq s + 1 .. n
      /\ Len(places) \in Nat /\ DOMAIN places = 1 .. Len(places)
  BY LenProperties DEF PagesTold, Enumerates
<1>2. CASE Len(places) = 0
  BY <1>2 DEF Since
<1>3. CASE Len(places) # 0
  <2>1. Len(places) \in DOMAIN places /\ Len(places) + 1 # 1 /\ (Len(places) + 1) - 1 = Len(places)
    BY <1>1, <1>3
  <2>2. places[Len(places)] \in s + 1 .. n
    BY <1>1, <2>1 DEF Range
  <2>3. Since(places, s, Len(places) + 1) = places[Len(places)]
    BY <2>1 DEF Since
  <2> QED
    BY <1>1, <2>2, <2>3
<1> QED
  BY <1>1, <1>2, <1>3

LEMMA PagesNone ==
  ASSUME NEW h, NEW s \in Nat
  PROVE  /\ PagesTold(<<>>, <<>>, h, s, s)
         /\ Since(<<>>, s, Len(<<>>) + 1) = s
<1>1. {k \in s + 1 .. s : Shuts(h, k, "page")} = {}
  OBVIOUS
<1>2. <<>> \in Seq(PageType) /\ Len(<<>>) = 0 /\ DOMAIN <<>> = {}
  BY EmptySeq
<1> DEFINE none == <<>>
<1>3. Enumerates(none, {k \in s + 1 .. s : Shuts(h, k, "page")})
      /\ none \in Seq(PageType) /\ Len(none) = 0 /\ DOMAIN none = {}
  BY <1>1, <1>2, EnumNone
<1> HIDE DEF none
<1>4. PagesTold(none, none, h, s, s) /\ Since(none, s, Len(none) + 1) = s
  BY <1>3 DEF PagesTold, Since
<1> QED
  BY <1>4 DEF none

LEMMA PagesStay ==
  ASSUME NEW h, NEW s \in Nat, NEW n \in Nat, NEW pages, NEW places,
         PagesTold(pages, places, h, s, n), ~Shuts(h, n + 1, "page")
  PROVE  PagesTold(pages, places, h, s, n + 1)
<1>1. {k \in s + 1 .. n + 1 : Shuts(h, k, "page")} = {k \in s + 1 .. n : Shuts(h, k, "page")}
  <2>1. \A k : k \in s + 1 .. n + 1 => k \in s + 1 .. n \/ k = n + 1
    OBVIOUS
  <2>2. \A k : k \in s + 1 .. n => k \in s + 1 .. n + 1
    OBVIOUS
  <2> QED
    BY <2>1, <2>2
<1> QED
  BY <1>1 DEF PagesTold

LEMMA PagesGrow ==
  ASSUME NEW h, NEW s \in Nat, NEW n \in Nat, s <= n, NEW pages, NEW places,
         PagesTold(pages, places, h, s, n), Shuts(h, n + 1, "page"),
         NEW p, PageTold(p, h, s, Since(places, s, Len(places) + 1), n)
  PROVE  LET grown == Append(places, n + 1)
         IN /\ PagesTold(Append(pages, p), grown, h, s, n + 1)
            /\ Since(grown, s, Len(grown) + 1) = n + 1
<1> DEFINE S == {k \in s + 1 .. n : Shuts(h, k, "page")}
           T == {k \in s + 1 .. n + 1 : Shuts(h, k, "page")}
<1>1. T = S \cup {n + 1} /\ \A y \in S : y < n + 1
  <2>1. \A k : k \in s + 1 .. n + 1 => k \in s + 1 .. n \/ k = n + 1
    OBVIOUS
  <2>2. \A k : k \in s + 1 .. n => k \in s + 1 .. n + 1
    OBVIOUS
  <2>3. n + 1 \in s + 1 .. n + 1
    OBVIOUS
  <2> QED
    BY <2>1, <2>2, <2>3
<1>2. /\ Enumerates(places, S) /\ pages \in Seq(PageType) /\ Len(pages) = Len(places)
      /\ \A i \in DOMAIN places : PageTold(pages[i], h, s, Since(places, s, i), places[i] - 1)
  BY DEF PagesTold
<1> HIDE DEF S, T
<1>3. Enumerates(Append(places, n + 1), T)
  BY <1>1, <1>2, EnumAppend
<1> DEFINE next == Append(places, n + 1)
           more == Append(pages, p)
<1>4. places \in Seq(Nat) /\ Len(places) \in Nat /\ p \in PageType
  BY <1>2, LenProperties DEF Enumerates, PageTold
<1>5. /\ next \in Seq(Nat) /\ Len(next) = Len(places) + 1 /\ next[Len(places) + 1] = n + 1
      /\ \A i \in 1 .. Len(places) : next[i] = places[i]
  BY <1>4, AppendProperties
<1>6. /\ more \in Seq(PageType) /\ Len(more) = Len(pages) + 1 /\ more[Len(pages) + 1] = p
      /\ \A i \in 1 .. Len(pages) : more[i] = pages[i]
  BY <1>2, <1>4, AppendProperties
<1>7. Enumerates(next, T) /\ next = Append(places, n + 1) /\ more = Append(pages, p)
  BY <1>3
<1> HIDE DEF next, more
<1>8. /\ DOMAIN next = 1 .. Len(places) + 1 /\ DOMAIN places = 1 .. Len(places)
      /\ \A i \in 1 .. Len(places) + 1 : i \in 1 .. Len(places) \/ i = Len(places) + 1
  BY <1>4, <1>5, LenProperties
<1>9. ASSUME NEW i \in 1 .. Len(places) + 1 PROVE Since(next, s, i) = Since(places, s, i)
  <2>1. CASE i = 1
    BY <2>1 DEF Since
  <2>2. CASE i # 1
    <3>1. i - 1 \in 1 .. Len(places)
      BY <1>4, <2>2
    <3> QED
      BY <1>5, <2>2, <3>1 DEF Since
  <2> QED
    BY <2>1, <2>2
<1>10. ASSUME NEW i \in DOMAIN next
       PROVE  PageTold(more[i], h, s, Since(next, s, i), next[i] - 1)
  <2>1. i \in 1 .. Len(places) + 1
    BY <1>8
  <2>2. CASE i \in 1 .. Len(places)
    <3>1. /\ PageTold(pages[i], h, s, Since(places, s, i), places[i] - 1)
          /\ more[i] = pages[i] /\ next[i] = places[i]
      BY <1>2, <1>5, <1>6, <1>8, <2>2
    <3> QED
      BY <1>9, <2>1, <3>1
  <2>3. CASE i = Len(places) + 1
    <3>1. more[i] = p /\ next[i] - 1 = n
      BY <1>2, <1>5, <1>6, <2>3
    <3> QED
      BY <1>9, <2>1, <2>3, <3>1
  <2> QED
    BY <1>8, <2>2, <2>3
<1>11. PagesTold(more, next, h, s, n + 1)
  BY <1>2, <1>5, <1>6, <1>7, <1>10 DEF PagesTold, T
<1>12. Since(next, s, Len(next) + 1) = n + 1
  <2>1. Len(next) + 1 # 1 /\ (Len(next) + 1) - 1 = Len(places) + 1
    BY <1>4, <1>5
  <2> QED
    BY <1>5, <2>1 DEF Since
<1> QED
  BY <1>7, <1>11, <1>12

-----------------------------------------------------------------------------
(* The builder                                                             *)

LEMMA PathsDiffer ==
  /\ \A a, b : InRevision(<<a>>) = InRevision(<<b>>) => a = b
  /\ \A a, b : InPage(<<a>>) = InPage(<<b>>) => a = b
  /\ \A a, b : InRevision(<<"contributor", a>>) = InRevision(<<"contributor", b>>) => a = b
  /\ \A a, b : InRevision(<<a>>) # InRevision(<<"contributor", b>>)
  /\ \A a, b : InPage(<<a>>) # InRevision(<<b>>) /\ InPage(<<a>>) # InRevision(<<"contributor", b>>)
<1>1. \A a, b : InRevision(<<a>>) = InRevision(<<b>>) => a = b
  BY FieldPaths, Zenon
<1>2. \A a, b : InPage(<<a>>) = InPage(<<b>>) => a = b
  BY FieldPaths, Zenon
<1>3. \A a, b : InRevision(<<"contributor", a>>) = InRevision(<<"contributor", b>>) => a = b
  BY FieldPaths, Zenon
<1>4. \A a, b : InRevision(<<a>>) # InRevision(<<"contributor", b>>)
  BY FieldPaths, Zenon
<1>5. \A a, b : InPage(<<a>>) # InRevision(<<b>>) /\ InPage(<<a>>) # InRevision(<<"contributor", b>>)
  BY FieldPaths, Zenon
<1> QED
  BY <1>1, <1>2, <1>3, <1>4, <1>5

\* What a text changes in a builder is what it offers.
LEMMA FilledFields ==
  ASSUME NEW h, NEW n, h.events[n].kind = "text", NEW b \in BuilderType, NEW c,
         c = Filled(b, Within(h, n), Last(h.open[n - 1]).attr, h.events[n].text)
  PROVE  \A field \in RevisionFields :
           c[field] = IF Offers(h, n, field) THEN Offered(h, n, field) ELSE b[field]
<1> DEFINE path == Within(h, n)
           attr == Last(h.open[n - 1]).attr
           text == h.events[n].text
           R(a) == InRevision(<<a>>)
           C(a) == InRevision(<<"contributor", a>>)
<1>1. /\ \A a, d : R(a) = R(d) => a = d
      /\ \A a, d : C(a) = C(d) => a = d
      /\ \A a, d : R(a) # C(d)
  BY PathsDiffer, Zenon
<1>2. /\ Offers(h, n, "id") <=> path = R("id")
      /\ Offers(h, n, "timestamp") <=> path = R("timestamp")
      /\ Offers(h, n, "contributor_name") <=> path \in {C("username"), C("ip")}
      /\ Offers(h, n, "contributor_id") <=> path = C("id")
      /\ Offers(h, n, "text") <=> path = R("text")
      /\ Offers(h, n, "sha1") <=> path = R("sha1") /\ text \in Hashes
      /\ Offers(h, n, "comment") <=> path = R("comment")
      /\ Offers(h, n, "minor") <=> path = R("minor")
  BY OffersWhat
<1>3. /\ Offered(h, n, "id") = IF text \in Numbers THEN <<text>> ELSE <<RandomId>>
      /\ Offered(h, n, "timestamp") = Present(text, Timestamps)
      /\ Offered(h, n, "contributor_name") = <<text>>
      /\ Offered(h, n, "contributor_id") = Present(text, Numbers)
      /\ Offered(h, n, "text") = IF attr = DeletedAttribute THEN <<DeletedText>> ELSE <<NormalText(text)>>
      /\ Offered(h, n, "sha1") = <<text>>
      /\ Offered(h, n, "comment") = <<text>>
      /\ Offered(h, n, "minor") = TRUE
  BY OfferedWhat
<1>4. b = [id |-> b.id, timestamp |-> b.timestamp, contributor_name |-> b.contributor_name,
           contributor_id |-> b.contributor_id, text |-> b.text, sha1 |-> b.sha1,
           comment |-> b.comment, minor |-> b.minor]
  BY DEF BuilderType
<1>5. \/ path = R("id") /\ c = [b EXCEPT !.id = IF text \in Numbers THEN <<text>> ELSE <<RandomId>>]
      \/ path = R("timestamp") /\ c = [b EXCEPT !.timestamp = Present(text, Timestamps)]
      \/ path \in {C("username"), C("ip")} /\ c = [b EXCEPT !.contributor_name = <<text>>]
      \/ path = C("id") /\ c = [b EXCEPT !.contributor_id = Present(text, Numbers)]
      \/ /\ path = R("text")
         /\ c = [b EXCEPT !.text = IF attr = DeletedAttribute THEN <<DeletedText>> ELSE <<NormalText(text)>>]
      \/ path = R("sha1") /\ c = [b EXCEPT !.sha1 = IF text \in Hashes THEN <<text>> ELSE b.sha1]
      \/ path = R("comment") /\ c = [b EXCEPT !.comment = <<text>>]
      \/ path = R("minor") /\ c = [b EXCEPT !.minor = TRUE]
      \/ /\ path \notin {R("id"), R("timestamp"), C("username"), C("ip"), C("id"), R("text"),
                         R("sha1"), R("comment"), R("minor")}
         /\ c = b
  BY DEF Filled
<1> HIDE DEF path, attr, text, R, C
<1>6. \A field \in RevisionFields :
        \/ field = "id" \/ field = "timestamp" \/ field = "contributor_name"
        \/ field = "contributor_id" \/ field = "text" \/ field = "sha1" \/ field = "comment"
        \/ field = "minor"
  BY DEF RevisionFields
<1> DEFINE Right(field) == c[field] = IF Offers(h, n, field) THEN Offered(h, n, field) ELSE b[field]
<1>7. CASE path = R("id") /\ c = [b EXCEPT !.id = IF text \in Numbers THEN <<text>> ELSE <<RandomId>>]
  <2>1. /\ path # R("timestamp") /\ path \notin {C("username"), C("ip")} /\ path # C("id")
        /\ path # R("text") /\ path # R("sha1") /\ path # R("comment") /\ path # R("minor")
    BY <1>1, <1>7
  <2> QED
    BY <1>2, <1>3, <1>4, <1>6, <1>7, <2>1
<1>8. CASE path = R("timestamp") /\ c = [b EXCEPT !.timestamp = Present(text, Timestamps)]
  <2>1. /\ path # R("id") /\ path \notin {C("username"), C("ip")} /\ path # C("id")
        /\ path # R("text") /\ path # R("sha1") /\ path # R("comment") /\ path # R("minor")
    BY <1>1, <1>8
  <2> QED
    BY <1>2, <1>3, <1>4, <1>6, <1>8, <2>1
<1>9. CASE path \in {C("username"), C("ip")} /\ c = [b EXCEPT !.contributor_name = <<text>>]
  <2>1. /\ path # R("id") /\ path # R("timestamp") /\ path # C("id")
        /\ path # R("text") /\ path # R("sha1") /\ path # R("comment") /\ path # R("minor")
    BY <1>1, <1>9
  <2> QED
    BY <1>2, <1>3, <1>4, <1>6, <1>9, <2>1
<1>10. CASE path = C("id") /\ c = [b EXCEPT !.contributor_id = Present(text, Numbers)]
  <2>1. /\ path # R("id") /\ path # R("timestamp") /\ path \notin {C("username"), C("ip")}
        /\ path # R("text") /\ path # R("sha1") /\ path # R("comment") /\ path # R("minor")
    BY <1>1, <1>10
  <2> QED
    BY <1>2, <1>3, <1>4, <1>6, <1>10, <2>1
<1>11. CASE /\ path = R("text")
            /\ c = [b EXCEPT !.text = IF attr = DeletedAttribute THEN <<DeletedText>> ELSE <<NormalText(text)>>]
  <2>1. /\ path # R("id") /\ path # R("timestamp") /\ path \notin {C("username"), C("ip")}
        /\ path # C("id") /\ path # R("sha1") /\ path # R("comment") /\ path # R("minor")
    BY <1>1, <1>11
  <2> QED
    BY <1>2, <1>3, <1>4, <1>6, <1>11, <2>1
<1>12. CASE path = R("sha1") /\ c = [b EXCEPT !.sha1 = IF text \in Hashes THEN <<text>> ELSE b.sha1]
  <2>1. /\ path # R("id") /\ path # R("timestamp") /\ path \notin {C("username"), C("ip")}
        /\ path # C("id") /\ path # R("text") /\ path # R("comment") /\ path # R("minor")
    BY <1>1, <1>12
  <2> QED
    BY <1>2, <1>3, <1>4, <1>6, <1>12, <2>1
<1>13. CASE path = R("comment") /\ c = [b EXCEPT !.comment = <<text>>]
  <2>1. /\ path # R("id") /\ path # R("timestamp") /\ path \notin {C("username"), C("ip")}
        /\ path # C("id") /\ path # R("text") /\ path # R("sha1") /\ path # R("minor")
    BY <1>1, <1>13
  <2> QED
    BY <1>2, <1>3, <1>4, <1>6, <1>13, <2>1
<1>14. CASE path = R("minor") /\ c = [b EXCEPT !.minor = TRUE]
  <2>1. /\ path # R("id") /\ path # R("timestamp") /\ path \notin {C("username"), C("ip")}
        /\ path # C("id") /\ path # R("text") /\ path # R("sha1") /\ path # R("comment")
    BY <1>1, <1>14
  <2> QED
    BY <1>2, <1>3, <1>4, <1>6, <1>14, <2>1
<1>15. CASE /\ path \notin {R("id"), R("timestamp"), C("username"), C("ip"), C("id"), R("text"),
                            R("sha1"), R("comment"), R("minor")}
            /\ c = b
  BY <1>2, <1>6, <1>15
<1> QED
  BY <1>5, <1>7, <1>8, <1>9, <1>10, <1>11, <1>12, <1>13, <1>14, <1>15

\* So does what an empty element changes.
LEMMA EmptyFields ==
  ASSUME NEW h, NEW n, h.events[n].kind = "empty", NEW b \in BuilderType, NEW c, NEW path,
         path = Append(Within(h, n), h.events[n].name),
         c = CASE path = InRevision(<<"text">>) -> [b EXCEPT !.text = <<NormalText(<<>>)>>]
               [] path = InRevision(<<"minor">>) -> [b EXCEPT !.minor = TRUE]
               [] OTHER -> b
  PROVE  \A field \in RevisionFields :
           c[field] = IF Offers(h, n, field) THEN Offered(h, n, field) ELSE b[field]
<1>1. InRevision(<<"text">>) # InRevision(<<"minor">>)
  BY PathsDiffer
<1>2. /\ ~Offers(h, n, "id") /\ ~Offers(h, n, "timestamp") /\ ~Offers(h, n, "contributor_name")
      /\ ~Offers(h, n, "contributor_id") /\ ~Offers(h, n, "sha1") /\ ~Offers(h, n, "comment")
      /\ Offers(h, n, "text") <=> path = InRevision(<<"text">>)
      /\ Offers(h, n, "minor") <=> path = InRevision(<<"minor">>)
  BY OffersWhat
<1>3. Offered(h, n, "text") = <<NormalText(<<>>)>> /\ Offered(h, n, "minor") = TRUE
  BY OfferedWhat
<1>4. b = [id |-> b.id, timestamp |-> b.timestamp, contributor_name |-> b.contributor_name,
           contributor_id |-> b.contributor_id, text |-> b.text, sha1 |-> b.sha1,
           comment |-> b.comment, minor |-> b.minor]
  BY DEF BuilderType
<1>5. \A field \in RevisionFields :
        \/ field = "id" \/ field = "timestamp" \/ field = "contributor_name"
        \/ field = "contributor_id" \/ field = "text" \/ field = "sha1" \/ field = "comment"
        \/ field = "minor"
  BY DEF RevisionFields
<1>6. CASE path = InRevision(<<"text">>)
  <2>1. c = [b EXCEPT !.text = <<NormalText(<<>>)>>]
    BY <1>1, <1>6
  <2> QED
    BY <1>1, <1>2, <1>3, <1>4, <1>5, <1>6, <2>1
<1>7. CASE path = InRevision(<<"minor">>)
  <2>1. c = [b EXCEPT !.minor = TRUE]
    BY <1>1, <1>7
  <2> QED
    BY <1>1, <1>2, <1>3, <1>4, <1>5, <1>7, <2>1
<1>8. CASE path # InRevision(<<"text">>) /\ path # InRevision(<<"minor">>)
  <2>1. c = b
    BY <1>8
  <2> QED
    BY <1>2, <1>5, <1>8, <2>1
<1> QED
  BY <1>6, <1>7, <1>8

-----------------------------------------------------------------------------
(* The history of a stream                                                 *)

\* An event opens or closes an element, or leaves all as they are.
LEMMA OnwardsIn ==
  ASSUME NEW tags \in Seq(TagType), NEW e \in EventType
  PROVE  Onwards(tags, e) \in Seq(TagType)
<1>1. TagOf(e) \in TagType
  BY TextsAre DEF TagOf, TagType, EventType
<1>2. Append(tags, TagOf(e)) \in Seq(TagType) /\ Front(tags) \in Seq(TagType) /\ <<>> \in Seq(TagType)
  BY <1>1, AppendProperties, FrontIn, EmptySeq
<1> QED
  BY <1>2 DEF Onwards

\* The first n steps of a history.
OpenUpTo(open, n) ==
  /\ open \in [0 .. n -> Seq(TagType)]
  /\ open[0] = IF source.single THEN <<MediaWikiTag>> ELSE <<>>
  /\ \A m \in 1 .. n : open[m] = Onwards(open[m - 1], source.events[m])

LEMMA HistoryExists ==
  ASSUME AtEvent
  PROVE  \E h : IsHistory(h)
<1>1. /\ source.events \in Seq(EventType) /\ Len(source.events) \in Nat
      /\ \A m \in 1 .. Len(source.events) : source.events[m] \in EventType
  BY StreamAssumption, LenProperties DEF AtEvent
<1> DEFINE first == IF source.single THEN <<MediaWikiTag>> ELSE <<>>
<1>2. first \in Seq(TagType)
  <2>1. MediaWikiTag \in TagType
    BY TextsAre, StreamAssumption DEF MediaWikiTag, TagType, NoAttribute
  <2> QED
    BY <2>1, EmptySeq
<1> HIDE DEF first
<1> DEFINE missing == {k \in 0 .. Len(source.events) : ~ \E open : OpenUpTo(open, k)}
<1>3. missing = {}
  <2> SUFFICES ASSUME missing # {} PROVE FALSE
    OBVIOUS
  <2>1. PICK k \in missing : \A l \in missing : k <= l
    <3>1. missing \in SUBSET Nat
      BY <1>1
    <3> HIDE DEF missing
    <3> QED
      BY <3>1, Smallest
  <2>2. k \in 0 .. Len(source.events) /\ ~ \E open : OpenUpTo(open, k)
    BY <2>1
  <2>3. CASE k = 0
    <3> DEFINE open == [m \in 0 .. 0 |-> first]
    <3>1. open \in [0 .. 0 -> Seq(TagType)] /\ open[0] = first
      BY <1>2
    <3> HIDE DEF open
    <3>2. OpenUpTo(open, 0)
      BY <3>1 DEF OpenUpTo, first
    <3> QED
      BY <2>2, <2>3, <3>2
  <2>4. CASE k # 0
    <3>1. k - 1 \in 0 .. Len(source.events) /\ ~(k <= k - 1) /\ k \in 1 .. Len(source.events)
      BY <1>1, <2>2, <2>4
    <3>2. k - 1 \notin missing
      <4> HIDE DEF missing
      <4> QED
        BY <2>1, <3>1
    <3>3. PICK before : OpenUpTo(before, k - 1)
      BY <3>1, <3>2
    <3>4. /\ before \in [0 .. k - 1 -> Seq(TagType)]
          /\ before[0] = first
          /\ \A m \in 1 .. k - 1 : before[m] = Onwards(before[m - 1], source.events[m])
      BY <3>3 DEF OpenUpTo, first
    <3>5. Onwards(before[k - 1], source.events[k]) \in Seq(TagType)
      <4>1. k - 1 \in 0 .. k - 1 /\ source.events[k] \in EventType
        BY <1>1, <3>1
      <4> QED
        BY <3>4, <4>1, OnwardsIn
    <3> DEFINE open == [m \in 0 .. k |-> IF m = k THEN Onwards(before[k - 1], source.events[k]) ELSE before[m]]
    <3>6. /\ 0 \in 0 .. k /\ 0 # k /\ k \in 0 .. k
          /\ \A m \in 0 .. k : m # k => m \in 0 .. k - 1
          /\ \A m \in 1 .. k : m \in 0 .. k /\ m - 1 \in 0 .. k /\ m - 1 # k /\ (m # k => m \in 1 .. k - 1)
      BY <3>1
    <3>7. open \in [0 .. k -> Seq(TagType)]
      BY <3>4, <3>5, <3>6
    <3>8. \A m \in 0 .. k : open[m] = IF m = k THEN Onwards(before[k - 1], source.events[k]) ELSE before[m]
      OBVIOUS
    <3> HIDE DEF open
    <3>9. open[0] = first
      BY <3>4, <3>6, <3>8
    <3>10. \A m \in 1 .. k : open[m] = Onwards(open[m - 1], source.events[m])
      BY <3>4, <3>6, <3>8
    <3>11. OpenUpTo(open, k)
      BY <3>7, <3>9, <3>10 DEF OpenUpTo, first
    <3> QED
      BY <2>2, <3>11
  <2> QED
    BY <2>3, <2>4
<1>4. PICK open : OpenUpTo(open, Len(source.events))
  <2>1. Len(source.events) \in 0 .. Len(source.events)
    BY <1>1
  <2> QED
    BY <1>3, <2>1
<1> DEFINE h == [events |-> source.events, single |-> source.single, open |-> open]
<1>5. h.events = source.events /\ h.single = source.single /\ h.open = open
  OBVIOUS
<1> HIDE DEF h
<1>6. IsHistory(h)
  BY <1>4, <1>5 DEF IsHistory, OpenUpTo
<1> QED
  BY <1>6

LEMMA HistoryFollows ==
  ASSUME IInv, NamespacesNumbered, SingleStage, Next, status' = "reading",
         NEW h, IsHistory(h), h.open[pos] = current_path
  PROVE  /\ IsHistory(h)' /\ h.open[pos'] = current_path'
         /\ pos \in Nat /\ pos' = pos + 1 /\ h.events[pos + 1].kind # "malformed"
<1>1. PICK f, kind : /\ Reads(f, kind)
                     /\ \/ kind = "start" /\ current_path' = Append(current_path, Tag)
                        \/ kind = "end" /\ current_path' = IF current_path = <<>> THEN <<>> ELSE Closed
                        \/ kind \in {"empty", "text", "reference"} /\ UNCHANGED current_path
  BY StepReads
<1>2. /\ pos \in Nat /\ pos' = pos + 1 /\ pos' \in DOMAIN source.events /\ source' = source
      /\ event = source.events[pos + 1] /\ event.kind = kind
  BY <1>1, ReadsEvent DEF event, Reads
<1>3. /\ h.events = source.events /\ pos + 1 \in 1 .. Len(source.events)
      /\ h.open[pos + 1] = Onwards(h.open[(pos + 1) - 1], source.events[pos + 1])
      /\ (pos + 1) - 1 = pos
  <2>1. DOMAIN source.events = 1 .. Len(source.events)
    BY StreamAssumption, LenProperties DEF IInv, AtEvent
  <2> QED
    BY <1>2, <2>1 DEF IsHistory
<1>4. Tag = TagOf(event)
  BY DEF Tag, TagOf
<1>5. current_path' = Onwards(current_path, event)
  BY <1>1, <1>2, <1>4 DEF Onwards, Closed
<1>6. IsHistory(h)'
  BY <1>2 DEF IsHistory
<1> QED
  BY <1>1, <1>2, <1>3, <1>5, <1>6

-----------------------------------------------------------------------------
(* The parser and what the events tell                                     *)

\* The builder is that of the revision underway after n events.
BuilderTold(h, s, n) ==
  \/ revision_builder = <<>> /\ \A r : ~Underway(h, s, r, n)
  \/ \E r, b : revision_builder = <<b>> /\ Underway(h, s, r, n) /\ RevisionTold(b, h, r, n)

\* The parser has returned, and is about to return, what the first n events tell.
ToldAt(h, s, places, n) ==
  LET m == Since(places, s, Len(places) + 1)
  IN /\ PagesBegin(h, s) /\ s <= n
     /\ PagesTold(returned, places, h, s, n)
     /\ PageTold(page, h, s, m, n)
     /\ started_page <=> \E k \in m + 1 .. n : IsStart(h.events, k, "page")
     /\ BuilderTold(h, s, n)

\* The parser is before the end of the site info and has not begun with pages.
BeforePages(h, n) ==
  /\ ~h.single /\ \A m \in 1 .. n : ~Shuts(h, m, "siteinfo")
  /\ returned = <<>> /\ page = NoPage /\ started_page = FALSE /\ revision_builder = <<>>

ToldInv ==
  status = "reading" =>
    /\ source.single => returned = <<>>
    /\ \A h : IsHistory(h) =>
         /\ h.open[pos] = current_path
         /\ \A k \in 1 .. pos : h.events[k].kind # "malformed"
         /\ stage = "parse_site_info" => BeforePages(h, pos)
         /\ stage = "parse_page" => \E s, places : ToldAt(h, s, places, pos)

\* The event a step reads, in a history.
LEMMA Here ==
  ASSUME IInv, NEW f, NEW kind, Reads(f, kind), NEW h, IsHistory(h), h.open[pos] = current_path
  PROVE  /\ pos \in Nat /\ pos' = pos + 1 /\ pos + 1 \in 1 .. Len(h.events) /\ (pos + 1) - 1 = pos
         /\ event = h.events[pos + 1] /\ h.events[pos + 1].kind = kind
         /\ source' = source /\ IsHistory(h)' /\ h.events = source.events /\ h.single = source.single
         /\ Within(h, pos + 1) = Path /\ h.open[(pos + 1) - 1] = current_path
         /\ \A name : Shuts(h, pos + 1, name) <=>
                        kind = "end" /\ current_path # <<>> /\ Last(current_path).name = name
         /\ \A name : IsStart(h.events, pos + 1, name) <=> kind = "start" /\ event.name = name
<1>1. /\ pos \in Nat /\ pos' = pos + 1 /\ pos' \in DOMAIN source.events /\ source' = source
      /\ event = source.events[pos + 1] /\ event.kind = kind
  BY ReadsEvent DEF event, Reads
<1>2. DOMAIN source.events = 1 .. Len(source.events)
  BY StreamAssumption, LenProperties DEF IInv, AtEvent
<1>3. h.events = source.events /\ h.single = source.single /\ (pos + 1) - 1 = pos
  BY <1>1 DEF IsHistory
<1>4. IsHistory(h)'
  BY <1>1 DEF IsHistory
<1>5. Within(h, pos + 1) = Path
  BY <1>3, PathIs DEF Within
<1> QED
  BY <1>1, <1>2, <1>3, <1>4, <1>5 DEF Shuts, IsStart

LEMMA BeginIs ==
  ASSUME NEW h, h.events \in Seq(EventType), NEW s, PagesBegin(h, s)
  PROVE  s \in Nat
<1>1. Len(h.events) \in Nat
  BY LenProperties
<1> QED
  BY <1>1 DEF PagesBegin

\* A builder with an event more that begins and ends no revision.
LEMMA BuilderGoesOn ==
  ASSUME NEW h, NEW s \in Nat, NEW n \in Nat, s <= n, BuilderTold(h, s, n),
         ~IsStart(h.events, n + 1, "revision"), ~Shuts(h, n + 1, "revision"), ~Shuts(h, n + 1, "page"),
         revision_builder = <<>> => revision_builder' = <<>>,
         \A b \in BuilderType : revision_builder = <<b>> =>
           \E c \in BuilderType :
             /\ revision_builder' = <<c>>
             /\ \A field \in RevisionFields :
                  c[field] = IF Offers(h, n + 1, field) THEN Offered(h, n + 1, field) ELSE b[field]
  PROVE  BuilderTold(h, s, n + 1)'
<1>1. \A r : Underway(h, s, r, n + 1) <=> Underway(h, s, r, n)
  BY UnderwayOn
<1>2. CASE revision_builder = <<>> /\ \A r : ~Underway(h, s, r, n)
  BY <1>1, <1>2 DEF BuilderTold
<1>3. CASE \E r, b : revision_builder = <<b>> /\ Underway(h, s, r, n) /\ RevisionTold(b, h, r, n)
  <2>1. PICK r, b : revision_builder = <<b>> /\ Underway(h, s, r, n) /\ RevisionTold(b, h, r, n)
    BY <1>3
  <2>2. b \in BuilderType /\ r \in Nat /\ r <= n
    BY <2>1 DEF RevisionTold, Underway
  <2>3. PICK c \in BuilderType :
          /\ revision_builder' = <<c>>
          /\ \A field \in RevisionFields :
               c[field] = IF Offers(h, n + 1, field) THEN Offered(h, n + 1, field) ELSE b[field]
    BY <2>1, <2>2
  <2>4. RevisionTold(c, h, r, n + 1)
    BY <2>1, <2>2, <2>3, ToldStep
  <2> QED
    BY <1>1, <2>1, <2>3, <2>4 DEF BuilderTold
<1> QED
  BY <1>2, <1>3 DEF BuilderTold

\* A step within a page.
LEMMA ToldGoesOn ==
  ASSUME NEW h, NEW s \in Nat, NEW n \in Nat, NEW places, ToldAt(h, s, places, n),
         ~Shuts(h, n + 1, "page"), UNCHANGED returned, page' \in PageType,
         page'.title = IF Offers(h, n + 1, "title") THEN Offered(h, n + 1, "title") ELSE page.title,
         page'.namespace = IF Offers(h, n + 1, "namespace") THEN Offered(h, n + 1, "namespace")
                           ELSE page.namespace,
         \A m \in Nat : m <= n /\ RevisionsTold(page.revisions, h, s, m, n)
           => RevisionsTold(page'.revisions, h, s, m, n + 1),
         started_page' <=> started_page \/ IsStart(h.events, n + 1, "page"),
         BuilderTold(h, s, n + 1)'
  PROVE  ToldAt(h, s, places, n + 1)'
<1> DEFINE m == Since(places, s, Len(places) + 1)
<1>1. s <= n /\ PagesBegin(h, s) /\ PagesTold(returned, places, h, s, n)
  BY DEF ToldAt
<1>2. m \in s .. n
  BY <1>1, SinceIs
<1>3. PageTold(page, h, s, m, n)
  BY DEF ToldAt
<1>4. started_page <=> \E k \in m + 1 .. n : IsStart(h.events, k, "page")
  BY DEF ToldAt
<1>5. m = Since(places, s, Len(places) + 1)
  OBVIOUS
<1> HIDE DEF m
<1>6. m \in Nat /\ m <= n
  BY <1>2
<1>7. RevisionsTold(page'.revisions, h, s, m, n + 1)
  BY <1>3, <1>6 DEF PageTold
<1>8. PageTold(page', h, s, m, n + 1)
  BY <1>3, <1>6, <1>7, PageGoesOn
<1>9. started_page' <=> \E k \in m + 1 .. n + 1 : IsStart(h.events, k, "page")
  <2>1. \A k : k \in m + 1 .. n + 1 <=> k \in m + 1 .. n \/ k = n + 1
    BY <1>6
  <2> QED
    BY <1>4, <2>1
<1>10. PagesTold(returned', places, h, s, n + 1) /\ s <= n + 1
  BY <1>1, PagesStay
<1> QED
  BY <1>1, <1>5, <1>8, <1>9, <1>10 DEF ToldAt

\* Nothing is told of a page or revision by an event that offers no field.
LEMMA NothingOffered ==
  ASSUME NEW h, NEW s \in Nat, NEW n \in Nat, NEW places, ToldAt(h, s, places, n),
         PageStateType, \A field : ~Offers(h, n + 1, field),
         ~Shuts(h, n + 1, "page"), ~Shuts(h, n + 1, "revision"), UNCHANGED <<returned, page>>,
         started_page' <=> started_page \/ IsStart(h.events, n + 1, "page"),
         \/ UNCHANGED revision_builder /\ ~IsStart(h.events, n + 1, "revision")
         \/ revision_builder' = <<NewBuilder>> /\ IsStart(h.events, n + 1, "revision")
  PROVE  ToldAt(h, s, places, n + 1)'
<1>1. BuilderTold(h, s, n) /\ s <= n
  BY DEF ToldAt
<1>2. BuilderTold(h, s, n + 1)'
  <2>1. CASE UNCHANGED revision_builder /\ ~IsStart(h.events, n + 1, "revision")
    BY <1>1, <2>1, BuilderGoesOn
  <2>2. CASE revision_builder' = <<NewBuilder>> /\ IsStart(h.events, n + 1, "revision")
    <3>1. Underway(h, s, n + 1, n + 1) /\ RevisionTold(NewBuilder, h, n + 1, n + 1)
      BY <1>1, <2>2, UnderwayBegins, ToldNew
    <3> QED
      BY <2>2, <3>1 DEF BuilderTold
  <2> QED
    BY <2>1, <2>2
<1>3. ~Completes(h, s, n + 1)
  BY CompletesNot
<1>4. \A m \in Nat : m <= n /\ RevisionsTold(page.revisions, h, s, m, n)
        => RevisionsTold(page.revisions, h, s, m, n + 1)
  BY <1>3, RevisionsStay
<1>5. page' \in PageType
  BY DEF PageStateType
<1> QED
  BY <1>2, <1>4, <1>5, ToldGoesOn

\* A text or an empty element in a revision.
LEMMA FieldOffered ==
  ASSUME NEW h, NEW s \in Nat, NEW n \in Nat, NEW places, ToldAt(h, s, places, n),
         PageStateType, ~Offers(h, n + 1, "title"), ~Offers(h, n + 1, "namespace"),
         h.events[n + 1].kind \in {"text", "empty"}, UNCHANGED <<returned, page, started_page>>,
         revision_builder = <<>> => revision_builder' = <<>>,
         \A b \in BuilderType : revision_builder = <<b>> =>
           \E c \in BuilderType :
             /\ revision_builder' = <<c>>
             /\ \A field \in RevisionFields :
                  c[field] = IF Offers(h, n + 1, field) THEN Offered(h, n + 1, field) ELSE b[field]
  PROVE  ToldAt(h, s, places, n + 1)'
<1>1. BuilderTold(h, s, n) /\ s <= n
  BY DEF ToldAt
<1>2. \A name : ~Shuts(h, n + 1, name) /\ ~IsStart(h.events, n + 1, name)
  BY DEF Shuts, IsStart
<1>3. BuilderTold(h, s, n + 1)'
  BY <1>1, <1>2, BuilderGoesOn
<1>4. ~Completes(h, s, n + 1)
  BY <1>2, CompletesNot
<1>5. \A m \in Nat : m <= n /\ RevisionsTold(page.revisions, h, s, m, n)
        => RevisionsTold(page.revisions, h, s, m, n + 1)
  BY <1>4, RevisionsStay
<1>6. page' \in PageType
  BY DEF PageStateType
<1> QED
  BY <1>2, <1>3, <1>5, <1>6, ToldGoesOn

\* In a step, n is the number of events read before it.
Place(h, n) == IInv /\ IsHistory(h) /\ h.open[pos] = current_path /\ n = pos

LEMMA QuietTold ==
  ASSUME NEW h, NEW s \in Nat, NEW n \in Nat, NEW places, ToldAt(h, s, places, n), Place(h, n),
         \/ PassOver("parse_page") \/ CloseOther("parse_page", {"revision", "page"})
         \/ Open
  PROVE  ToldAt(h, s, places, n + 1)'
<1>1. PageStateType
  BY DEF Place, IInv
<1>2. CASE PassOver("parse_page")
  <2>1. Reads("parse_page", "reference") /\ UNCHANGED <<returned, page, started_page, revision_builder>>
    BY <1>2 DEF PassOver, pageVars
  <2>2. /\ h.events[n + 1].kind = "reference"
        /\ \A name : ~Shuts(h, n + 1, name) /\ ~IsStart(h.events, n + 1, name)
    <3>1. h.events[n + 1].kind = "reference"
      BY <2>1, Here DEF Place
    <3> QED
      BY <3>1 DEF Shuts, IsStart
  <2>3. \A field : ~Offers(h, n + 1, field)
    BY <2>2 DEF Offers
  <2> QED
    BY <1>1, <2>1, <2>2, <2>3, NothingOffered
<1>3. CASE CloseOther("parse_page", {"revision", "page"})
  <2>1. /\ Reads("parse_page", "end") /\ UNCHANGED <<returned, page, started_page, revision_builder>>
        /\ ~Closes("revision") /\ ~Closes("page") /\ ~(Strict /\ Mismatched)
    BY <1>3 DEF CloseOther, pageVars
  <2>2. /\ h.events[n + 1].kind = "end"
        /\ \A name : ~IsStart(h.events, n + 1, name)
        /\ ~Shuts(h, n + 1, "revision") /\ ~Shuts(h, n + 1, "page")
    <3>1. /\ h.events[n + 1].kind = "end"
          /\ \A name : Shuts(h, n + 1, name) <=> current_path # <<>> /\ Last(current_path).name = name
      BY <2>1, Here DEF Place
    <3>2. ~(current_path # <<>> /\ Last(current_path).name = "revision")
      BY <2>1 DEF Closes
    <3>3. ~(current_path # <<>> /\ Last(current_path).name = "page")
      BY <2>1 DEF Closes
    <3> QED
      BY <3>1, <3>2, <3>3 DEF IsStart
  <2>3. \A field : ~Offers(h, n + 1, field)
    BY <2>2 DEF Offers
  <2> QED
    BY <1>1, <2>1, <2>2, <2>3, NothingOffered
<1>4. CASE Open
  <2>1. /\ Reads("parse_page", "start") /\ UNCHANGED <<returned, page>>
        /\ started_page' = (started_page \/ event.name = "page")
        /\ revision_builder' = IF event.name = "revision" THEN <<NewBuilder>> ELSE revision_builder
    BY <1>4 DEF Open
  <2>2. /\ h.events[n + 1].kind = "start"
        /\ \A name : IsStart(h.events, n + 1, name) <=> event.name = name
        /\ \A name : ~Shuts(h, n + 1, name)
    BY <2>1, Here DEF Place
  <2>3. \A field : ~Offers(h, n + 1, field)
    BY <2>2 DEF Offers
  <2> QED
    BY <1>1, <2>1, <2>2, <2>3, NothingOffered
<1> QED
  BY <1>2, <1>3, <1>4

LEMMA EmptyTold ==
  ASSUME NEW h, NEW s \in Nat, NEW n \in Nat, NEW places, ToldAt(h, s, places, n), Place(h, n),
         EmptyElement
  PROVE  ToldAt(h, s, places, n + 1)'
<1>1. Reads("parse_page", "empty") /\ UNCHANGED <<returned, page, started_page>>
  BY DEF EmptyElement
<1>2. /\ h.events[n + 1].kind = "empty" /\ Within(h, n + 1) = Path /\ event = h.events[n + 1]
  BY <1>1, Here DEF Place
<1>3. ~Offers(h, n + 1, "title") /\ ~Offers(h, n + 1, "namespace")
  BY <1>2, OffersWhat
<1>4. PageStateType /\ IInv
  BY DEF Place, IInv
<1> DEFINE path == Append(Path, event.name)
<1>5. revision_builder' =
        CASE path = InRevision(<<"text">>) ->
               Building([revision_builder[1] EXCEPT !.text = <<NormalText(<<>>)>>])
          [] path = InRevision(<<"minor">>) -> Building([revision_builder[1] EXCEPT !.minor = TRUE])
          [] OTHER -> revision_builder
  BY DEF EmptyElement
<1>6. revision_builder = <<>> => revision_builder' = <<>>
  BY <1>5 DEF Building
<1>7. ASSUME NEW b \in BuilderType, revision_builder = <<b>>
      PROVE  \E c \in BuilderType :
               /\ revision_builder' = <<c>>
               /\ \A field \in RevisionFields :
                    c[field] = IF Offers(h, n + 1, field) THEN Offered(h, n + 1, field) ELSE b[field]
  <2> DEFINE c == CASE path = InRevision(<<"text">>) -> [b EXCEPT !.text = <<NormalText(<<>>)>>]
                    [] path = InRevision(<<"minor">>) -> [b EXCEPT !.minor = TRUE]
                    [] OTHER -> b
  <2>1. revision_builder # <<>> /\ revision_builder[1] = b
    BY <1>7
  <2>2. revision_builder' = <<c>>
    <3>1. \A d : Building(d) = <<d>>
      BY <2>1 DEF Building
    <3>2. CASE path = InRevision(<<"text">>)
      BY <1>5, <2>1, <3>1, <3>2, PathsDiffer
    <3>3. CASE path # InRevision(<<"text">>) /\ path = InRevision(<<"minor">>)
      BY <1>5, <2>1, <3>1, <3>3
    <3>4. CASE path # InRevision(<<"text">>) /\ path # InRevision(<<"minor">>)
      BY <1>5, <1>7, <3>4
    <3> QED
      BY <3>2, <3>3, <3>4
  <2>3. \A field \in RevisionFields :
          c[field] = IF Offers(h, n + 1, field) THEN Offered(h, n + 1, field) ELSE b[field]
    BY <1>2, EmptyFields
  <2>4. c \in BuilderType
    <3>1. NormalText(<<>>) \in TextType
      BY TextsAre DEF NormalText, TextType
    <3>2. <<NormalText(<<>>)>> \in Option(TextType)
      BY <3>1, Options
    <3> QED
      BY <3>2 DEF BuilderType
  <2> QED
    BY <2>2, <2>3, <2>4
<1> QED
  BY <1>1, <1>2, <1>3, <1>4, <1>6, <1>7, FieldOffered

LEMMA OtherTextTold ==
  ASSUME NEW h, NEW s \in Nat, NEW n \in Nat, NEW places, ToldAt(h, s, places, n), Place(h, n),
         OtherText
  PROVE  ToldAt(h, s, places, n + 1)'
<1>1. /\ Reads("parse_page", "text") /\ UNCHANGED <<returned, page, started_page>>
      /\ Path \notin {InPage(<<"title">>), InPage(<<"ns">>)}
      /\ revision_builder' =
           IF current_path = <<>> THEN revision_builder
           ELSE Building(Filled(revision_builder[1], Path, Last(current_path).attr, event.text))
  BY DEF OtherText
<1>2. /\ h.events[n + 1].kind = "text" /\ Within(h, n + 1) = Path /\ event = h.events[n + 1]
      /\ h.open[(n + 1) - 1] = current_path
  BY <1>1, Here DEF Place
<1>3. ~Offers(h, n + 1, "title") /\ ~Offers(h, n + 1, "namespace")
  BY <1>1, <1>2, OffersWhat
<1>4. PageStateType /\ IInv
  BY DEF Place, IInv
<1>5. revision_builder = <<>> => revision_builder' = <<>>
  BY <1>1 DEF Building
<1>6. ASSUME NEW b \in BuilderType, revision_builder = <<b>>
      PROVE  \E c \in BuilderType :
               /\ revision_builder' = <<c>>
               /\ \A field \in RevisionFields :
                    c[field] = IF Offers(h, n + 1, field) THEN Offered(h, n + 1, field) ELSE b[field]
  <2>1. revision_builder # <<>> /\ revision_builder[1] = b
    BY <1>6
  <2>2. CASE current_path = <<>>
    <3>1. Within(h, n + 1) = <<>>
      BY <1>2, <2>2, PathIs DEF PathOf
    <3>2. \A field \in RevisionFields : ~Offers(h, n + 1, field)
      <4>1. \A a, d : InRevision(<<a>>) # <<>> /\ InRevision(<<d, a>>) # <<>>
        BY FieldPaths, Zenon
      <4> QED
        BY <1>2, <3>1, <4>1, OffersWhat DEF RevisionFields
    <3> QED
      BY <1>1, <1>6, <2>2, <3>2
  <2>3. CASE current_path # <<>>
    <3> DEFINE c == Filled(b, Path, Last(current_path).attr, event.text)
    <3>1. revision_builder' = <<c>>
      BY <1>1, <2>1, <2>3 DEF Building
    <3>2. \A field \in RevisionFields :
            c[field] = IF Offers(h, n + 1, field) THEN Offered(h, n + 1, field) ELSE b[field]
      BY <1>2, FilledFields
    <3>3. c \in BuilderType
      BY <1>1, <1>4, ReadsEvent, FilledIn
    <3> QED
      BY <3>1, <3>2, <3>3
  <2> QED
    BY <2>2, <2>3
<1> QED
  BY <1>1, <1>2, <1>3, <1>4, <1>5, <1>6, FieldOffered

LEMMA PageTextTold ==
  ASSUME NEW h, NEW s \in Nat, NEW n \in Nat, NEW places, ToldAt(h, s, places, n), Place(h, n),
         PageText, page' \in PageType
  PROVE  ToldAt(h, s, places, n + 1)'
<1>1. /\ Reads("parse_page", "text") /\ UNCHANGED <<returned, started_page, revision_builder>>
      /\ Path \in {InPage(<<"title">>), InPage(<<"ns">>)}
      /\ page' = IF Path = InPage(<<"title">>)
                 THEN [page EXCEPT !.title = NormalizeTitle(AfterColon(event.text))]
                 ELSE [page EXCEPT !.namespace = IF event.text \in Numbers THEN event.text ELSE Zero]
  BY DEF PageText
<1>2. /\ h.events[n + 1].kind = "text" /\ Within(h, n + 1) = Path /\ event = h.events[n + 1]
  BY <1>1, Here DEF Place
<1>3. \A name : ~Shuts(h, n + 1, name) /\ ~IsStart(h.events, n + 1, name)
  BY <1>2 DEF Shuts, IsStart
<1>4. page = [title |-> page.title, namespace |-> page.namespace, revisions |-> page.revisions]
  BY DEF Place, IInv, PageStateType, PageType
<1>5. /\ Offers(h, n + 1, "title") <=> Path = InPage(<<"title">>)
      /\ Offers(h, n + 1, "namespace") <=> Path = InPage(<<"ns">>)
  BY <1>2, OffersWhat
<1>6. InPage(<<"title">>) # InPage(<<"ns">>)
  BY PathsDiffer
<1>7. /\ Offered(h, n + 1, "title") = NormalizeTitle(AfterColon(event.text))
      /\ Offered(h, n + 1, "namespace") = IF event.text \in Numbers THEN event.text ELSE Zero
  BY <1>2, OfferedWhat
<1>8. /\ page'.title = IF Offers(h, n + 1, "title") THEN Offered(h, n + 1, "title") ELSE page.title
      /\ page'.namespace = IF Offers(h, n + 1, "namespace") THEN Offered(h, n + 1, "namespace")
                           ELSE page.namespace
      /\ page'.revisions = page.revisions
  <2>1. CASE Path = InPage(<<"title">>)
    BY <1>1, <1>4, <1>5, <1>6, <1>7, <2>1
  <2>2. CASE Path # InPage(<<"title">>)
    BY <1>1, <1>4, <1>5, <1>7, <2>2
  <2> QED
    BY <2>1, <2>2
<1>9. \A field \in RevisionFields : ~Offers(h, n + 1, field)
  <2> DEFINE R(a) == InRevision(<<a>>)
             C(a) == InRevision(<<"contributor", a>>)
  <2>1. \A a : Path # R(a) /\ Path # C(a)
    BY <1>1, PathsDiffer
  <2>2. /\ Offers(h, n + 1, "id") => Path = R("id")
        /\ Offers(h, n + 1, "timestamp") => Path = R("timestamp")
        /\ Offers(h, n + 1, "contributor_name") => Path \in {C("username"), C("ip")}
        /\ Offers(h, n + 1, "contributor_id") => Path = C("id")
        /\ Offers(h, n + 1, "sha1") => Path = R("sha1")
        /\ Offers(h, n + 1, "comment") => Path = R("comment")
        /\ Offers(h, n + 1, "text") => Path = R("text")
        /\ Offers(h, n + 1, "minor") => Path = R("minor")
    BY <1>2, OffersWhat
  <2> HIDE DEF R, C
  <2> QED
    BY <2>1, <2>2 DEF RevisionFields
<1>10. BuilderTold(h, s, n) /\ s <= n
  BY DEF ToldAt
<1>11. BuilderTold(h, s, n + 1)'
  BY <1>1, <1>3, <1>9, <1>10, BuilderGoesOn
<1>12. ~Completes(h, s, n + 1)
  BY <1>3, CompletesNot
<1>13. \A m \in Nat : m <= n /\ RevisionsTold(page.revisions, h, s, m, n)
         => RevisionsTold(page'.revisions, h, s, m, n + 1)
  BY <1>8, <1>12, RevisionsStay
<1> QED
  BY <1>1, <1>3, <1>8, <1>11, <1>13, ToldGoesOn

LEMMA EndRevisionTold ==
  ASSUME NEW h, NEW s \in Nat, NEW n \in Nat, NEW places, ToldAt(h, s, places, n), Place(h, n),
         EndRevision, page' \in PageType
  PROVE  /\ ToldAt(h, s, places, n + 1)'
         /\ MissesField => \E b : RevisionEnds(b, h, s, n + 1) /\ ~Buildable(b)
<1>1. /\ Reads("parse_page", "end") /\ Closes("revision") /\ UNCHANGED <<returned, started_page>>
      /\ revision_builder' = <<>>
      /\ page' = IF revision_builder = <<>> \/ MissesField THEN page
                 ELSE [page EXCEPT !.revisions = Append(@, Built(revision_builder[1]))]
  BY DEF EndRevision
<1>2. /\ h.events[n + 1].kind = "end"
      /\ \A name : Shuts(h, n + 1, name) <=> current_path # <<>> /\ Last(current_path).name = name
  BY <1>1, Here DEF Place
<1>3. Shuts(h, n + 1, "revision") /\ ~Shuts(h, n + 1, "page")
  <2>1. current_path # <<>> /\ Last(current_path).name = "revision"
    BY <1>1 DEF Closes
  <2> QED
    BY <1>2, <2>1
<1>4. ~IsStart(h.events, n + 1, "page") /\ \A field : ~Offers(h, n + 1, field)
  BY <1>2 DEF IsStart, Offers
<1>5. page = [title |-> page.title, namespace |-> page.namespace, revisions |-> page.revisions]
  BY DEF Place, IInv, PageStateType, PageType
<1>6. page'.title = page.title /\ page'.namespace = page.namespace
  BY <1>1, <1>5
<1>7. BuilderTold(h, s, n + 1)'
  <2>1. \A r : ~Underway(h, s, r, n + 1)
    BY <1>3, UnderwayEnds
  <2> QED
    BY <1>1, <2>1 DEF BuilderTold
<1> DEFINE Grown == \A m \in Nat : m <= n /\ RevisionsTold(page.revisions, h, s, m, n)
                      => RevisionsTold(page'.revisions, h, s, m, n + 1)
           Missed == MissesField => \E b : RevisionEnds(b, h, s, n + 1) /\ ~Buildable(b)
<1>8. BuilderTold(h, s, n)
  BY DEF ToldAt
<1>9. ASSUME revision_builder = <<>> /\ \A r : ~Underway(h, s, r, n) PROVE Grown /\ Missed
  <2>1. ~Completes(h, s, n + 1)
    BY <1>9, CompletesNot
  <2>2. page' = page /\ ~MissesField
    BY <1>1, <1>9 DEF MissesField
  <2>3. Grown
    BY <2>1, <2>2, RevisionsStay
  <2> QED
    BY <2>2, <2>3
<1>10. ASSUME \E r, b : revision_builder = <<b>> /\ Underway(h, s, r, n) /\ RevisionTold(b, h, r, n)
       PROVE  Grown /\ Missed
  <2>1. PICK r, b : revision_builder = <<b>> /\ Underway(h, s, r, n) /\ RevisionTold(b, h, r, n)
    BY <1>10
  <2>2. RevisionEnds(b, h, s, n + 1) /\ (Completes(h, s, n + 1) <=> Buildable(b))
    BY <1>3, <2>1, CompletesIs
  <2>3. revision_builder # <<>> /\ revision_builder[1] = b /\ b \in BuilderType
    BY <2>1 DEF RevisionTold
  <2>4. MissesField <=> ~Buildable(b)
    BY <2>3 DEF MissesField
  <2>5. CASE ~Buildable(b)
    <3>1. page' = page /\ ~Completes(h, s, n + 1)
      BY <1>1, <2>2, <2>4, <2>5
    <3>2. Grown
      BY <3>1, RevisionsStay
    <3> QED
      BY <2>2, <2>5, <3>2
  <2>6. CASE Buildable(b)
    <3>1. page' = [page EXCEPT !.revisions = Append(@, Built(b))]
      BY <1>1, <2>3, <2>4, <2>6
    <3>2. page'.revisions = Append(page.revisions, Built(b))
      BY <1>5, <3>1
    <3>3. Built(b) \in RevisionType
      BY <2>3, <2>6, BuiltIn
    <3>4. \A m \in Nat : m <= n /\ RevisionsTold(page.revisions, h, s, m, n)
            => RevisionsTold(Append(page.revisions, Built(b)), h, s, m, n + 1)
      BY <2>2, <2>6, <3>3, RevisionsGrow
    <3>5. Grown
      BY <3>2, <3>4
    <3> QED
      BY <2>4, <2>6, <3>5
  <2> QED
    BY <2>5, <2>6
<1>11. Grown /\ Missed
  BY <1>8, <1>9, <1>10 DEF BuilderTold
<1>12. ToldAt(h, s, places, n + 1)'
  BY <1>1, <1>3, <1>4, <1>6, <1>7, <1>11, ToldGoesOn
<1> QED
  BY <1>11, <1>12

\* The end of a page: another one is told, and nothing of the one after it.
LEMMA EndPageTold ==
  ASSUME NEW h, NEW s \in Nat, NEW n \in Nat, NEW places, ToldAt(h, s, places, n), Place(h, n),
         EndPage
  PROVE  ToldAt(h, s, Append(places, n + 1), n + 1)'
<1>1. /\ Reads("parse_page", "end") /\ Closes("page") /\ returned' = Append(returned, page)
      /\ page' = NoPage /\ started_page' = FALSE /\ revision_builder' = <<>>
  BY DEF EndPage
<1>2. /\ h.events[n + 1].kind = "end"
      /\ \A name : Shuts(h, n + 1, name) <=> current_path # <<>> /\ Last(current_path).name = name
  BY <1>1, Here DEF Place
<1>3. Shuts(h, n + 1, "page")
  <2>1. current_path # <<>> /\ Last(current_path).name = "page"
    BY <1>1 DEF Closes
  <2> QED
    BY <1>2, <2>1
<1> DEFINE grown == Append(places, n + 1)
<1>4. /\ s <= n /\ PagesBegin(h, s) /\ PagesTold(returned, places, h, s, n)
      /\ PageTold(page, h, s, Since(places, s, Len(places) + 1), n)
  BY DEF ToldAt
<1>5. /\ PagesTold(Append(returned, page), grown, h, s, n + 1)
      /\ Since(grown, s, Len(grown) + 1) = n + 1
  BY <1>3, <1>4, PagesGrow
<1> HIDE DEF grown
<1>6. \A r : ~Underway(h, s, r, n + 1)
  BY <1>3, UnderwayEnds
<1>7. BuilderTold(h, s, n + 1)'
  BY <1>1, <1>6 DEF BuilderTold
<1>8. PageTold(NoPage, h, s, n + 1, n + 1)
  BY PageNone
<1>9. s <= n + 1 /\ \A k : k \notin (n + 1) + 1 .. n + 1
  BY <1>4
<1>10. ToldAt(h, s, grown, n + 1)'
  BY <1>1, <1>4, <1>5, <1>7, <1>8, <1>9 DEF ToldAt
<1> QED
  BY <1>10 DEF grown

\* The pages begin: nothing is told of them yet.
LEMMA BeginTold ==
  ASSUME NEW h, NEW s \in Nat, PagesBegin(h, s), returned = <<>>, page = NoPage, started_page = FALSE,
         revision_builder = <<>>
  PROVE  ToldAt(h, s, <<>>, s)
<1> DEFINE none == <<>>
<1>1. PagesTold(none, none, h, s, s) /\ Since(none, s, Len(none) + 1) = s
  BY PagesNone
<1> HIDE DEF none
<1>2. PageTold(NoPage, h, s, s, s)
  BY PageNone
<1>3. \A r : ~Underway(h, s, r, s)
  <2>1. \A r : r \notin s + 1 .. s
    OBVIOUS
  <2> QED
    BY <2>1 DEF Underway
<1>4. BuilderTold(h, s, s)
  BY <1>3 DEF BuilderTold
<1>5. s <= s /\ \A k : k \notin s + 1 .. s
  OBVIOUS
<1>6. returned = none
  BY DEF none
<1>7. ToldAt(h, s, none, s)
  BY <1>1, <1>2, <1>4, <1>5, <1>6 DEF ToldAt
<1> QED
  BY <1>7 DEF none

\* A step before the pages; the end of the site info begins them.
LEMMA SiteStageTold ==
  ASSUME NEW h, NEW n \in Nat, BeforePages(h, n), Place(h, n), stage = "parse_site_info",
         Next, status' = "reading"
  PROVE  \/ stage' = "parse_site_info" /\ BeforePages(h, n + 1)'
         \/ stage' = "parse_page" /\ ToldAt(h, n + 1, <<>>, n + 1)'
<1> DEFINE Still == UNCHANGED <<returned, page, started_page, revision_builder>>
           Other == \E f, kind : /\ Reads(f, kind) /\ UNCHANGED stage /\ Still
                                 /\ ~(kind = "end" /\ current_path # <<>> /\ Last(current_path).name = "siteinfo")
<1>1. Other \/ EndSite
  <2>1. CASE OpenInSite
    <3>1. Reads("parse_site_info", "start") /\ UNCHANGED stage /\ Still
      BY <2>1 DEF OpenInSite, siteVars, pageVars
    <3> QED
      BY <3>1
  <2>2. CASE EmptyInSite
    <3>1. Reads("parse_site_info", "empty") /\ UNCHANGED stage /\ Still
      BY <2>2 DEF EmptyInSite, pageVars
    <3> QED
      BY <3>1
  <2>3. CASE TextInSite
    <3>1. Reads("parse_site_info", "text") /\ UNCHANGED stage /\ Still
      BY <2>3 DEF TextInSite, pageVars
    <3> QED
      BY <3>1
  <2>4. CASE CloseOther("parse_site_info", {"siteinfo"})
    <3>1. /\ Reads("parse_site_info", "end") /\ UNCHANGED stage /\ Still
          /\ ~Closes("siteinfo") /\ ~(Strict /\ Mismatched)
      BY <2>4 DEF CloseOther, siteVars, pageVars
    <3>2. ~(current_path # <<>> /\ Last(current_path).name = "siteinfo")
      BY <3>1 DEF Closes
    <3> QED
      BY <3>1, <3>2
  <2>5. CASE \E f : PassOver(f)
    <3>1. \E f : Reads(f, "reference") /\ UNCHANGED stage /\ Still
      BY <2>5 DEF PassOver, siteVars, pageVars
    <3> QED
      BY <3>1
  <2>6. ~EofInSite /\ ~Finished /\ \A f : ~Panic(f) /\ ~Fail(f) /\ ~RejectEnd(f)
    BY DEF EofInSite, Finished, vars, Panic, Fail, RejectEnd
  <2>7. ~ParsePage
    BY DEF ParsePage, Open, EmptyElement, PageText, OtherText, EndRevision, EndPage, Eof, CloseOther, Reads
  <2> QED
    BY <2>1, <2>2, <2>3, <2>4, <2>5, <2>6, <2>7 DEF Next, ParseSiteInfo, Either
<1>2. ~h.single /\ \A m \in 1 .. n : ~Shuts(h, m, "siteinfo")
  BY DEF BeforePages
<1>3. /\ returned = <<>> /\ page = NoPage /\ started_page = FALSE /\ revision_builder = <<>>
  BY DEF BeforePages
<1>4. CASE Other
  <2>1. PICK f, kind : /\ Reads(f, kind) /\ UNCHANGED stage /\ Still
                       /\ ~(kind = "end" /\ current_path # <<>> /\ Last(current_path).name = "siteinfo")
    BY <1>4
  <2>2. ~Shuts(h, n + 1, "siteinfo")
    BY <2>1, Here DEF Place
  <2>3. \A m \in 1 .. n + 1 : ~Shuts(h, m, "siteinfo")
    <3>1. \A m \in 1 .. n + 1 : m \in 1 .. n \/ m = n + 1
      OBVIOUS
    <3> QED
      BY <1>2, <2>2, <3>1
  <2>4. BeforePages(h, n + 1)'
    BY <1>2, <1>3, <2>1, <2>3 DEF BeforePages
  <2> QED
    BY <2>1, <2>4
<1>5. CASE EndSite
  <2>1. Reads("parse_site_info", "end") /\ Closes("siteinfo") /\ stage' = "parse_page" /\ Still
    BY <1>5 DEF EndSite, pageVars
  <2>2. Shuts(h, n + 1, "siteinfo") /\ n + 1 \in 1 .. Len(h.events)
    <3>1. current_path # <<>> /\ Last(current_path).name = "siteinfo"
      BY <2>1 DEF Closes
    <3> QED
      BY <2>1, <3>1, Here DEF Place
  <2>3. PagesBegin(h, n + 1)
    <3>1. (n + 1) - 1 = n
      OBVIOUS
    <3> QED
      BY <1>2, <2>2, <3>1 DEF PagesBegin
  <2>4. ToldAt(h, n + 1, <<>>, n + 1)
    <3>1. n + 1 \in Nat
      OBVIOUS
    <3> QED
      BY <1>3, <2>3, <3>1, BeginTold, Zenon
  <2>5. ToldAt(h, n + 1, <<>>, n + 1)'
    BY <2>1, <2>4 DEF ToldAt, BuilderTold
  <2> QED
    BY <2>1, <2>5
<1> QED
  BY <1>1, <1>4, <1>5

\* A step within the pages.
LEMMA PageStageTold ==
  ASSUME NEW h, NEW s \in Nat, NEW n \in Nat, NEW places, ToldAt(h, s, places, n), Place(h, n),
         stage = "parse_page", Next, status' = "reading", page' \in PageType
  PROVE  stage' = stage /\ \E q : ToldAt(h, s, q, n + 1)'
<1> DEFINE Told == \E q : ToldAt(h, s, q, n + 1)'
<1>1. CASE PassOver("parse_page") \/ CloseOther("parse_page", {"revision", "page"}) \/ Open
  <2>1. ToldAt(h, s, places, n + 1)'
    BY <1>1, QuietTold
  <2>2. stage' = stage
    BY <1>1 DEF PassOver, CloseOther, Open, siteVars
  <2> QED
    BY <2>1, <2>2
<1>2. CASE EmptyElement
  <2>1. ToldAt(h, s, places, n + 1)'
    BY <1>2, EmptyTold
  <2>2. stage' = stage
    BY <1>2 DEF EmptyElement, siteVars
  <2> QED
    BY <2>1, <2>2
<1>3. CASE PageText
  <2>1. ToldAt(h, s, places, n + 1)'
    BY <1>3, PageTextTold
  <2>2. stage' = stage
    BY <1>3 DEF PageText, siteVars
  <2> QED
    BY <2>1, <2>2
<1>4. CASE OtherText
  <2>1. ToldAt(h, s, places, n + 1)'
    BY <1>4, OtherTextTold
  <2>2. stage' = stage
    BY <1>4 DEF OtherText, siteVars
  <2> QED
    BY <2>1, <2>2
<1>5. CASE EndRevision
  <2>1. ToldAt(h, s, places, n + 1)'
    BY <1>5, EndRevisionTold
  <2>2. stage' = stage
    BY <1>5 DEF EndRevision, siteVars
  <2> QED
    BY <2>1, <2>2
<1>6. CASE EndPage
  <2>1. ToldAt(h, s, Append(places, n + 1), n + 1)'
    BY <1>6, EndPageTold
  <2>2. stage' = stage
    BY <1>6 DEF EndPage, siteVars
  <2> QED
    BY <2>1, <2>2
<1>7. ~Eof /\ ~Finished /\ \A f : ~Panic(f) /\ ~Fail(f) /\ ~RejectEnd(f)
  BY DEF Eof, Finished, vars, Panic, Fail, RejectEnd
<1>8. ~ParseSiteInfo /\ ~PassOver("parse_site_info")
  BY DEF ParseSiteInfo, OpenInSite, EmptyInSite, TextInSite, EndSite, EofInSite, CloseOther, PassOver, Reads
<1> QED
  BY <1>1, <1>2, <1>3, <1>4, <1>5, <1>6, <1>7, <1>8 DEF Next, ParsePage, Either

LEMMA ToldInit == Init => ToldInv
<1> SUFFICES ASSUME Init PROVE ToldInv
  OBVIOUS
<1>1. /\ pos = 0 /\ returned = <<>> /\ page = NoPage /\ started_page = FALSE /\ revision_builder = <<>>
      /\ stage = IF source.single THEN "parse_page" ELSE "parse_site_info"
      /\ current_path = IF source.single THEN <<MediaWikiTag>> ELSE <<>>
  BY DEF Init
<1>2. ASSUME NEW h, IsHistory(h)
      PROVE  /\ h.open[pos] = current_path
             /\ \A k \in 1 .. pos : h.events[k].kind # "malformed"
             /\ stage = "parse_site_info" => BeforePages(h, pos)
             /\ stage = "parse_page" => \E s, places : ToldAt(h, s, places, pos)
  <2>1. h.single = source.single /\ h.open[0] = IF source.single THEN <<MediaWikiTag>> ELSE <<>>
    BY <1>2 DEF IsHistory
  <2>2. \A k : k \notin 1 .. pos
    BY <1>1
  <2>3. stage = "parse_site_info" => BeforePages(h, pos)
    BY <1>1, <2>1, <2>2 DEF BeforePages
  <2>4. ASSUME stage = "parse_page" PROVE \E s, places : ToldAt(h, s, places, pos)
    <3>1. PagesBegin(h, 0)
      BY <1>1, <2>1, <2>4 DEF PagesBegin
    <3>2. ToldAt(h, 0, <<>>, 0)
      BY <1>1, <3>1, BeginTold
    <3> QED
      BY <1>1, <3>2
  <2> QED
    BY <1>1, <2>1, <2>2, <2>3, <2>4
<1> QED
  BY <1>1, <1>2 DEF ToldInv

LEMMA ToldStays ==
  ASSUME IInv, IInv', NamespacesNumbered, SingleStage, ToldInv, [Next]_vars
  PROVE  ToldInv'
<1>1. CASE UNCHANGED vars
  <2>1. \A h : IsHistory(h)' <=> IsHistory(h)
    BY <1>1 DEF vars, IsHistory
  <2>2. \A h, s, n : BuilderTold(h, s, n)' <=> BuilderTold(h, s, n)
    BY <1>1 DEF vars, pageVars, BuilderTold
  <2>3. \A h, s, places, n : ToldAt(h, s, places, n)' <=> ToldAt(h, s, places, n)
    BY <1>1, <2>2 DEF vars, pageVars, ToldAt
  <2>4. \A h, n : BeforePages(h, n)' <=> BeforePages(h, n)
    BY <1>1 DEF vars, pageVars, BeforePages
  <2>5. UNCHANGED <<source, pos, stage, current_path, returned, status>>
    BY <1>1 DEF vars, siteVars
  <2> QED
    BY <2>1, <2>3, <2>4, <2>5 DEF ToldInv
<1>2. CASE Next
  <2> SUFFICES ASSUME status' = "reading"
               PROVE  /\ source'.single => returned' = <<>>
                      /\ \A h : IsHistory(h)' =>
                           /\ h.open[pos'] = current_path'
                           /\ \A k \in 1 .. pos' : h.events[k].kind # "malformed"
                           /\ stage' = "parse_site_info" => BeforePages(h, pos)'
                           /\ stage' = "parse_page" => \E s, places : ToldAt(h, s, places, pos)'
    BY DEF ToldInv
  <2>1. status = "reading" /\ source' = source
    BY <1>2, PathFollows
  <2>2. ASSUME source.single PROVE returned' = <<>>
    <3>1. returned = <<>> /\ ~EndPage
      BY <2>1, <2>2 DEF ToldInv, EndPage
    <3> QED
      BY <1>2, <3>1
      DEF Next, ParseSiteInfo, ParsePage, Either, OpenInSite, EmptyInSite, TextInSite, EndSite,
          EofInSite, CloseOther, Open, EmptyElement, PageText, OtherText, EndRevision,
          Eof, Panic, Fail, PassOver, RejectEnd, Finished, vars
  <2>3. ASSUME NEW h, IsHistory(h)'
        PROVE  /\ h.open[pos'] = current_path'
               /\ \A k \in 1 .. pos' : h.events[k].kind # "malformed"
               /\ stage' = "parse_site_info" => BeforePages(h, pos)'
               /\ stage' = "parse_page" => \E s, places : ToldAt(h, s, places, pos)'
    <3>1. IsHistory(h)
      BY <2>1, <2>3 DEF IsHistory
    <3>2. /\ h.open[pos] = current_path
          /\ \A k \in 1 .. pos : h.events[k].kind # "malformed"
          /\ stage = "parse_site_info" => BeforePages(h, pos)
          /\ stage = "parse_page" => \E s, places : ToldAt(h, s, places, pos)
      BY <2>1, <3>1 DEF ToldInv
    <3>3. /\ h.open[pos'] = current_path' /\ pos \in Nat /\ pos' = pos + 1
          /\ h.events[pos + 1].kind # "malformed"
      BY <1>2, <3>1, <3>2, HistoryFollows
    <3>4. \A k \in 1 .. pos' : h.events[k].kind # "malformed"
      <4>1. \A k \in 1 .. pos' : k \in 1 .. pos \/ k = pos + 1
        BY <3>3
      <4> QED
        BY <3>2, <3>3, <4>1
    <3>5. PICK n \in Nat : n = pos
      BY <3>3
    <3>6. Place(h, n) /\ page' \in PageType
      BY <3>1, <3>2, <3>5 DEF Place, IInv, PageStateType
    <3>7. n + 1 = pos'
      BY <3>3, <3>5
    <3>8. stage = "parse_site_info" \/ stage = "parse_page"
      BY DEF IInv, StageType
    <3>9. CASE stage = "parse_site_info"
      <4>1. \/ stage' = "parse_site_info" /\ BeforePages(h, n + 1)'
            \/ stage' = "parse_page" /\ ToldAt(h, n + 1, <<>>, n + 1)'
        BY <1>2, <3>2, <3>5, <3>6, <3>9, SiteStageTold
      <4>2. BeforePages(h, n + 1)' => BeforePages(h, pos)'
        BY <3>7 DEF BeforePages
      <4>3. ToldAt(h, n + 1, <<>>, n + 1)' => ToldAt(h, n + 1, <<>>, pos)'
        BY <3>7 DEF ToldAt, BuilderTold
      <4> QED
        BY <3>3, <3>4, <4>1, <4>2, <4>3
    <3>10. CASE stage = "parse_page"
      <4>1. PICK s, places : ToldAt(h, s, places, pos)
        BY <3>2, <3>10
      <4>2. ToldAt(h, s, places, n)
        BY <3>5, <4>1 DEF ToldAt, BuilderTold
      <4>3. s \in Nat
        <5>1. h.events \in Seq(EventType)
          BY <3>1, StreamAssumption DEF IsHistory, IInv, AtEvent
        <5> QED
          BY <4>1, <5>1, BeginIs DEF ToldAt
      <4>4. stage' = stage /\ \E q : ToldAt(h, s, q, n + 1)'
        BY <1>2, <3>6, <3>10, <4>2, <4>3, PageStageTold
      <4>5. \A q : ToldAt(h, s, q, n + 1)' => ToldAt(h, s, q, pos)'
        BY <3>7 DEF ToldAt, BuilderTold
      <4> QED
        BY <3>3, <3>4, <3>10, <4>4, <4>5
    <3> QED
      BY <3>8, <3>9, <3>10
  <2> QED
    BY <2>1, <2>2, <2>3
<1> QED
  BY <1>1, <1>2

-----------------------------------------------------------------------------
(* The parser is a page source                                             *)

LEMMA StreamStays ==
  ASSUME StreamIsTold, source' = source
  PROVE  StreamIsTold'
<1>1. /\ \A h : IsHistory(h)' <=> IsHistory(h)
      /\ \A h : PagesAreTold(h)' <=> PagesAreTold(h)
      /\ \A h : EndingIsTold(h)' <=> EndingIsTold(h)
      /\ \A h : SoundIsProper(h)' <=> SoundIsProper(h)
  BY DEF IsHistory, PagesAreTold, EndingIsTold, SoundIsProper
<1> QED
  BY <1>1 DEF StreamIsTold

\* What is known before a step: a history of the stream, and where the parser is in it.
Known(h, n) ==
  /\ Place(h, n) /\ n \in 0 .. Len(h.events)
  /\ h.events = source.events /\ h.single = source.single
  /\ PagesAreTold(h) /\ EndingIsTold(h) /\ SoundIsProper(h)
  /\ \A k \in 1 .. n : h.events[k].kind # "malformed"
  /\ source.single => returned = <<>>
  /\ stage = "parse_site_info" => BeforePages(h, n)
  /\ stage = "parse_page" => \E s \in Nat : \E places : ToldAt(h, s, places, n)

LEMMA IsKnown ==
  ASSUME IInv, ToldInv, StreamIsTold, status = "reading"
  PROVE  \E h, n : Known(h, n)
<1>1. AtEvent
  BY DEF IInv
<1>2. PICK h : IsHistory(h)
  BY <1>1, HistoryExists
<1>3. /\ source.single => returned = <<>>
      /\ h.open[pos] = current_path
      /\ \A k \in 1 .. pos : h.events[k].kind # "malformed"
      /\ stage = "parse_site_info" => BeforePages(h, pos)
      /\ stage = "parse_page" => \E s, places : ToldAt(h, s, places, pos)
  BY <1>2 DEF ToldInv
<1>4. /\ h.events = source.events /\ h.single = source.single /\ pos \in 0 .. Len(h.events)
      /\ h.events \in Seq(EventType)
  BY <1>1, <1>2, StreamAssumption DEF IsHistory, AtEvent
<1>5. PagesAreTold(h) /\ EndingIsTold(h) /\ SoundIsProper(h)
  BY <1>2 DEF StreamIsTold
<1>6. Place(h, pos)
  BY <1>2, <1>3 DEF Place
<1>7. stage = "parse_page" => \E s \in Nat : \E places : ToldAt(h, s, places, pos)
  <2>1. ASSUME NEW s, NEW places, ToldAt(h, s, places, pos) PROVE s \in Nat
    BY <1>4, <2>1, BeginIs DEF ToldAt
  <2> QED
    BY <1>3, <2>1
<1>8. Known(h, pos)
  BY <1>3, <1>4, <1>5, <1>6, <1>7 DEF Known
<1> QED
  BY <1>8

\* The end of a page: it is the next page of the stream.
LEMMA ReturnsNext ==
  ASSUME IInv, ToldInv, StreamIsTold, EndPage
  PROVE  Len(returned) < Len(source.pages) /\ page = source.pages[Len(returned) + 1]
<1>1. Reads("parse_page", "end") /\ status = "reading" /\ returned' = Append(returned, page)
  BY DEF EndPage, Reads
<1>2. PICK h, n : Known(h, n)
  BY <1>1, IsKnown
<1>3. PICK s, places : s \in Nat /\ ToldAt(h, s, places, n)
  BY <1>1, <1>2 DEF Known, Reads
<1>4. Place(h, n) /\ n \in Nat
  BY <1>2, LenProperties DEF Known
<1> DEFINE grown == Append(places, n + 1)
<1>5. ToldAt(h, s, grown, n + 1)'
  BY <1>3, <1>4, EndPageTold
<1> HIDE DEF grown
<1>6. PagesBegin(h, s) /\ s <= n + 1 /\ PagesTold(returned', grown, h, s, n + 1)
  BY <1>5 DEF ToldAt
<1>7. n + 1 \in s .. Len(h.events)
  <2>1. n + 1 \in 1 .. Len(h.events)
    BY <1>1, <1>4, Here DEF Place
  <2> QED
    BY <1>6, <2>1
<1>8. /\ returned \in Seq(PageType) /\ page \in PageType /\ Len(returned) \in Nat
      /\ source.pages \in Seq(PageType) /\ Len(source.pages) \in Nat
  BY LenProperties DEF IInv, ReturnType, PageStateType, StreamIsTold
<1>9. Len(returned') = Len(returned) + 1 /\ returned'[Len(returned) + 1] = page
  BY <1>1, <1>8, AppendProperties
<1>10. h.single => Len(returned') <= 1
  <2>1. returned = <<>> => Len(returned) = 0
    OBVIOUS
  <2> QED
    BY <1>2, <1>9, <2>1 DEF Known
<1>11. /\ Len(returned') <= Len(source.pages)
       /\ \A i \in 1 .. Len(returned') : returned'[i] = source.pages[i]
  BY <1>2, <1>6, <1>7, <1>10 DEF Known, PagesAreTold
<1>12. Len(returned) + 1 \in 1 .. Len(returned')
  BY <1>8, <1>9
<1> QED
  BY <1>8, <1>9, <1>11, <1>12

\* Where nothing more is read: the pages are those of the stream, and its ending is an
\* error unless it ends behind the site info and a page.
LEMMA StopsRight ==
  ASSUME IInv, ToldInv, StreamIsTold, status = "reading",
         pos = Len(source.events) \/ \E f : Reads(f, "malformed")
  PROVE  /\ returned = source.pages
         /\ source.ending =
              IF \/ stage # "parse_page" \/ source.single \/ pos # Len(source.events)
                 \/ started_page
              THEN "error" ELSE "end"
<1>1. PICK h, n : Known(h, n)
  BY IsKnown
<1>2. n = pos /\ h.events = source.events /\ h.single = source.single /\ n \in 0 .. Len(h.events)
  BY <1>1 DEF Known, Place
<1>3. StopsAfter(h, n)
  <2>1. ASSUME NEW f, Reads(f, "malformed") PROVE h.events[n + 1].kind = "malformed"
    BY <1>1, <2>1, Here DEF Known, Place
  <2> QED
    BY <1>1, <1>2, <2>1 DEF Known, StopsAfter
<1>4. /\ ~h.single /\ (\A m \in 1 .. n : ~Shuts(h, m, "siteinfo"))
           => source.pages = <<>> /\ source.ending = "error"
      /\ \A s, pages, places :
           PagesBegin(h, s) /\ s <= n /\ PagesTold(pages, places, h, s, n)
           /\ (h.single => pages = <<>>)
             => /\ source.pages = pages
                /\ source.ending =
                     IF \/ n # Len(h.events) \/ h.single
                        \/ \E m \in Since(places, s, Len(places) + 1) + 1 .. n : IsStart(h.events, m, "page")
                     THEN "error" ELSE "end"
  BY <1>1, <1>3 DEF Known, EndingIsTold
<1>5. stage = "parse_site_info" \/ stage = "parse_page"
  BY DEF IInv, StageType
<1>6. CASE stage = "parse_site_info"
  BY <1>1, <1>4, <1>6 DEF Known, BeforePages
<1>7. CASE stage = "parse_page"
  <2>1. PICK s, places : s \in Nat /\ ToldAt(h, s, places, n)
    BY <1>1, <1>7 DEF Known
  <2>2. /\ PagesBegin(h, s) /\ s <= n /\ PagesTold(returned, places, h, s, n)
        /\ started_page <=> \E m \in Since(places, s, Len(places) + 1) + 1 .. n : IsStart(h.events, m, "page")
    BY <2>1 DEF ToldAt
  <2>3. h.single => returned = <<>>
    BY <1>1, <1>2 DEF Known
  <2> QED
    BY <1>2, <1>4, <1>7, <2>2, <2>3
<1> QED
  BY <1>5, <1>6, <1>7

\* What makes a strict parser abort is found in no sound stream.
LEMMA AbortsRight ==
  ASSUME IInv, ToldInv, StreamIsTold, status = "reading", Strict,
         \/ \E f : Panic(f)
         \/ \E f : RejectEnd(f)
         \/ EndRevision /\ MissesField /\ page' \in PageType
         \/ pos = Len(source.events) /\ current_path # <<>> /\ ~source.single
  PROVE  ~source.sound
<1> SUFFICES ASSUME source.sound PROVE FALSE
  OBVIOUS
<1>1. PICK h, n : Known(h, n)
  BY IsKnown
<1>2. /\ n = pos /\ h.events = source.events /\ h.single = source.single /\ n \in Nat
      /\ Place(h, n) /\ h.open[pos] = current_path
  BY <1>1, LenProperties DEF Known, Place
<1>3. /\ \A m \in 1 .. Len(h.events) :
           /\ ~NoTag(h.events[m]) /\ ~NoKey(h.events[m]) /\ ~WrongEnd(h.events[m], Within(h, m))
           /\ \A s, b : PagesBegin(h, s) /\ RevisionEnds(b, h, s, m) => Buildable(b)
      /\ h.single \/ h.open[Len(h.events)] = <<>>
  BY <1>1 DEF Known, SoundIsProper, Strict
<1>4. ASSUME NEW f, Panic(f) PROVE FALSE
  <2>1. PICK kind \in {"start", "empty"} : Reads(f, kind) /\ event.attr = MissingKey
    BY <1>4 DEF Panic, IsTodo
  <2>2. /\ n + 1 \in 1 .. Len(h.events) /\ event = h.events[n + 1] /\ h.events[n + 1].kind = kind
    BY <1>2, <2>1, Here DEF Place
  <2>3. NoKey(h.events[n + 1])
    BY <2>1, <2>2 DEF NoKey
  <2> QED
    BY <1>3, <2>2, <2>3
<1>5. ASSUME NEW f, RejectEnd(f) PROVE FALSE
  <2>1. Reads(f, "end") /\ Mismatched
    BY <1>5 DEF RejectEnd
  <2>2. /\ n + 1 \in 1 .. Len(h.events) /\ pos' = n + 1 /\ Within(h, n + 1) = Path
    BY <1>2, <2>1, Here DEF Place
  <2>3. WrongEnd(h.events[n + 1], Within(h, n + 1))
    BY <1>2, <2>1, <2>2, MismatchIs
  <2> QED
    BY <1>3, <2>2, <2>3
<1>6. ASSUME EndRevision, MissesField, page' \in PageType PROVE FALSE
  <2>1. Reads("parse_page", "end")
    BY <1>6 DEF EndRevision
  <2>2. PICK s, places : s \in Nat /\ ToldAt(h, s, places, n)
    BY <1>1, <2>1 DEF Known, Reads
  <2>3. \E b : RevisionEnds(b, h, s, n + 1) /\ ~Buildable(b)
    BY <1>2, <1>6, <2>2, EndRevisionTold
  <2>4. n + 1 \in 1 .. Len(h.events)
    BY <1>2, <2>1, Here DEF Place
  <2>5. PagesBegin(h, s)
    BY <2>2 DEF ToldAt
  <2> QED
    BY <1>3, <2>3, <2>4, <2>5
<1>7. ASSUME pos = Len(source.events), current_path # <<>>, ~source.single PROVE FALSE
  BY <1>2, <1>3, <1>7
<1> QED
  BY <1>4, <1>5, <1>6, <1>7

LEMMA StepIsSource ==
  ASSUME IInv, IInv', ToldInv, StreamIsTold, [Next]_vars
  PROVE  [Source!SourceNext]_<<source, returned, IF status = "panicked" THEN "error" ELSE status>>
<1> DEFINE Mapped == IF status = "panicked" THEN "error" ELSE status
           Goal == [Source!SourceNext]_<<source, returned, Mapped>>
<1>1. CASE UNCHANGED <<source, returned, status>>
  BY <1>1
<1>2. ASSUME status = "reading", status' \in {"error", "panicked"}, UNCHANGED <<source, returned>>,
             Strict, ~source.sound
      PROVE  Goal
  BY <1>2 DEF Source!SourceNext, Source!Abort, Strict
<1>3. ASSUME status = "reading", status' = source.ending, status' # "panicked",
             UNCHANGED <<source, returned>>, returned = source.pages
      PROVE  Goal
  BY <1>3 DEF Source!SourceNext, Source!Stop
<1>4. CASE EndPage
  <2>1. /\ status = "reading" /\ source' = source /\ returned' = Append(returned, page)
        /\ status' = IF source.single THEN "end" ELSE "reading"
    BY <1>4 DEF EndPage, Reads
  <2>2. Len(returned) < Len(source.pages) /\ page = source.pages[Len(returned) + 1]
    BY <1>4, ReturnsNext
  <2>3. Mapped = "reading" /\ Mapped' = IF source.single THEN "end" ELSE "reading"
    BY <2>1
  <2> QED
    BY <2>1, <2>2, <2>3 DEF Source!SourceNext, Source!ReturnPage
<1>5. CASE EndRevision
  <2>1. /\ status = "reading" /\ UNCHANGED <<source, returned>>
        /\ status' = IF Strict /\ MissesField THEN "error" ELSE status
    BY <1>5 DEF EndRevision, Reads
  <2>2. CASE Strict /\ MissesField
    <3>1. page' \in PageType
      BY DEF IInv, PageStateType
    <3>2. ~source.sound
      BY <1>5, <2>1, <2>2, <3>1, AbortsRight
    <3> QED
      BY <1>2, <2>1, <2>2, <3>2
  <2>3. CASE ~(Strict /\ MissesField)
    BY <1>1, <2>1, <2>3
  <2> QED
    BY <2>2, <2>3
<1>6. ASSUME NEW f, Panic(f) PROVE Goal
  <2>1. status = "reading" /\ status' = "panicked" /\ UNCHANGED <<source, returned>> /\ Strict
    BY <1>6 DEF Panic, Reads, IsTodo
  <2>2. ~source.sound
    BY <1>6, <2>1, AbortsRight
  <2> QED
    BY <1>2, <2>1, <2>2
<1>7. ASSUME NEW f, RejectEnd(f) PROVE Goal
  <2>1. status = "reading" /\ status' = "error" /\ UNCHANGED <<source, returned>> /\ Strict
    BY <1>7 DEF RejectEnd, Reads
  <2>2. ~source.sound
    BY <1>7, <2>1, AbortsRight
  <2> QED
    BY <1>2, <2>1, <2>2
<1>8. ASSUME NEW f, Fail(f) PROVE Goal
  <2>1. Reads(f, "malformed") /\ status = "reading" /\ status' = "error" /\ UNCHANGED <<source, returned>>
    BY <1>8 DEF Fail, Reads
  <2>2. pos # Len(source.events)
    BY <2>1 DEF Reads, IInv, AtEvent
  <2>3. returned = source.pages /\ source.ending = "error"
    BY <2>1, <2>2, StopsRight
  <2> QED
    BY <1>3, <2>1, <2>3
<1>9. CASE EofInSite
  <2>1. /\ status = "reading" /\ stage = "parse_site_info" /\ pos = Len(source.events)
        /\ status' = "error" /\ UNCHANGED <<source, returned>>
    BY <1>9 DEF EofInSite
  <2>2. returned = source.pages /\ source.ending = "error"
    BY <2>1, StopsRight
  <2> QED
    BY <1>3, <2>1, <2>2
<1>10. CASE Eof
  <2>1. /\ status = "reading" /\ stage = "parse_page" /\ pos = Len(source.events)
        /\ status' = IF started_page \/ (Strict /\ current_path # <<>>) \/ source.single
                     THEN "error" ELSE "end"
        /\ UNCHANGED <<source, returned>>
    BY <1>10 DEF Eof
  <2>2. /\ returned = source.pages
        /\ source.ending = IF source.single \/ started_page THEN "error" ELSE "end"
    BY <2>1, StopsRight
  <2>3. CASE Strict /\ current_path # <<>> /\ ~source.single
    <3>1. ~source.sound /\ status' = "error"
      BY <2>1, <2>3, AbortsRight
    <3> QED
      BY <1>2, <2>1, <2>3, <3>1
  <2>4. CASE ~(Strict /\ current_path # <<>> /\ ~source.single)
    <3>1. status' = source.ending /\ status' # "panicked"
      BY <2>1, <2>2, <2>4
    <3> QED
      BY <1>3, <2>1, <2>2, <3>1
  <2> QED
    BY <2>3, <2>4
<1>11. CASE UNCHANGED vars
  BY <1>1, <1>11 DEF vars
<1>12. ASSUME \/ OpenInSite \/ EmptyInSite \/ TextInSite \/ EndSite \/ Open \/ EmptyElement
              \/ PageText \/ OtherText \/ Finished \/ CloseOther("parse_site_info", {"siteinfo"})
              \/ CloseOther("parse_page", {"revision", "page"}) \/ \E f : PassOver(f)
       PROVE  Goal
  <2>1. UNCHANGED <<source, returned, status>>
    BY <1>12 DEF OpenInSite, EmptyInSite, TextInSite, EndSite, Open, EmptyElement, PageText,
                 OtherText, Finished, CloseOther, PassOver, Reads, vars
  <2> QED
    BY <1>1, <2>1
<1> QED
  BY <1>4, <1>5, <1>6, <1>7, <1>8, <1>9, <1>10, <1>11, <1>12
  DEF Next, ParseSiteInfo, ParsePage, Either

(***************************************************************************)
(* Whatever the events of a stream, in whatever order: the parser returns  *)
(* the pages its events tell of, in order, each with the fields given last *)
(* and with the revisions that are complete and no others, returns none    *)
(* that is cut off, and ends normally only where the stream ends behind    *)
(* its pages; with "strict" it may abort instead, if the stream is not     *)
(* sound.                                                                  *)
(***************************************************************************)
THEOREM ParserIsSource == NamespacesNumbered /\ StreamIsTold /\ Spec => ImplementsPageSource
<1> DEFINE Inv == IInv /\ NamespacesNumbered /\ SingleStage /\ PathInv /\ StreamIsTold /\ ToldInv
<1>1. NamespacesNumbered /\ StreamIsTold /\ Init => Inv
  BY InitTypes, PathInit, ToldInit
<1>2. Inv /\ [Next]_vars => Inv'
  <2> SUFFICES ASSUME Inv, [Next]_vars PROVE Inv'
    OBVIOUS
  <2>1. IInv'
    BY TypeStep
  <2>2. NamespacesNumbered' /\ SingleStage' /\ PathInv'
    BY PathStep
  <2>3. source' = source
    BY SiteStays DEF vars
  <2>4. StreamIsTold'
    BY <2>3, StreamStays
  <2>5. ToldInv'
    BY <2>1, ToldStays
  <2> QED
    BY <2>1, <2>2, <2>4, <2>5
<1>3. Inv /\ [Next]_vars
        => [Source!SourceNext]_<<source, returned, IF status = "panicked" THEN "error" ELSE status>>
  BY TypeStep, StepIsSource
<1>4. Init => Source!SourceInit
  BY DEF Init, Source!SourceInit
<1> QED
  BY <1>1, <1>2, <1>3, <1>4, PTL DEF Spec, ImplementsPageSource, Source!SourceSpec
=============================================================================
