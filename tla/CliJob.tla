-------------------------------- MODULE CliJob --------------------------------
(***************************************************************************)
(* One invocation of wikiwho-cli: what the dump holds, the options that    *)
(* select pages, and the output document.  Pages are named by their place  *)
(* in the dump.  A page is selected if its namespace passes the filter,    *)
(* and valid if analyse_page succeeds on it.  A headless dump is one whose *)
(* site info DumpParser::new cannot read: no page of it is ever returned.  *)
(* A failing output may refuse any write.  The output is what the buffered *)
(* writer has taken: after a refusal the file may lack the end of it.      *)
(***************************************************************************)
EXTENDS Naturals, Sequences, FiniteSets, Functions

CONSTANTS Jobs,      \* the invocations considered
          NoLimit    \* --limit is not given

PageKind == [selected : BOOLEAN, valid : BOOLEAN]
JobKind == [pages : Seq(PageKind), malformed : BOOLEAN, headless : BOOLEAN,
            limit : Nat \cup {NoLimit}, format : {"json", "lines"}, failing : BOOLEAN]

ASSUME JobAssumption ==
  /\ Jobs \subseteq JobKind
  /\ \A job \in Jobs : job.headless => job.malformed /\ job.pages = <<>>
  /\ NoLimit \notin Nat

\* page_limit.map(|n| count >= n).unwrap_or(false)
LimitReached(job, count) == job.limit # NoLimit /\ count >= job.limit

SelectedPages(job) == {p \in DOMAIN job.pages : job.pages[p].selected}

\* The first N pages, N being the limit.
FirstPages(job) ==
  {p \in SelectedPages(job) :
     ~LimitReached(job, Cardinality({q \in SelectedPages(job) : q < p}))}

\* The limit is noticed when the page after the last one has been parsed, so a
\* malformed dump is an error unless there is such a page.
ReportsError(job) == job.malformed /\ FirstPages(job) = SelectedPages(job)

-----------------------------------------------------------------------------
(* The output, as a sequence of items: pages and punctuation.              *)

PageItem(p) == [kind |-> "page", page |-> p]
Mark(m) == [kind |-> m, page |-> 0]

OpenOutput(job) == IF job.format = "json" THEN <<Mark("open")>> ELSE <<>>
CloseOutput(job) == IF job.format = "json" THEN <<Mark("close")>> ELSE <<>>

\* write_page_result
WritePageResult(job, out, p, page_count) ==
  out \o (CASE job.format = "lines" -> <<PageItem(p), Mark("newline")>>
            [] job.format = "json" /\ page_count = 0 -> <<PageItem(p)>>
            [] job.format = "json" /\ page_count > 0 -> <<Mark("comma"), PageItem(p)>>)

\* A refused write leaves of a page nothing, the comma before it, or a part: a
\* JSON value that is cut off, or a line without its end.
RefusedPage(job, out, page_count) ==
  LET begun == IF job.format = "json" /\ page_count > 0 THEN out \o <<Mark("comma")>> ELSE out
  IN {out, begun, begun \o <<Mark("part")>>}

\* The bracket is refused, or taken and the flush is refused.
RefusedClose(job, out) == {out, out \o CloseOutput(job)}

Pages(out) == {item.page : item \in {i \in Range(out) : i.kind = "page"}}

\* out is a JSON array, or a sequence of lines, of pages.
IsDocument(job, out) ==
  LET IsPage(n) == out[n].kind = "page"
  IN CASE job.format = "json" ->
            /\ Len(out) >= 2 /\ out[1] = Mark("open") /\ out[Len(out)] = Mark("close")
            /\ Len(out) = 2 \/ Len(out) % 2 = 1
            /\ \A n \in 2 .. Len(out) - 1 :
                 IF n % 2 = 0 THEN IsPage(n) ELSE out[n] = Mark("comma")
       [] job.format = "lines" ->
            /\ Len(out) % 2 = 0
            /\ \A n \in DOMAIN out : IF n % 2 = 1 THEN IsPage(n) ELSE out[n] = Mark("newline")

\* out is the beginning of such a document, cut off at any place.
BeginsDocument(job, out) ==
  LET IsPage(n) == out[n].kind = "page" \/ (n = Len(out) /\ out[n] = Mark("part"))
      IsEnd(n) == n = Len(out) /\ (n = 2 \/ (n > 1 /\ n % 2 = 1)) /\ out[n] = Mark("close")
      InArray(n) == IF n = 1 THEN out[n] = Mark("open")
                    ELSE IF n % 2 = 0 THEN IsPage(n) ELSE out[n] = Mark("comma")
      InLines(n) == IF n % 2 = 1 THEN IsPage(n) ELSE out[n] = Mark("newline")
  IN /\ job.format = "json" => \A n \in DOMAIN out : InArray(n) \/ IsEnd(n)
     /\ job.format = "lines" => \A n \in DOMAIN out : InLines(n)
=============================================================================
