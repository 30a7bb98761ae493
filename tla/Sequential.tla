------------------------------ MODULE Sequential ------------------------------
(***************************************************************************)
(* process_single (bin/wikiwho-cli.rs): the path of -j 1.  One loop parses *)
(* a page, analyses and writes it.  Each action is one pass of the loop,   *)
(* or what comes before or after it.                                       *)
(***************************************************************************)
EXTENDS CliJob

VARIABLES job, pos, output, page_count, skipped_pages, exit

vars == <<job, pos, output, page_count, skipped_pages, exit>>

Init ==
  /\ job \in Jobs
  /\ pos = 0 /\ output = <<>> /\ page_count = 0 /\ skipped_pages = {}
  /\ exit = "starting"

\* DumpParser::new has read the site info, and the document is opened.
Start ==
  /\ exit = "starting"
  /\ ~job.headless
  /\ output' = OpenOutput(job)
  /\ exit' = "running"
  /\ UNCHANGED <<job, pos, page_count, skipped_pages>>

\* DumpParser::new fails: process_single returns before it writes anything.
Reject ==
  /\ exit = "starting"
  /\ job.headless
  /\ exit' = "error"
  /\ UNCHANGED <<job, pos, output, page_count, skipped_pages>>

\* parse_page has returned a page that passes the filter, before the limit.
Reads(valid) ==
  /\ exit = "running"
  /\ pos < Len(job.pages)
  /\ pos' = pos + 1
  /\ job.pages[pos'].selected
  /\ ~LimitReached(job, page_count)
  /\ job.pages[pos'].valid = valid
  /\ UNCHANGED job

PassOver ==
  /\ exit = "running"
  /\ pos < Len(job.pages)
  /\ pos' = pos + 1
  /\ ~job.pages[pos'].selected
  /\ UNCHANGED <<job, output, page_count, skipped_pages, exit>>

Skip ==
  /\ Reads(FALSE)
  /\ skipped_pages' = skipped_pages \cup {pos'}
  /\ UNCHANGED <<output, page_count, exit>>

\* Mutant: the count is not increased.
WriteUncounted ==
  /\ Reads(TRUE)
  /\ output' = WritePageResult(job, output, pos', page_count)
  /\ UNCHANGED <<page_count, skipped_pages, exit>>

Write ==
  /\ Reads(TRUE)
  /\ output' = WritePageResult(job, output, pos', page_count)
  /\ page_count' = page_count + 1
  /\ UNCHANGED <<skipped_pages, exit>>

StopAtLimit ==
  /\ exit = "running"
  /\ pos < Len(job.pages)
  /\ pos' = pos + 1
  /\ job.pages[pos'].selected
  /\ LimitReached(job, page_count)
  /\ output' = output \o CloseOutput(job)
  /\ exit' = "ok"
  /\ UNCHANGED <<job, page_count, skipped_pages>>

EndOfDump ==
  /\ exit = "running"
  /\ pos = Len(job.pages)
  /\ ~job.malformed
  /\ output' = output \o CloseOutput(job)
  /\ exit' = "ok"
  /\ UNCHANGED <<job, pos, page_count, skipped_pages>>

\* Mutant: a parse error ends the loop like the end of the dump.
EndQuietly ==
  /\ exit = "running"
  /\ pos = Len(job.pages)
  /\ job.malformed
  /\ output' = output \o CloseOutput(job)
  /\ exit' = "ok"
  /\ UNCHANGED <<job, pos, page_count, skipped_pages>>

\* The error is returned at once: the document is not closed.
FailToParse ==
  /\ exit = "running"
  /\ pos = Len(job.pages)
  /\ job.malformed
  /\ exit' = "error"
  /\ UNCHANGED <<job, pos, output, page_count, skipped_pages>>

\* A write is refused, the first one, one of a page or one of the end, or the
\* flush is; the error is returned.
FailWrite ==
  /\ job.failing
  /\ \/ /\ exit = "starting" /\ ~job.headless /\ job.format = "json"
        /\ UNCHANGED <<job, pos, output>>
     \/ Reads(TRUE) /\ output' \in RefusedPage(job, output, page_count)
     \/ /\ exit = "running" /\ pos = Len(job.pages) /\ ~job.malformed
        /\ output' \in RefusedClose(job, output)
        /\ UNCHANGED <<job, pos>>
     \/ /\ exit = "running" /\ pos < Len(job.pages)
        /\ job.pages[pos + 1].selected /\ LimitReached(job, page_count)
        /\ output' \in RefusedClose(job, output)
        /\ pos' = pos + 1
        /\ UNCHANGED job
  /\ exit' = "error"
  /\ UNCHANGED <<page_count, skipped_pages>>

Finished == exit \in {"ok", "error"} /\ UNCHANGED vars

Next ==
  \/ Start \/ Reject
  \/ PassOver \/ Skip \/ Write \/ StopAtLimit \/ EndOfDump \/ FailToParse \/ FailWrite \/ Finished

Spec == Init /\ [][Next]_vars
-----------------------------------------------------------------------------
(* Properties                                                              *)

(***************************************************************************)
(* A run that succeeds leaves a complete document.  One that fails leaves  *)
(* the beginning of one, cut off wherever a write was refused; if the dump *)
(* is to blame and no write, only the closing bracket is missing, or all   *)
(* of it when the parser could not be made.                                *)
(***************************************************************************)
OutputIsDocument ==
  /\ exit = "ok" => IsDocument(job, output)
  /\ exit = "error" => BeginsDocument(job, output)
  /\ exit = "error" /\ ~job.failing =>
       IF job.headless THEN output = <<>> ELSE IsDocument(job, output \o CloseOutput(job))

(***************************************************************************)
(* The sequential path is the same page stream as the parallel one, on     *)
(* jobs without a limit or without invalid pages.                          *)
(***************************************************************************)
Stream == INSTANCE PageStream WITH
  written <- Pages(output), skipped <- skipped_pages,
  status <- IF exit = "starting" THEN "running" ELSE exit

ImplementsStream == Stream!StreamSpec
=============================================================================
