------------------------------ MODULE PageSource ------------------------------
(***************************************************************************)
(* What a caller of parse_page relies on: the pages of the stream, each    *)
(* complete, in their order, and then the end or an error, whichever the   *)
(* stream has.  With the feature "strict" an error may come as soon as the *)
(* stream is not structured as an export has to be.                        *)
(***************************************************************************)
EXTENDS Naturals, Sequences

VARIABLES source,    \* the stream, with its pages and its ending
          returned,  \* the pages parse_page has returned
          status     \* "reading", "end" or "error"

SourceInit == returned = <<>> /\ status = "reading"

ReturnPage ==
  /\ status = "reading"
  /\ Len(returned) < Len(source.pages)
  /\ returned' = Append(returned, source.pages[Len(returned) + 1])
  /\ status' = IF source.single THEN "end" ELSE "reading"
  /\ UNCHANGED source

Stop ==
  /\ status = "reading"
  /\ returned = source.pages
  /\ status' = source.ending
  /\ UNCHANGED <<source, returned>>

\* The parser may notice what is wrong with the stream at any time.
Abort ==
  /\ status = "reading"
  /\ source.strict /\ ~source.sound
  /\ status' = "error"
  /\ UNCHANGED <<source, returned>>

SourceNext == ReturnPage \/ Stop \/ Abort

SourceSpec == SourceInit /\ [][SourceNext]_<<source, returned, status>>
=============================================================================
