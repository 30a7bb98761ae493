------------------------------ MODULE MCPipeline ------------------------------
(* Two workers and channels of two pages.  The mixed dumps have selected,    *)
(* unselected and invalid pages, limits below, at and above their number,    *)
(* malformed ends, or no head; the long dump fills both channels and every   *)
(* thread, so that all of them block.                                        *)
EXTENDS Pipeline

CONSTANTS w1, w2

TwoWorkers == {w1, w2}

Good == [selected |-> TRUE, valid |-> TRUE]
Bad == [selected |-> TRUE, valid |-> FALSE]
Other == [selected |-> FALSE, valid |-> TRUE]

Job(pages, malformed, limit, format) ==
  [pages |-> pages, malformed |-> malformed, headless |-> FALSE, limit |-> limit,
   format |-> format, failing |-> FALSE]
Failing(jobs) == {[j EXCEPT !.failing = TRUE] : j \in jobs}

MixedPages == {<<>>, <<Bad>>, <<Other, Good>>, <<Bad, Good, Good>>, <<Good, Other, Bad, Good>>}
MixedJobs ==
  {Job(pages, malformed, limit, format) :
     pages \in MixedPages, malformed \in BOOLEAN, limit \in {0, 1, 2, NoLimit},
     format \in {"json", "lines"}}
LongJobs == {Job([n \in 1 .. 8 |-> Good], FALSE, NoLimit, "json")}

\* Few enough pages for the channels to hold those nobody writes.
FailingJobs ==
  Failing({Job(pages, malformed, limit, format) :
             pages \in {<<>>, <<Bad, Good>>, <<Good, Bad>>}, malformed \in BOOLEAN,
             limit \in {1, NoLimit}, format \in {"json", "lines"}})

HeadlessJobs ==
  {[Job(<<>>, TRUE, limit, format) EXCEPT !.headless = TRUE, !.failing = failing] :
     limit \in {0, NoLimit}, format \in {"json", "lines"}, failing \in BOOLEAN}

PassingJobs == MixedJobs \cup LongJobs \cup FailingJobs \cup HeadlessJobs

\* The output fails; the channels hold four pages each.
HangJobs == Failing({Job([n \in 1 .. 7 |-> Good], FALSE, NoLimit, "json")})
=============================================================================
