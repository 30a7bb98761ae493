------------------------------- MODULE Pipeline -------------------------------
(***************************************************************************)
(* process_parallel (bin/wikiwho-cli.rs): a parser thread, worker threads  *)
(* and the main thread, which writes.  Two bounded channels connect them;  *)
(* the workers share the receiver of the first behind a mutex, which a     *)
(* worker holds while it waits for a page.  A sender blocks while its      *)
(* channel is full.  Both receivers live in the frame of process_parallel, *)
(* outside the scope that joins the threads, so a send never fails: the    *)
(* branches "workers gone" and "the writer has dropped" are unreachable.   *)
(***************************************************************************)
EXTENDS CliJob

CONSTANTS Workers,       \* the worker threads; -j 1 takes the sequential path
          PerThread,     \* places in each channel per worker; 2 in the code
          Nobody         \* holds no lock

ASSUME WorkersAssumption ==
  /\ IsFiniteSet(Workers) /\ Cardinality(Workers) >= 2
  /\ PerThread \in Nat \ {0}
  /\ Nobody \notin Workers

VARIABLES
  job,            \* the dump and the options
  pos,            \* pages parse_page has returned
  parser,         \* "parsing", "sending" or "done"; then work_tx is dropped
  parsed_count,
  parse_error,
  work,           \* the channel from the parser to the workers
  lock,           \* the worker that holds work_rx
  worker,         \* "idle", "busy" or "done"; then its result_tx is dropped
  item,           \* the page a busy worker has
  results,        \* the channel from the workers to the writer
  writer,         \* "starting", "opening", "writing", "done" or "panicked"
  output, page_count, skipped_pages,
  exit            \* what process_parallel returned

parserVars == <<pos, parser, parsed_count, parse_error>>
workerVars == <<lock, worker, item>>
writerVars == <<writer, output, page_count, skipped_pages>>
vars == <<job, parserVars, work, workerVars, results, writerVars, exit>>

Capacity == PerThread * Cardinality(Workers)
NoPage == 0

Init ==
  /\ job \in Jobs
  /\ pos = 0 /\ parser = "parsing" /\ parsed_count = 0 /\ parse_error = FALSE
  /\ work = <<>> /\ results = <<>>
  /\ lock = Nobody
  /\ worker = [w \in Workers |-> "idle"] /\ item = [w \in Workers |-> NoPage]
  /\ writer = "starting" /\ output = <<>> /\ page_count = 0 /\ skipped_pages = {}
  /\ exit = "running"

\* The threads are there once the main thread has spawned them.
Spawned == writer # "starting"

-----------------------------------------------------------------------------
(* The parser thread.                                                      *)

\* parse_page returns the next page.
ParsePage ==
  /\ Spawned
  /\ parser = "parsing"
  /\ pos < Len(job.pages)
  /\ pos' = pos + 1
  /\ parser' = CASE ~job.pages[pos'].selected -> "parsing"
                 [] job.pages[pos'].selected /\ LimitReached(job, parsed_count) -> "done"
                 [] OTHER -> "sending"
  /\ UNCHANGED <<job, parsed_count, parse_error, work, workerVars, results, writerVars, exit>>

\* Mutant: a parse error only ends the thread.
EndUnreported ==
  /\ Spawned
  /\ parser = "parsing"
  /\ pos = Len(job.pages)
  /\ parser' = "done"
  /\ UNCHANGED <<job, pos, parsed_count, parse_error, work, workerVars, results, writerVars, exit>>

\* parse_page returns None or an error.
EndOfDump ==
  /\ Spawned
  /\ parser = "parsing"
  /\ pos = Len(job.pages)
  /\ parser' = "done"
  /\ parse_error' = job.malformed
  /\ UNCHANGED <<job, pos, parsed_count, work, workerVars, results, writerVars, exit>>

\* Mutant: the channel is not bounded.
SendUnbounded ==
  /\ parser = "sending"
  /\ work' = Append(work, pos)
  /\ parsed_count' = parsed_count + 1
  /\ parser' = "parsing"
  /\ UNCHANGED <<job, pos, parse_error, workerVars, results, writerVars, exit>>

SendPage ==
  /\ parser = "sending"
  /\ Len(work) < Capacity
  /\ work' = Append(work, pos)
  /\ parsed_count' = parsed_count + 1
  /\ parser' = "parsing"
  /\ UNCHANGED <<job, pos, parse_error, workerVars, results, writerVars, exit>>

-----------------------------------------------------------------------------
(* Worker w.                                                               *)

Lock(w) ==
  /\ Spawned
  /\ worker[w] = "idle"
  /\ lock = Nobody
  /\ lock' = w
  /\ UNCHANGED <<job, parserVars, work, worker, item, results, writerVars, exit>>

\* Mutant: the page stays in the channel.
PeekPage(w) ==
  /\ lock = w
  /\ work # <<>>
  /\ item' = [item EXCEPT ![w] = Head(work)]
  /\ worker' = [worker EXCEPT ![w] = "busy"]
  /\ lock' = Nobody
  /\ UNCHANGED <<job, parserVars, work, results, writerVars, exit>>

\* recv returns a page, and the guard of the mutex is dropped.
TakePage(w) ==
  /\ lock = w
  /\ work # <<>>
  /\ item' = [item EXCEPT ![w] = Head(work)]
  /\ work' = Tail(work)
  /\ worker' = [worker EXCEPT ![w] = "busy"]
  /\ lock' = Nobody
  /\ UNCHANGED <<job, parserVars, results, writerVars, exit>>

\* Mutant: the worker keeps the mutex when it leaves its loop.
LeaveLocked(w) ==
  /\ lock = w
  /\ work = <<>> /\ parser = "done"
  /\ worker' = [worker EXCEPT ![w] = "done"]
  /\ UNCHANGED <<job, parserVars, work, lock, item, results, writerVars, exit>>

\* recv fails: the channel is empty and its sender gone.
Leave(w) ==
  /\ lock = w
  /\ work = <<>> /\ parser = "done"
  /\ worker' = [worker EXCEPT ![w] = "done"]
  /\ lock' = Nobody
  /\ UNCHANGED <<job, parserVars, work, item, results, writerVars, exit>>

\* Mutant: a result is dropped when the channel is full.
SendOrDrop(w) ==
  /\ worker[w] = "busy"
  /\ results' = IF Len(results) < Capacity THEN Append(results, item[w]) ELSE results
  /\ worker' = [worker EXCEPT ![w] = "idle"]
  /\ item' = [item EXCEPT ![w] = NoPage]
  /\ UNCHANGED <<job, parserVars, work, lock, writerVars, exit>>

\* analyse_page and build_page_output touch nothing shared; the result is sent.
SendResult(w) ==
  /\ worker[w] = "busy"
  /\ Len(results) < Capacity
  /\ results' = Append(results, item[w])
  /\ worker' = [worker EXCEPT ![w] = "idle"]
  /\ item' = [item EXCEPT ![w] = NoPage]
  /\ UNCHANGED <<job, parserVars, work, lock, writerVars, exit>>

-----------------------------------------------------------------------------
(* The main thread.                                                        *)

\* DumpParser::new has read the site info; the threads are spawned.
Start ==
  /\ writer = "starting"
  /\ ~job.headless
  /\ writer' = "opening"
  /\ UNCHANGED <<job, parserVars, work, workerVars, results, output, page_count,
                 skipped_pages, exit>>

\* DumpParser::new fails: process_parallel returns before it writes anything.
Reject ==
  /\ writer = "starting" /\ exit = "running"
  /\ job.headless
  /\ exit' = "error"
  /\ UNCHANGED <<job, parserVars, work, workerVars, results, writerVars>>

Open ==
  /\ writer = "opening"
  /\ writer' = "writing"
  /\ output' = output \o OpenOutput(job)
  /\ UNCHANGED <<job, parserVars, work, workerVars, results, page_count, skipped_pages, exit>>

\* Mutant: a skipped page is counted.
SkipCounted ==
  /\ writer = "writing"
  /\ results # <<>> /\ ~job.pages[Head(results)].valid
  /\ skipped_pages' = skipped_pages \cup {Head(results)}
  /\ page_count' = page_count + 1
  /\ results' = Tail(results)
  /\ UNCHANGED <<job, parserVars, work, workerVars, writer, output, exit>>

Skip ==
  /\ writer = "writing"
  /\ results # <<>> /\ ~job.pages[Head(results)].valid
  /\ skipped_pages' = skipped_pages \cup {Head(results)}
  /\ results' = Tail(results)
  /\ UNCHANGED <<job, parserVars, work, workerVars, writer, output, page_count, exit>>

Write ==
  /\ writer = "writing"
  /\ results # <<>> /\ job.pages[Head(results)].valid
  /\ output' = WritePageResult(job, output, Head(results), page_count)
  /\ page_count' = page_count + 1
  /\ results' = Tail(results)
  /\ UNCHANGED <<job, parserVars, work, workerVars, writer, skipped_pages, exit>>

\* The result channel is empty and every sender gone.
ResultsClosed == results = <<>> /\ \A w \in Workers : worker[w] = "done"

\* Mutant: a page that cannot be written is passed over.
PassOverFailure ==
  /\ job.failing
  /\ writer = "writing"
  /\ results # <<>> /\ job.pages[Head(results)].valid
  /\ results' = Tail(results)
  /\ UNCHANGED <<job, parserVars, work, workerVars, writerVars, exit>>

\* unwrap() on an output that refuses a write, or on its final flush.
FailWrite ==
  /\ job.failing
  /\ \/ writer = "opening" /\ job.format = "json" /\ UNCHANGED <<results, output>>
     \/ /\ writer = "writing"
        /\ results # <<>> /\ job.pages[Head(results)].valid
        /\ output' \in RefusedPage(job, output, page_count)
        /\ results' = Tail(results)
     \/ /\ writer = "writing" /\ ResultsClosed
        /\ output' \in RefusedClose(job, output)
        /\ UNCHANGED results
  /\ writer' = "panicked"
  /\ UNCHANGED <<job, parserVars, work, workerVars, page_count, skipped_pages, exit>>

Close ==
  /\ writer = "writing"
  /\ ResultsClosed
  /\ output' = output \o CloseOutput(job)
  /\ writer' = "done"
  /\ UNCHANGED <<job, parserVars, work, workerVars, results, page_count, skipped_pages, exit>>

\* The scope has joined the threads.
Joined == parser = "done" /\ \A w \in Workers : worker[w] = "done"

Return ==
  /\ exit = "running"
  /\ writer \in {"done", "panicked"} /\ Joined
  /\ exit' = CASE writer = "panicked" -> "panic"
               [] writer = "done" /\ parse_error -> "error"
               [] writer = "done" /\ ~parse_error -> "ok"
  /\ UNCHANGED <<job, parserVars, work, workerVars, results, writerVars>>

\* process_parallel has returned.
Finished == exit # "running" /\ UNCHANGED vars

Parser == ParsePage \/ EndOfDump \/ SendPage
Worker(w) == Lock(w) \/ TakePage(w) \/ Leave(w) \/ SendResult(w)
Writer == Start \/ Reject \/ Open \/ Skip \/ Write \/ FailWrite \/ Close \/ Return

Next == Parser \/ (\E w \in Workers : Worker(w)) \/ Writer \/ Finished

Spec == Init /\ [][Next]_vars

\* The operating system runs every thread that is not blocked.
FairSpec ==
  /\ Spec
  /\ WF_vars(Parser) /\ WF_vars(Writer)
  /\ \A w \in Workers : WF_vars(Worker(w))
-----------------------------------------------------------------------------
(* Properties                                                              *)

OutputItem == [kind : {"page", "part", "open", "comma", "close", "newline"}, page : 0 .. pos]

\* Every page a thread or a channel has is one the parser has read, and the
\* channels keep their bound.
TypeOK ==
  /\ job \in Jobs
  /\ pos \in 0 .. Len(job.pages)
  /\ parser \in {"parsing", "sending", "done"}
  /\ parser = "sending" => pos > 0
  /\ parsed_count \in Nat
  /\ parse_error \in BOOLEAN
  /\ work \in Seq(1 .. pos) /\ Len(work) <= Capacity
  /\ lock \in Workers \cup {Nobody}
  /\ worker \in [Workers -> {"idle", "busy", "done"}]
  /\ item \in [Workers -> 0 .. pos]
  /\ \A w \in Workers : worker[w] = "busy" => item[w] # NoPage
  /\ results \in Seq(1 .. pos) /\ Len(results) <= Capacity
  /\ writer \in {"starting", "opening", "writing", "done", "panicked"}
  /\ output \in Seq(OutputItem)
  /\ page_count \in Nat
  /\ skipped_pages \subseteq 1 .. pos
  /\ exit \in {"running", "ok", "error", "panic"}

Outgoing == IF parser = "sending" THEN {pos} ELSE {}
AtWorkers == {item[w] : w \in {v \in Workers : worker[v] = "busy"}}
SettledPages == Pages(output) \cup skipped_pages

(***************************************************************************)
(* A page is at one place at a time: with the parser, in one of the two    *)
(* channels, with one worker, or settled.  No thread takes a page another  *)
(* one has, and none is written or reported twice.                         *)
(***************************************************************************)
OnePlace ==
  /\ IsInjective(work) /\ IsInjective(results)
  /\ \A v, w \in Workers :
       worker[v] = "busy" /\ worker[w] = "busy" /\ item[v] = item[w] => v = w
  /\ \A n, m \in DOMAIN output : output[n].kind = "page" /\ output[n] = output[m] => n = m
  /\ LET places == <<Outgoing, Range(work), AtWorkers, Range(results),
                     Pages(output), skipped_pages>>
     IN \A i, j \in DOMAIN places : i # j => places[i] \cap places[j] = {}

\* The pages the parser has passed on, or holds to do so.
Accepted == {p \in FirstPages(job) : p <= pos}

Somewhere ==
  Outgoing \cup Range(work) \cup AtWorkers \cup Range(results) \cup SettledPages

(***************************************************************************)
(* No page is lost on its way: until a write fails, every page the parser  *)
(* accepted is somewhere, and only such pages are.                         *)
(***************************************************************************)
NothingLost ==
  /\ Somewhere \subseteq Accepted
  /\ writer # "panicked" => Somewhere = Accepted

(***************************************************************************)
(* When process_parallel returns without a panic the output is a complete  *)
(* document, also after a parse error and with pages that were skipped; it *)
(* is empty only if the parser could not be made at all.  A panic leaves   *)
(* the beginning of a document, wherever the write was refused.            *)
(***************************************************************************)
OutputIsDocument ==
  /\ exit \in {"ok", "error"} =>
       IF job.headless THEN output = <<>> ELSE IsDocument(job, output)
  /\ exit = "panic" => BeginsDocument(job, output)

(***************************************************************************)
(* Success is only reported when every page was settled and the dump was   *)
(* read to its end or to the limit, also when the output refuses writes.   *)
(***************************************************************************)
SuccessIsComplete ==
  exit = "ok" => SettledPages = FirstPages(job) /\ ~ReportsError(job)

(***************************************************************************)
(* Until a write fails the pipeline makes its way to the end: no thread    *)
(* waits for a lock or a channel that nobody serves, also when both        *)
(* channels are full.                                                      *)
(***************************************************************************)
Termination == <>(exit # "running" \/ writer = "panicked")

(***************************************************************************)
(* The pipeline is a page stream: the threads neither change which pages   *)
(* are settled and how, nor the result of the run.                         *)
(***************************************************************************)
Stream == INSTANCE PageStream WITH
  written <- Pages(output), skipped <- skipped_pages, status <- exit

ImplementsStream == Stream!StreamSpec

-----------------------------------------------------------------------------
(* A claim of the documentation.                                           *)

(***************************************************************************)
(* The comment of the worker's send: if the writer has dropped, stop.      *)
(***************************************************************************)
WorkersStopWithWriter ==
  writer = "panicked" ~> \A w \in Workers : worker[w] = "done"
=============================================================================
