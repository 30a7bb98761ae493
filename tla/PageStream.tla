------------------------------ MODULE PageStream ------------------------------
(***************************************************************************)
(* What wikiwho-cli promises of a run, whatever the number of threads:     *)
(* each of the first N selected pages is settled exactly once, by writing  *)
(* it if it is valid and by a warning if it is not, in any order; the run  *)
(* ends when all are, with an error if and only if the dump was found to   *)
(* be malformed.  An output that refuses a write may end it at any time,   *)
(* never as a success.                                                     *)
(***************************************************************************)
EXTENDS CliJob

VARIABLES job, written, skipped, status

stream == <<job, written, skipped, status>>

StreamInit ==
  /\ job \in Jobs
  /\ written = {} /\ skipped = {}
  /\ status = "running"

Settle(p) ==
  /\ status = "running"
  /\ p \in FirstPages(job) \ (written \cup skipped)
  /\ IF job.pages[p].valid
     THEN written' = written \cup {p} /\ UNCHANGED skipped
     ELSE skipped' = skipped \cup {p} /\ UNCHANGED written
  /\ UNCHANGED <<job, status>>

Finish ==
  /\ status = "running"
  /\ written \cup skipped = FirstPages(job)
  /\ status' = IF ReportsError(job) THEN "error" ELSE "ok"
  /\ UNCHANGED <<job, written, skipped>>

Break ==
  /\ status = "running"
  /\ job.failing
  /\ status' \in {"error", "panic"}
  /\ UNCHANGED <<job, written, skipped>>

StreamNext == (\E p \in FirstPages(job) : Settle(p)) \/ Finish \/ Break

StreamSpec == StreamInit /\ [][StreamNext]_stream
=============================================================================
