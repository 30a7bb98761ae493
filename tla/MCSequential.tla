----------------------------- MODULE MCSequential -----------------------------
(* All dumps of up to three pages, with every limit that makes a difference. *)
EXTENDS Sequential

Kinds == [selected : BOOLEAN, valid : BOOLEAN]

AllJobs ==
  {j \in [pages : UNION {[1 .. n -> Kinds] : n \in 0 .. 3}, malformed : BOOLEAN,
          headless : BOOLEAN, limit : {0, 1, 2, NoLimit}, format : {"json", "lines"},
          failing : BOOLEAN] :
     j.headless => j.malformed /\ j.pages = <<>>}

\* The limit counts written pages, so an invalid page would exceed it.
PlainJobs ==
  {j \in AllJobs : j.limit = NoLimit \/ \A p \in DOMAIN j.pages : j.pages[p].valid}
=============================================================================
