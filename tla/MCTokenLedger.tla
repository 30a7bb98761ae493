---------------------------- MODULE MCTokenLedger ----------------------------
(* Four valid revisions, each introducing at most two tokens.               *)
EXTENDS TokenLedger

Pointers == 1 .. 4
=============================================================================
