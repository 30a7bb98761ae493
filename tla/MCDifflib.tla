------------------------------- MODULE MCDifflib -------------------------------
(* All pairs of sequences of up to four and up to five tokens of three       *)
(* kinds: from four tokens on, those that occur more than twice are popular. *)
(* The generation wraps around after three rows.                             *)
EXTENDS Difflib

CONSTANTS x, y, z

Tokens3 == {x, y, z}
Upto(S, n) == UNION {[1 .. k -> S] : k \in 0 .. n}

\* The first token of a is x, then y comes before z: the rest is renaming.
Renamed(s) ==
  \A k \in DOMAIN s : /\ k = 1 => s[k] = x
                      /\ s[k] = z => \E m \in 1 .. k - 1 : s[m] = y
SmallInputs == {s \in Upto(Tokens3, 4) : Renamed(s)} \X Upto(Tokens3, 5)
=============================================================================
