-------------------------------- MODULE Difflib --------------------------------
(***************************************************************************)
(* compare (difflib.rs): the longest run of equal tokens is looked for in  *)
(* the whole of a and b, then in what is left of it and right of it, and   *)
(* so on; what no run covers becomes deletions and insertions.  A search   *)
(* fills one row per token of a, of the lengths of the runs that end       *)
(* there; two rows take turns, and are cleared by raising a generation     *)
(* number instead of writing zeros.                                        *)
(*                                                                         *)
(* Positions count from 1.  A block [a, b, len] is a run: len tokens from  *)
(* a[block.a] equal to those from b[block.b].                              *)
(***************************************************************************)
EXTENDS Naturals, Sequences, FiniteSets, SequencesExt

CONSTANTS Token,
          Inputs,          \* the pairs of sequences considered
          AUTOJUNK_LENGTH, \* 200 in the code
          AUTOJUNK_SHARE,  \* 100 in the code
          MaxGeneration    \* u32::MAX in the code

ASSUME InputsAssumption == Inputs \subseteq Seq(Token) \X Seq(Token)
ASSUME LimitsAssumption ==
  AUTOJUNK_LENGTH \in Nat /\ AUTOJUNK_SHARE \in Nat \ {0} /\ MaxGeneration \in Nat \ {0}

VARIABLES
  pc,                 \* "next", "search" or "done"
  a, b,
  last_row, this_row, \* ClearableArray
  work_queue,         \* windows [a, b, a_end, b_end], the ends excluded
  window,             \* the one being searched
  i,                  \* the token of a whose row is next
  longest,            \* the longest run found: a set of at most one block
  match_blocks,
  diff_ops

rows == <<last_row, this_row>>
search == <<window, i, longest>>
vars == <<pc, a, b, rows, work_queue, search, match_blocks, diff_ops>>

-----------------------------------------------------------------------------
(* ClearableArray                                                          *)

NewRow(len) ==
  [values |-> [j \in 1 .. len |-> 0], generations |-> [j \in 1 .. len |-> 0], generation |-> 1]

\* Mutant: the generation is raised once more than its width allows.
ClearedOverflowing(row) == [row EXCEPT !.generation = @ + 1]

\* Mutant: the generation starts over without the entries being cleared.
ClearedWrapping(row) ==
  [row EXCEPT !.generation = IF @ < MaxGeneration THEN @ + 1 ELSE 1]

Cleared(row) ==
  IF row.generation < MaxGeneration THEN [row EXCEPT !.generation = @ + 1]
  ELSE [row EXCEPT !.generation = 1, !.generations = [j \in DOMAIN @ |-> 0]]

Read(row, j) == IF row.generations[j] = row.generation THEN row.values[j] ELSE 0

\* The row after the values of f are written.
Written(row, f) ==
  [row EXCEPT !.values = [j \in DOMAIN @ |-> IF j \in DOMAIN f THEN f[j] ELSE @[j]],
              !.generations = [j \in DOMAIN @ |-> IF j \in DOMAIN f THEN row.generation ELSE @[j]]]

-----------------------------------------------------------------------------
(* build_elem_indices                                                      *)

Occurrences(tok) == {j \in DOMAIN b : b[j] = tok}

Popular(tok) ==
  /\ Len(b) >= AUTOJUNK_LENGTH
  /\ Cardinality(Occurrences(tok)) > 1 + Len(b) \div AUTOJUNK_SHARE

b_indices(tok) == IF Popular(tok) THEN {} ELSE Occurrences(tok)

-----------------------------------------------------------------------------
Block(at_a, at_b, len) == [a |-> at_a, b |-> at_b, len |-> len]
Window(at_a, at_b, a_end, b_end) == [a |-> at_a, b |-> at_b, a_end |-> a_end, b_end |-> b_end]

WholeWindow == Window(1, 1, Len(a) + 1, Len(b) + 1)

Init ==
  /\ pc = "next"
  /\ \E input \in Inputs : a = input[1] /\ b = input[2]
  /\ last_row = NewRow(Len(b)) /\ this_row = NewRow(Len(b))
  /\ work_queue = <<WholeWindow>>
  /\ window = WholeWindow /\ i = 1 /\ longest = {}
  /\ match_blocks = <<>> /\ diff_ops = <<>>

\* find_matching_blocks pops a window, find_longest_match starts.
StartSearch ==
  /\ pc = "next"
  /\ work_queue # <<>>
  /\ pc' = "search"
  /\ window' = Last(work_queue)
  /\ work_queue' = Front(work_queue)
  /\ i' = window'.a
  /\ longest' = {}
  /\ this_row' = Cleared(this_row)
  /\ last_row' = Cleared(last_row)
  /\ UNCHANGED <<a, b, match_blocks, diff_ops>>

\* The lengths of the runs that end at a[i], by where they end in b.
RunLengths ==
  [j \in {k \in b_indices(a[i]) : window.b <= k /\ k < window.b_end} |->
     IF j > 1 THEN Read(this_row, j - 1) + 1 ELSE 1]

\* Mutant: a run as long as the longest one replaces it.
LongerOrEqual(found, len) == \A block \in found : len >= block.len

LongerThan(found, len) == \A block \in found : len > block.len

\* Mutant: a token that matches nowhere is not passed over.
FillRowStuck ==
  /\ pc = "search"
  /\ i < window.a_end
  /\ last_row' = this_row
  /\ this_row' = Written(Cleared(last_row), RunLengths)
  /\ i' = IF RunLengths = <<>> THEN i ELSE i + 1
  /\ UNCHANGED <<pc, a, b, work_queue, window, longest, match_blocks, diff_ops>>

\* The rows have been swapped when a token of a is looked at; a popular token, or
\* one that b lacks, leaves an empty row.
FillRow ==
  /\ pc = "search"
  /\ i < window.a_end
  /\ last_row' = this_row
  /\ this_row' = Written(Cleared(last_row), RunLengths)
  /\ LET longer == {j \in DOMAIN RunLengths :
                      /\ LongerThan(longest, RunLengths[j])
                      /\ \A k \in DOMAIN RunLengths :
                           \/ RunLengths[k] < RunLengths[j]
                           \/ RunLengths[k] = RunLengths[j] /\ k >= j}
     IN longest' = IF longer = {} THEN longest
                   ELSE {Block(i - RunLengths[j] + 1, j - RunLengths[j] + 1, RunLengths[j]) :
                           j \in longer}
  /\ i' = i + 1
  /\ UNCHANGED <<pc, a, b, work_queue, window, match_blocks, diff_ops>>

\* Mutant: the match may grow out of its window.
ExpandedBeyondWindow(block) ==
  LET left == {n \in 0 .. Len(a) : /\ n < block.a /\ n < block.b
                                   /\ \A k \in 1 .. n : a[block.a - k] = b[block.b - k]}
  IN Block(block.a - Max(left), block.b - Max(left), block.len + Max(left))

\* expand_match_within_window
Expanded(block) ==
  LET a_end == block.a + block.len
      b_end == block.b + block.len
      left == {n \in 0 .. Len(a) :
                 /\ window.a + n <= block.a /\ window.b + n <= block.b
                 /\ \A k \in 1 .. n : a[block.a - k] = b[block.b - k]}
      right == {n \in 0 .. Len(a) :
                  /\ a_end + n <= window.a_end /\ b_end + n <= window.b_end
                  /\ \A k \in 0 .. n - 1 : a[a_end + k] = b[b_end + k]}
  IN Block(block.a - Max(left), block.b - Max(left), block.len + Max(left) + Max(right))

\* Mutant: nor one with a single token of a.
WorthwhileOffByOne(w) == IF w.a + 1 < w.a_end /\ w.b < w.b_end THEN <<w>> ELSE <<>>

\* A window with nothing on one side is not searched.
Worthwhile(w) == IF w.a < w.a_end /\ w.b < w.b_end THEN <<w>> ELSE <<>>

\* The windows to the left and to the right of a block.
Rest(block) ==
  Worthwhile(Window(window.a, window.b, block.a, block.b))
  \o Worthwhile(Window(block.a + block.len, block.b + block.len, window.a_end, window.b_end))

EndSearch ==
  /\ pc = "search"
  /\ i = window.a_end
  /\ pc' = "next"
  /\ IF longest = {} THEN UNCHANGED <<match_blocks, work_queue>>
     ELSE \E found \in longest :
            /\ match_blocks' = Append(match_blocks, Expanded(found))
            /\ work_queue' = work_queue \o Rest(Expanded(found))
  /\ UNCHANGED <<a, b, rows, search, diff_ops>>

-----------------------------------------------------------------------------
(* compare                                                                 *)

\* Mutant: the blocks are taken as they were found.
AsFound == match_blocks

\* match_blocks by their position in a.
Sorted ==
  [n \in DOMAIN match_blocks |->
     CHOOSE block \in Range(match_blocks) :
       Cardinality({other \in Range(match_blocks) : other.a < block.a}) = n - 1]

Op(tag, seq, from, end) == [k \in 1 .. end - from |-> [tag |-> tag, tok |-> seq[from + k - 1]]]

\* push_gap_diffops
GapOps(w) == Op("Delete", a, w.a, w.a_end) \o Op("Insert", b, w.b, w.b_end)

\* push_equal_diffops
EqualOps(block) == Op("Equal", a, block.a, block.a + block.len)

\* The n-th gap, before the n-th block or after the last one.
GapBefore(blocks, n) ==
  LET from == IF n = 1 THEN Block(1, 1, 0) ELSE blocks[n - 1]
      to == IF n > Len(blocks) THEN Block(Len(a) + 1, Len(b) + 1, 0) ELSE blocks[n]
  IN Window(from.a + from.len, from.b + from.len, to.a, to.b)

Compare ==
  /\ pc = "next"
  /\ work_queue = <<>>
  /\ pc' = "done"
  /\ diff_ops' =
       FlattenSeq([n \in DOMAIN Sorted |-> GapOps(GapBefore(Sorted, n)) \o EqualOps(Sorted[n])])
       \o GapOps(GapBefore(Sorted, Len(Sorted) + 1))
  /\ UNCHANGED <<a, b, rows, work_queue, search, match_blocks>>

Finished == pc = "done" /\ UNCHANGED vars

Next == StartSearch \/ FillRow \/ EndSearch \/ Compare \/ Finished

Spec == Init /\ [][Next]_vars

\* One thread.
FairSpec == Spec /\ WF_vars(Next)
-----------------------------------------------------------------------------
(* Properties                                                              *)

WindowType == [a : 1 .. Len(a) + 1, b : 1 .. Len(b) + 1, a_end : 1 .. Len(a) + 1, b_end : 1 .. Len(b) + 1]
BlockType == [a : DOMAIN a, b : DOMAIN b, len : Nat \ {0}]
RowType == [values : [DOMAIN b -> 0 .. Len(a)], generations : [DOMAIN b -> 0 .. MaxGeneration],
            generation : 1 .. MaxGeneration]
OpType == [tag : {"Delete", "Insert", "Equal"}, tok : Token]

\* Every index is within its slice, and the generation within its width.
TypeOK ==
  /\ pc \in {"next", "search", "done"}
  /\ <<a, b>> \in Inputs
  /\ last_row \in RowType /\ this_row \in RowType
  /\ work_queue \in Seq(WindowType)
  /\ window \in WindowType
  /\ i \in window.a .. window.a_end
  /\ longest \subseteq BlockType
  /\ match_blocks \in Seq(BlockType)
  /\ diff_ops \in Seq(OpType)

\* A run within the window of len tokens none of which is popular.
IsAnchor(at_a, at_b, len) ==
  /\ window.a <= at_a /\ at_a + len <= window.a_end
  /\ window.b <= at_b /\ at_b + len <= window.b_end
  /\ \A k \in 0 .. len - 1 : at_b + k \in b_indices(a[at_a + k])

(***************************************************************************)
(* After each token of a the row holds, for every place of b, the length   *)
(* of the longest run that ends there and lies in the window: nothing is   *)
(* left in it of older rows, other windows or before the generation number *)
(* wrapped around (difflib_find_longest_match.md, the cells of the table). *)
(***************************************************************************)
RowHoldsRuns ==
  pc = "search" /\ i > window.a =>
    \A j \in DOMAIN b :
      Read(this_row, j) = Max({0} \cup {n \in 1 .. j : i >= n /\ IsAnchor(i - n, j - n + 1, n)})

(***************************************************************************)
(* A search finds the longest run of its window and, among those as long,  *)
(* the first one in a and then the first one in b, as Python's difflib.    *)
(***************************************************************************)
LongestAndFirst ==
  pc = "search" /\ i = window.a_end =>
    LET anchors == {block \in [a : DOMAIN a, b : DOMAIN b, len : 1 .. Len(a)] :
                      IsAnchor(block.a, block.b, block.len)}
    IN /\ longest = {} <=> anchors = {}
       /\ \A found \in longest :
            /\ found \in anchors
            /\ \A other \in anchors :
                 \/ other = found
                 \/ other.len < found.len
                 \/ other.len = found.len /\ other.a > found.a
                 \/ other.len = found.len /\ other.a = found.a /\ other.b > found.b

\* Everything in x lies before everything in y, in both sequences.
Before(x, y) == x.a_end <= y.a /\ x.b_end <= y.b

Extent(block) == Window(block.a, block.b, block.a + block.len, block.b + block.len)

\* The areas of a and b that are matched or still to be searched.
Areas ==
  [n \in DOMAIN match_blocks |-> Extent(match_blocks[n])] \o work_queue
  \o (IF pc = "search" THEN <<window>> ELSE <<>>)

(***************************************************************************)
(* Blocks and open windows lie one behind the other, in the same order in  *)
(* both sequences: blocks never overlap or cross, also when they grow by   *)
(* popular tokens (the assertions of compare).                             *)
(***************************************************************************)
AreasInOrder ==
  \A n, m \in DOMAIN Areas : n # m => Before(Areas[n], Areas[m]) \/ Before(Areas[m], Areas[n])

\* How many of the first n operations are of the given kinds.
Count(ops, tags, n) == Cardinality({m \in 1 .. n : ops[m].tag \in tags})

\* The k-th operation of these kinds has the k-th token of seq, and there are as many.
Spell(ops, tags, seq) ==
  /\ Count(ops, tags, Len(ops)) = Len(seq)
  /\ \A n \in DOMAIN ops : ops[n].tag \in tags => ops[n].tok = seq[Count(ops, tags, n)]

(***************************************************************************)
(* The operations turn a into b: equalities and deletions spell a,         *)
(* equalities and insertions spell b, and between two equalities deletions *)
(* come first.  This is what the analysis assumes of the diff.             *)
(***************************************************************************)
TurnsAIntoB ==
  pc = "done" =>
    /\ Spell(diff_ops, {"Equal", "Delete"}, a)
    /\ Spell(diff_ops, {"Equal", "Insert"}, b)
    /\ \A n \in 1 .. Len(diff_ops) - 1 :
         ~(diff_ops[n].tag = "Insert" /\ diff_ops[n + 1].tag = "Delete")

(***************************************************************************)
(* A token deleted and inserted in the same gap is a popular one: nothing  *)
(* else that could be matched is left unmatched.                           *)
(***************************************************************************)
GapsHaveNoAnchor ==
  pc = "done" =>
    \A n \in 1 .. Len(Sorted) + 1 :
      LET gap == GapBefore(Sorted, n)
      IN \A k \in gap.a .. gap.a_end - 1, j \in gap.b .. gap.b_end - 1 :
           a[k] = b[j] => Popular(a[k])

(***************************************************************************)
(* Every comparison ends: a window is larger than those it is split into.  *)
(***************************************************************************)
Termination == <>(pc = "done")
=============================================================================
