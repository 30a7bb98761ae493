----------------------------- MODULE MCAuthorship -----------------------------
(* Small pages for Authorship.  The structural pages mix paragraphs that     *)
(* share sentences and sentences that share words, so that candidates are    *)
(* partly matched (T8 after T1 and T2), exhausted (T9 after T7 and T1),      *)
(* duplicated (T5) and matched only word by word (T6).  The spam pages have  *)
(* long, short and dense texts.                                              *)
EXTENDS PageOutput

CONSTANTS a, b, c

AB == <<a, b>>
C == <<c>>

T0 == <<>>
T1 == <<<<AB, C>>>>
T2 == <<<<AB>>, <<C>>>>
T5 == <<<<<<a>>>>, <<<<a>>>>>>
T6 == <<<<<<b, a, c>>>>>>
T7 == <<<<AB>>>>
T8 == <<<<C>>, <<AB, C>>>>
T9 == <<<<AB, C>>, <<AB>>>>
\* A paragraph without sentences: a text of nothing but separators ("@@@@").
T3 == <<<<>>, <<AB>>>>

StructuralTexts == {T0, T1, T2, T3, T5, T6, T7, T8, T9}
StructuralLength == [t \in StructuralTexts |-> 10]
StructuralRevisions == [text : StructuralTexts, sha1 : {FALSE}, exempt : {FALSE}]

\* Lengths on both sides of the thresholds; Shortened is 39.9% below Long.
Long == <<<<AB>>>>
Longer == <<<<AB, C>>>>
Short == <<<<<<a>>>>>>
Shortened == <<<<<<b>>>>>>
Dense == <<<<AB>>, <<<<a, a, b>>>>>>
Markup == <<<<<<c, c, c, a>>>>>>
Empty == <<>>

SpamTexts == {Long, Longer, Short, Shortened, Dense, Markup, Empty}
SpamLength ==
  [t \in SpamTexts |-> CASE t = Long -> 1001 [] t = Longer -> 1500 [] t = Short -> 600
                        [] t = Shortened -> 602 [] t = Empty -> 0 [] OTHER -> 1200]

Revision(text, sha1, exempt) == [text |-> text, sha1 |-> sha1, exempt |-> exempt]
SpamRevisions ==
  {Revision(t, FALSE, FALSE) : t \in SpamTexts \cup {Deleted}}
  \cup {Revision(t, TRUE, FALSE) : t \in {Short, Dense}}
  \cup {Revision(Short, FALSE, TRUE)}
MarkupTokens == {c}

Tokens == {a, b, c}
NoTokens == {}
=============================================================================
