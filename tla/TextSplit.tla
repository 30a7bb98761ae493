------------------------------ MODULE TextSplit ------------------------------
(***************************************************************************)
(* Splitting of texts (optimized_str.rs, utils.rs).  A text is rewritten   *)
(* by a list of rules, so that a separator stands wherever a part ends,    *)
(* cut at the separators, and the parts are looked up in the original      *)
(* text, to borrow them from there where they occur verbatim.  The feature *)
(* optimized-str does the rewriting in two reused buffers and finds tokens *)
(* by pattern matching; it must agree with the plain implementation.       *)
(*                                                                         *)
(* A text is a sequence of symbols: single characters (sp, nl, cr, tab for *)
(* white space, x and y for letters), the words word, table, tr, ref, http *)
(* and the text aeae of the four letters the plain tokeniser inserts for   *)
(* "|".  No symbol's spelling occurs within another's, so that searching   *)
(* symbols finds what searching characters finds.                          *)
(***************************************************************************)
EXTENDS Naturals, Sequences, SequencesExt

White == {"sp", "nl", "cr", "tab"}
Separators == {"sp", "nl"}
Punctuation == {".", ";", ":", "?", "!", "-", "/", "[", "]", "{", "}", "@", "=", "<", ">"}
Words == {"x", "y", "word", "table", "tr", "ref", "http", "aeae"}
Symbol == White \cup Punctuation \cup {"|"} \cup Words

\* The number of characters of a symbol, as far as it matters: three or more.
Width(s) == IF s \in {"word", "table", "ref", "http", "aeae"} THEN 3
            ELSE IF s = "tr" THEN 2 ELSE 1

Mark == <<"@", "@", "@", "@">>
Blank == <<"nl", "nl">>

-----------------------------------------------------------------------------
(* Rewriting.                                                              *)

StandsAt(part, i, t) ==
  i + Len(part) - 1 <= Len(t) /\ \A k \in DOMAIN part : t[i + k - 1] = part[k]
Occurs(part, t) == \E i \in DOMAIN t : StandsAt(part, i, t)

Literal(from, to) == [kind |-> "literal", from |-> from, to |-> to]
RegexDot == [kind |-> "dot"]
RegexUrl == [kind |-> "url"]

\* Three characters before place i that are neither white space nor "." or "=".
WordBefore(i, t) ==
  \E n \in 1 .. 3 :
    /\ n < i
    /\ \A j \in i - n .. i - 1 : t[j] \notin White \cup {".", "="}
    /\ FoldSeq(LAMBDA s, w : Width(s) + w, 0, SubSeq(t, i - n, i - 1)) >= 3

\* The ends of the matches of http.*?://.*?[ \|<>\n\r] from place i: of the
\* addresses that end on the line, the first one taken lazily.
UrlEnds(i, t) ==
  {e \in i + 4 .. Len(t) :
     /\ t[i] = "http" /\ t[e] \in {"sp", "|", "<", ">", "nl", "cr"}
     /\ \E j \in i + 1 .. e - 3 : StandsAt(<<":", "/", "/">>, j, t)
     /\ \A j \in i .. e - 1 : t[j] # "nl"}

\* The length of the match of a rule at place i, 0 if there is none.
MatchAt(rule, i, t) ==
  CASE rule.kind = "literal" -> IF StandsAt(rule.from, i, t) THEN Len(rule.from) ELSE 0
    [] rule.kind = "dot" ->
         IF StandsAt(<<".", "sp">>, i, t) /\ WordBefore(i, t) THEN 2 ELSE 0
    [] rule.kind = "url" -> IF UrlEnds(i, t) = {} THEN 0 ELSE Min(UrlEnds(i, t)) + 1 - i

Replacement(rule, match) ==
  CASE rule.kind = "literal" -> rule.to
    [] rule.kind = "dot" -> <<".">> \o Mark
    [] rule.kind = "url" -> Mark \o match \o Mark

\* All matches from left to right, none overlapping another.
Replaced(rule, t) ==
  LET from[i \in 1 .. Len(t) + 1] ==
        IF i > Len(t) THEN <<>>
        ELSE LET n == MatchAt(rule, i, t) IN
             IF n = 0 THEN <<t[i]>> \o from[i + 1]
             ELSE Replacement(rule, SubSeq(t, i, i + n - 1)) \o from[i + n]
  IN from[1]

Cut(t, separator) ==
  LET from[i \in 1 .. Len(t) + 1] ==
        IF i > Len(t) THEN <<<<>>>>
        ELSE IF StandsAt(separator, i, t) THEN <<<<>>>> \o from[i + Len(separator)]
        ELSE LET rest == from[i + 1] IN <<<<t[i]>> \o rest[1]>> \o Tail(rest)
  IN from[1]

ParagraphRules == <<
  Literal(<<"cr", "nl">>, <<"nl">>), Literal(<<"cr">>, <<"nl">>),
  Literal(<<"<", "table", ">">>, Blank \o <<"<", "table", ">">>),
  Literal(<<"<", "/", "table", ">">>, <<"<", "/", "table", ">">> \o Blank),
  Literal(<<"<", "tr", ">">>, Blank \o <<"<", "tr", ">">>),
  Literal(<<"<", "/", "tr", ">">>, <<"<", "/", "tr", ">">> \o Blank),
  Literal(<<"{", "|">>, Blank \o <<"{", "|">>),
  Literal(<<"|", "}">>, <<"|", "}">> \o Blank),
  Literal(<<"|", "-", "nl">>, Blank \o <<"|", "-", "nl">>) >>

SentenceRules == <<
  Literal(<<"nl">>, <<"nl">> \o Mark), RegexDot,
  Literal(<<";", "sp">>, <<";">> \o Mark), Literal(<<"?", "sp">>, <<"?">> \o Mark),
  Literal(<<"!", "sp">>, <<"!">> \o Mark), Literal(<<":", "sp">>, <<":">> \o Mark),
  Literal(<<"tab">>, <<"tab">> \o Mark),
  Literal(<<"<", "!", "-", "-">>, Mark \o <<"<", "!", "-", "-">>),
  Literal(<<"-", "-", ">">>, <<"-", "-", ">">> \o Mark),
  Literal(<<"<", "ref">>, Mark \o <<"<", "ref">>),
  Literal(<<"/", "ref", ">">>, <<"/", "ref", ">">> \o Mark), RegexUrl >>

MergeMarks == Literal(Mark \o Mark, Mark)

\* Each round shortens a run of marks that is too long by four "@" or more.
Rounds(t) == Len(t) \div 4

-----------------------------------------------------------------------------
(* The plain implementation: a new string for every rule.                  *)

RewrittenBy(rules, t) ==
  LET after[k \in 0 .. Len(rules)] ==
        IF k = 0 THEN t ELSE Replaced(rules[k], after[k - 1])
  IN after[Len(rules)]

ParagraphsNaive(t) == Cut(RewrittenBy(ParagraphRules, t), Blank)

SentencesNaive(t) ==
  LET marked == RewrittenBy(SentenceRules, t)
  IN Cut(RewrittenBy([k \in 1 .. Rounds(marked) |-> MergeMarks], marked), Mark)

\* "||" is one symbol here: no single "|" is left once the first is inserted.
TokensNaive(t) ==
  LET Spread(s) == CASE s = "|" -> <<"||", "aeae", "||">>
                     [] s \in Separators -> <<"||">>
                     [] s \in Punctuation -> <<"||", s, "||">>
                     [] OTHER -> <<s>>
      Joined(a) == Literal(<<a, "||", "||", a>>, <<a, a>>)
      rules == <<Joined("["), Joined("]"), Joined("{"), Joined("}"),
                 Literal(<<"<", "||", "||", "!", "||", "||", "-", "||", "||", "-", "||">>,
                         <<"||", "<", "!", "-", "-", "||">>),
                 Literal(<<"||", "-", "||", "||", "-", "||", "||", ">", "||">>,
                         <<"||", "-", "-", ">", "||">>)>>
      spread == FlattenSeq([i \in DOMAIN t |-> Spread(t[i])])
      parts == SelectSeq(Cut(RewrittenBy(rules, spread), <<"||">>), LAMBDA w : w # <<>>)
  IN [k \in DOMAIN parts |-> IF parts[k] = <<"aeae">> THEN <<"|">> ELSE parts[k]]

-----------------------------------------------------------------------------
(* The optimised implementation: the text moves between two buffers.       *)

\* Mutant: the buffer the text was read from is not cleared.
StrReplaceUncleared(buffers, rule) ==
  IF \A i \in DOMAIN buffers.text : MatchAt(rule, i, buffers.text) = 0
  THEN buffers
  ELSE [text |-> buffers.scratch \o Replaced(rule, buffers.text), scratch |-> buffers.text]

StrReplaceOpt(buffers, rule) ==
  IF \A i \in DOMAIN buffers.text : MatchAt(rule, i, buffers.text) = 0
  THEN buffers
  ELSE [text |-> buffers.scratch \o Replaced(rule, buffers.text), scratch |-> <<>>]

RewrittenOpt(rules, buffers) ==
  LET after[k \in 0 .. Len(rules)] ==
        IF k = 0 THEN buffers ELSE StrReplaceOpt(after[k - 1], rules[k])
  IN after[Len(rules)]

\* The text is pushed to the first buffer; both are taken, used and put back.
SplitWith(rewritten, separator) ==
  [parts |-> Cut(rewritten.text, separator),
   buffers |-> [text |-> <<>>, scratch |-> rewritten.scratch]]

Taken(buffers, t) == [buffers EXCEPT !.text = @ \o t]

ParagraphsOptimized(t, buffers) ==
  SplitWith(RewrittenOpt(ParagraphRules, Taken(buffers, t)), Blank)

SentencesOptimized(t, buffers) ==
  LET marked == RewrittenOpt(SentenceRules, Taken(buffers, t))
  IN SplitWith(RewrittenOpt([k \in 1 .. Rounds(marked.text) |-> MergeMarks], marked), Mark)

Composites == {<<"<", "!", "-", "-">>, <<"-", "-", ">">>, <<"[", "[">>,
               <<"]", "]">>, <<"{", "{">>, <<"}", "}">>}

\* The length of the pattern at place i, composites first, 0 if there is none.
PatternAt(i, t) ==
  IF \E c \in Composites : StandsAt(c, i, t)
  THEN Len(CHOOSE c \in Composites : StandsAt(c, i, t))
  ELSE IF t[i] \in Separators \cup Punctuation \cup {"|"} THEN 1 ELSE 0

TokensCorasick(t) ==
  LET from[i \in 1 .. Len(t) + 1] ==
        IF i > Len(t) THEN <<>>
        ELSE LET n == PatternAt(i, t)
                 next == IF n > 0 THEN i + n
                         ELSE Min({j \in i .. Len(t) : PatternAt(j, t) > 0} \cup {Len(t) + 1})
             IN (IF t[i] \in Separators THEN <<>> ELSE <<SubSeq(t, i, next - 1)>>) \o from[next]
  IN from[1]

-----------------------------------------------------------------------------
(* Cow: a part of a source text from an offset on, or a string of its own. *)

Borrowed(from, text) == [owned |-> FALSE, from |-> from, text |-> text]
Owned(text) == [owned |-> TRUE, from |-> 0, text |-> text]

\* The offsets at or behind place at which source has part.
Finds(part, source, place) ==
  {at \in place .. Len(source) : StandsAt(part, at + 1, source)}

\* reborrow_semantic_substrings: what is found is borrowed, and the search
\* for the next part starts behind it.
Reborrowed(parts, source) ==
  LET Found(k, place) == Finds(parts[k], source, place)
      place[k \in 0 .. Len(parts)] ==
        IF k = 0 THEN 0
        ELSE IF Found(k, place[k - 1]) = {} THEN place[k - 1]
        ELSE Min(Found(k, place[k - 1])) + Len(parts[k])
  IN [k \in DOMAIN parts |->
        IF Found(k, place[k - 1]) = {} THEN Owned(parts[k])
        ELSE Borrowed(Min(Found(k, place[k - 1])), parts[k])]

TrimInPlace(cow) ==
  LET ink == {i \in DOMAIN cow.text : cow.text[i] \notin White}
      trimmed == IF ink = {} THEN <<>> ELSE SubSeq(cow.text, Min(ink), Max(ink))
  IN IF cow.owned \/ ink = {} THEN [cow EXCEPT !.text = trimmed]
     ELSE Borrowed(cow.from + Min(ink) - 1, trimmed)

\* A set of places from the first to the last.
Ascending(places) ==
  [n \in 1 .. Cardinality(places) |->
     CHOOSE k \in places : Cardinality({j \in places : j < k}) = n - 1]

Trimmed(cows) ==
  LET trimmed == [k \in DOMAIN cows |-> TrimInPlace(cows[k])]
      kept == Ascending({k \in DOMAIN cows : trimmed[k].text # <<>>})
  IN [n \in DOMAIN kept |-> trimmed[kept[n]]]
=============================================================================
