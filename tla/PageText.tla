------------------------------- MODULE PageText -------------------------------
(***************************************************************************)
(* How the analysis takes the first revision of a page apart: paragraphs,  *)
(* sentences and words, all of them new, for there is nothing to find them *)
(* in (algorithm/mod.rs).  Each is kept as an ArcSubstring (types.rs), a   *)
(* range of a shared string: of the revision's text as long as it occurs   *)
(* there verbatim, of a string of its own once white space was cleaned,    *)
(* and of whichever sentence had the word first.                           *)
(*                                                                         *)
(* The text is taken as it is after to_lowercase.  Lists of pointers are   *)
(* kept by what they point to; pointers and strings count from 1.          *)
(***************************************************************************)
EXTENDS TextSplit

CONSTANT Texts   \* texts of the revision

ASSUME SymbolsAssumption == Texts \subseteq Seq(Symbol)

VARIABLES
  pc,
  scratch_buffers,
  strings,      \* the allocated strings; an Arc is an index
  immutables,   \* the entries of a page, by kind
  pointers      \* lists of pointers to the entries of a kind

page == <<strings, immutables, pointers>>

Kind == {"revision", "paragraph", "sentence", "word"}
Dummy == 1
Current == 2

ArcSubstring(base, from, to) == [base |-> base, from |-> from, to |-> to]
AsStr(arc) == SubSeq(strings[arc.base], arc.from + 1, arc.to)

NewSource(base, text) == ArcSubstring(base, 0, Len(text))

-----------------------------------------------------------------------------
(* reattach_substring, for the parts of one parent.                        *)

OwnedPlaces(cows) == {k \in DOMAIN cows : cows[k].owned}
OwnedUpTo(cows, k) == Cardinality({j \in OwnedPlaces(cows) : j <= k})
NewStrings(cows) ==
  LET owned == Ascending(OwnedPlaces(cows)) IN [n \in DOMAIN owned |-> cows[owned[n]].text]

\* Mutant: the offset in the parent is taken for one in the shared string.
ReattachedToParent(parent, cows) ==
  [k \in DOMAIN cows |->
     IF cows[k].owned
     THEN NewSource(Len(strings) + OwnedUpTo(cows, k), cows[k].text)
     ELSE ArcSubstring(parent.base, cows[k].from, cows[k].from + Len(cows[k].text))]

Reattached(parent, cows) ==
  [k \in DOMAIN cows |->
     IF cows[k].owned
     THEN NewSource(Len(strings) + OwnedUpTo(cows, k), cows[k].text)
     ELSE LET start == parent.from + cows[k].from
          IN ArcSubstring(parent.base, start, start + Len(cows[k].text))]

\* Pointers to n entries allocated after the old ones.
Fresh(old, n) == [k \in 1 .. n |-> Len(old) + k]

-----------------------------------------------------------------------------
(* The stages.                                                             *)

RevisionText == AsStr(immutables.revision[Current])
ParagraphSplit == ParagraphsOptimized(RevisionText, scratch_buffers)
ParagraphCows == Trimmed(Reborrowed(ParagraphSplit.parts, RevisionText))

SplitRevision ==
  /\ pc = "revision"
  /\ LET revision == immutables.revision[Current] IN
       /\ immutables' = [immutables EXCEPT !.paragraph = Reattached(revision, ParagraphCows)]
       /\ pointers' = [pointers EXCEPT
            !.paragraph = <<<<>>, Fresh(immutables.paragraph, Len(ParagraphCows))>>]
  /\ strings' = strings \o NewStrings(ParagraphCows)
  /\ scratch_buffers' = ParagraphSplit.buffers
  /\ pc' = "paragraphs"

\* split_into_parasents of a sentence: its tokens with single spaces between.
JoinedTokens(t) ==
  LET tokens == TokensCorasick(t)
  IN FlattenSeq([k \in DOMAIN tokens |-> IF k = 1 THEN tokens[k] ELSE <<"sp">> \o tokens[k]])

\* Mutant: white space within a sentence is left as it is.
Uncleaned(cow) == cow

Cleaned(cow) ==
  IF JoinedTokens(cow.text) = cow.text THEN cow ELSE Owned(JoinedTokens(cow.text))

SplitParagraphs == Len(pointers.sentence)
ParagraphLeft == pc = "paragraphs" /\ SplitParagraphs < Len(immutables.paragraph)
ParagraphNow == immutables.paragraph[SplitParagraphs + 1]
SentenceSplit == SentencesOptimized(AsStr(ParagraphNow), scratch_buffers)
SentenceParts == Trimmed(Reborrowed(SentenceSplit.parts, AsStr(ParagraphNow)))

SplitParagraph ==
  /\ ParagraphLeft
  /\ LET cows == [k \in DOMAIN SentenceParts |-> Cleaned(SentenceParts[k])] IN
       /\ immutables' = [immutables EXCEPT !.sentence = @ \o Reattached(ParagraphNow, cows)]
       /\ pointers' = [pointers EXCEPT
            !.sentence = Append(@, Fresh(immutables.sentence, Len(cows)))]
       /\ strings' = strings \o NewStrings(cows)
  /\ scratch_buffers' = SentenceSplit.buffers
  /\ UNCHANGED pc

\* The slices of a sentence between its spaces.
WordsOf(sentence) ==
  LET parts == Cut(AsStr(sentence), <<"sp">>)
      start[k \in DOMAIN parts] ==
        IF k = 1 THEN sentence.from ELSE start[k - 1] + Len(parts[k - 1]) + 1
  IN [k \in DOMAIN parts |->
        ArcSubstring(sentence.base, start[k], start[k] + Len(parts[k]))]

\* The interner keeps the first of equal words.
Interned(found) ==
  [k \in DOMAIN found |->
     found[Min({j \in DOMAIN found : AsStr(found[j]) = AsStr(found[k])})]]

\* analyse_words_in_sentences, with nothing to compare with: every word is
\* allocated, stored in its sentence and listed in the page's words.
AddWords ==
  /\ pc = "paragraphs" /\ ~ParagraphLeft
  /\ LET found == [s \in DOMAIN immutables.sentence |-> WordsOf(immutables.sentence[s])]
         before(s) == FlattenSeq(SubSeq(found, 1, s - 1))
         all == FlattenSeq(found)
     IN /\ immutables' = [immutables EXCEPT !.word = Interned(all)]
        /\ pointers' = [pointers EXCEPT
             !.word = Append([s \in DOMAIN found |-> Fresh(before(s), Len(found[s]))],
                             Fresh(<<>>, Len(all))),
             !.revision = @ \o [w \in DOMAIN all |-> <<Current, Current>>]]
  /\ pc' = "analysed"
  /\ UNCHANGED <<scratch_buffers, strings>>

\* The page has the dummy revision (PageAnalysis::new) and the current one,
\* pointed to by ordered_revisions and current_revision.
InitText ==
  /\ pc = "revision"
  /\ scratch_buffers = [text |-> <<>>, scratch |-> <<>>]
  /\ \E text \in Texts :
       /\ strings = <<<<>>, text>>
       /\ immutables = [revision |-> <<NewSource(Dummy, <<>>), NewSource(Current, text)>>,
                        paragraph |-> <<>>, sentence |-> <<>>, word |-> <<>>]
  /\ pointers = [revision |-> <<<<Current, Current>>>>,
                 paragraph |-> <<<<>>, <<>>>>, sentence |-> <<>>, word |-> <<>>]

NextText == SplitRevision \/ SplitParagraph \/ AddWords

-----------------------------------------------------------------------------
Strings(kind) == [k \in DOMAIN immutables[kind] |-> AsStr(immutables[kind][k])]

\* The words in reading order.
PageWords == FlattenSeq([k \in DOMAIN immutables.word |-> AsStr(immutables.word[k])])

Without(t, symbols) ==
  FlattenSeq([i \in DOMAIN t |-> IF t[i] \in symbols THEN <<>> ELSE <<t[i]>>])

\* The optimised splitters, with the scratch buffers as the calls before left
\* them, find the parts and tokens the plain implementations find.
SplitsAgree ==
  /\ pc = "revision" => ParagraphSplit.parts = ParagraphsNaive(RevisionText)
  /\ ParagraphLeft =>
       /\ SentenceSplit.parts = SentencesNaive(AsStr(ParagraphNow))
       /\ \A k \in DOMAIN SentenceParts :
            TokensCorasick(SentenceParts[k].text) = TokensNaive(SentenceParts[k].text)

\* Through trimming, cleaning, shared ranges and interning, the words of a
\* page spell its text up to white space; only "@" can be lost, and only
\* from a text that has the four that serve as the separator of sentences.
TextPreserved ==
  pc = "analysed" =>
    /\ Without(PageWords, {"@"}) = Without(RevisionText, White \cup {"@"})
    /\ ~Occurs(Mark, RevisionText) => PageWords = Without(RevisionText, White)

\* A sentence's words, found by cutting at spaces, are the tokens of the
\* sentence: cleaning leaves no token with a space and no empty one.  With
\* that, a page has the form the matching of revisions starts from.
WordsAreTokens ==
  pc = "analysed" =>
    \A s \in DOMAIN immutables.sentence :
      LET words == [k \in DOMAIN pointers.word[s] |->
                      AsStr(immutables.word[pointers.word[s][k]])]
      IN words # <<>> /\ words = TokensNaive(AsStr(immutables.sentence[s]))
=============================================================================
