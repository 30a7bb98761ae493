------------------------------ MODULE Authorship ------------------------------
(***************************************************************************)
(* PageAnalysis::analyse_page (algorithm/mod.rs): the revisions of a page  *)
(* are read oldest first; each is rejected as spam or matched, paragraph   *)
(* by paragraph, sentence by sentence and word by word, against everything *)
(* earlier revisions contained.  What is found again is reused (pointers   *)
(* into shared arrays), what is not becomes a new entry.  While a revision *)
(* is being matched, reused entries carry a matched_in_current flag, and   *)
(* the flags must be gone when the next revision starts.                   *)
(*                                                                         *)
(* A text is a sequence of paragraphs, a paragraph a sequence of sentences *)
(* and a sentence a non-empty sequence of tokens; equal hashes are equal   *)
(* values.  Pointers are indices into the arrays; 0 is Option::None.       *)
(***************************************************************************)
EXTENDS Naturals, Sequences, FiniteSets, Functions

CONSTANTS Token,
          Texts,               \* texts a revision may have
          Length,              \* length_lowercase of each text, in code points
          Deleted,             \* Text::Deleted
          XmlRevisions,        \* the revisions a page may be made of
          MaxRevisions,        \* bound on the revisions of a page
          TOKEN_DENSITY_LIMIT,
          REMOVE_LIST          \* tokens the density does not count

Sentence == Seq(Token) \ {<<>>}

ASSUME TextsAssumption ==
  /\ Texts \subseteq Seq(Seq(Sentence))
  /\ Length \in [Texts -> Nat]
  /\ Deleted \notin Texts
ASSUME InputAssumption ==
  /\ XmlRevisions \subseteq
       [text : Texts \cup {Deleted}, sha1 : BOOLEAN, exempt : BOOLEAN]
  /\ MaxRevisions \in Nat
ASSUME SpamAssumption == TOKEN_DENSITY_LIMIT \in Nat /\ REMOVE_LIST \subseteq Token

VARIABLES
  pc,                \* the stage of the analysis of the current revision
  seen, rev_hash,    \* revisions read so far; the hash of the one being read
  \* PageAnalysis: the arrays, then the results
  revisions, paragraphs, sentences, words,
  spam_ids, ordered_revisions, current_revision,
  \* PageAnalysisInternals
  paragraphs_ht, sentences_ht, spam_hashes, revision_prev,
  \* matched_in_current: the entries whose flag is set
  matchedP, matchedS, matchedW,
  \* locals of determine_authorship and analyse_words_in_sentences
  unmatched_paragraphs_curr, unmatched_sentences_curr, unmatched_sentences_prev,
  matched_paragraphs_prev, matched_sentences_prev, matched_words_prev, diff

input == <<seen, rev_hash>>
arrays == <<revisions, paragraphs, sentences, words>>
results == <<spam_ids, ordered_revisions, current_revision>>
internals == <<paragraphs_ht, sentences_ht, spam_hashes, revision_prev>>
flags == <<matchedP, matchedS, matchedW>>
locals == <<unmatched_paragraphs_curr, unmatched_sentences_curr,
            unmatched_sentences_prev, matched_paragraphs_prev,
            matched_sentences_prev, matched_words_prev, diff>>
vars == <<pc, input, arrays, results, internals, flags, locals>>

-----------------------------------------------------------------------------
(* Lists are searched front to back: an item carries its place, a tuple of *)
(* numbers compared lexicographically, in the field at.                    *)

Precedes(a, b) ==
  \E n \in DOMAIN a : a[n] < b[n] /\ \A m \in 1 .. n - 1 : a[m] = b[m]

\* The first item of S: a singleton, or {} when S is empty.
Earliest(S) == {x \in S : \A y \in S : x = y \/ Precedes(x.at, y.at)}

LastIs(s, x) == Len(s) > 0 /\ s[Len(s)] = x

None == 0
Dummy == [id |-> 0, length |-> 0, text |-> <<>>,
          paragraphs_ordered |-> <<>>, original_adds |-> 0]

at_least_one == ordered_revisions # <<>>

\* iterate_words_in_sentences and iterate_words_in_paragraphs, as sets.
SentenceWords(s) == Range(sentences[s].words_ordered)
ParagraphSentences(p) == Range(paragraphs[p].sentences_ordered)
ParagraphWords(p) == UNION {SentenceWords(s) : s \in ParagraphSentences(p)}
WordsOfSentences == [s \in DOMAIN sentences |-> SentenceWords(s)]
WordsOfParagraphs == [p \in DOMAIN paragraphs |-> ParagraphWords(p)]

PrevParagraphs ==
  IF revision_prev = None THEN <<>> ELSE revisions[revision_prev].paragraphs_ordered

\* The places in the previous revision whose paragraph was not found again.
UnmatchedParagraphsPrev ==
  {i \in DOMAIN PrevParagraphs : PrevParagraphs[i] \notin matchedP}

-----------------------------------------------------------------------------
(* find_matching_parasent: candidates C are tried in order.  The first one *)
(* none of whose words is matched is taken; flagged ones are skipped, and  *)
(* those passed over because all their words are matched become flagged.   *)

\* Mutant: the words of a candidate are not looked at.
UsableThoughMatched(C, flagged, words_of) == {c \in C : c.id \notin flagged}

Usable(C, flagged, words_of) ==
  {c \in C : c.id \notin flagged /\ words_of[c.id] \cap matchedW = {}}

FindMatching(C, flagged, words_of) == Earliest(Usable(C, flagged, words_of))

Exhausted(C, flagged, words_of) ==
  {c.id : c \in {d \in C :
     /\ d.id \notin flagged
     /\ words_of[d.id] \subseteq matchedW
     /\ \A u \in Usable(C, flagged, words_of) : Precedes(d.at, u.at)}}

\* Mutant: the previous revision is searched from its end.
CandidatesLastFirst(value) ==
  {c \in {[at |-> <<0, 0 - i, 0>>, id |-> PrevParagraphs[i]] : i \in DOMAIN PrevParagraphs}
         \cup {[at |-> <<1, k, 0>>, id |-> paragraphs_ht[k]] : k \in DOMAIN paragraphs_ht} :
     paragraphs[c.id].value = value}

\* find_in_parents, then find_in_any_previous_revision.
ParagraphCandidates(value) ==
  {c \in {[at |-> <<0, i, 0>>, id |-> PrevParagraphs[i]] : i \in DOMAIN PrevParagraphs}
         \cup {[at |-> <<1, k, 0>>, id |-> paragraphs_ht[k]] : k \in DOMAIN paragraphs_ht} :
     paragraphs[c.id].value = value}

SentencesPrev ==
  UNION {{[at |-> <<0, i, j>>, id |-> paragraphs[PrevParagraphs[i]].sentences_ordered[j]] :
            j \in DOMAIN paragraphs[PrevParagraphs[i]].sentences_ordered} :
         i \in UnmatchedParagraphsPrev}

SentenceCandidates(value) ==
  {c \in SentencesPrev
         \cup {[at |-> <<1, k, 0>>, id |-> sentences_ht[k]] : k \in DOMAIN sentences_ht} :
     sentences[c.id].value = value}

\* The entries of a list that still await their parts are worked off in order.
PendingParagraphs ==
  {p \in Range(unmatched_paragraphs_curr) :
     Len(paragraphs[p].sentences_ordered) < Len(paragraphs[p].value)}
PendingSentences ==
  {s \in Range(unmatched_sentences_curr) :
     Len(sentences[s].words_ordered) < Len(sentences[s].value)}

\* New entries are created in order, so the first pending one is the oldest.
First(ids) == {x \in ids : \A y \in ids : x <= y}

-----------------------------------------------------------------------------
(* The words stage.                                                        *)

\* Unmatched words of the previous revision's unmatched sentences.
UnmatchedWordsPrev ==
  UNION {{[at |-> <<c.at[2], c.at[3], k>>, id |-> sentences[c.id].words_ordered[k]] :
            k \in {m \in DOMAIN sentences[c.id].words_ordered :
                     sentences[c.id].words_ordered[m] \notin matchedW}} :
         c \in {d \in SentencesPrev : d.id \in unmatched_sentences_prev}}

TextPrev == {[at |-> w.at, tok |-> words[w.id].value] : w \in UnmatchedWordsPrev}

TextCurr ==
  UNION {{[at |-> <<n, k, 0>>, tok |-> sentences[unmatched_sentences_curr[n]].value[k]] :
            k \in DOMAIN sentences[unmatched_sentences_curr[n]].value} :
         n \in DOMAIN unmatched_sentences_curr}

\* compute_avg_word_freq(text_curr) > TOKEN_DENSITY_LIMIT
TooDense ==
  LET counted == {t \in TextCurr : t.tok \notin REMOVE_LIST}
  IN Cardinality(counted) > TOKEN_DENSITY_LIMIT * Cardinality({t.tok : t \in counted})

(***************************************************************************)
(* The edit scripts difflib::compare may return: an order-preserving       *)
(* pairing of equal tokens, each gap between two pairs written as its      *)
(* deletions, then its insertions.  compare picks one of them by its       *)
(* longest-block heuristic; the analysis is checked for all.               *)
(***************************************************************************)
Pairings(old, new) ==
  {M \in SUBSET {p \in old \X new : p[1].tok = p[2].tok} :
     \A p, q \in M : \/ p = q
                     \/ Precedes(p[1].at, q[1].at) /\ Precedes(p[2].at, q[2].at)
                     \/ Precedes(q[1].at, p[1].at) /\ Precedes(q[2].at, p[2].at)}

Script(old, new, M) ==
  LET Gap(side, t) == Cardinality({p \in M : Precedes(p[side].at, t.at)})
      Op(tag, side, rank, t) ==
        [tag |-> tag, tok |-> t.tok, at |-> <<Gap(side, t), rank>> \o t.at]
  IN {Op("Delete", 1, 0, t) : t \in old \ {p[1] : p \in M}}
     \cup {Op("Insert", 2, 1, t) : t \in new \ {p[2] : p \in M}}
     \cup {Op("Equal", 2, 2, p[2]) : p \in M}

EditScripts(old, new) == {Script(old, new, M) : M \in Pairings(old, new)}

\* Mutant: w_interned == word_interned is not tested.
FreeOfAnyValue(tok) == UnmatchedWordsPrev

\* Unmatched previous words with value tok; the first of them is used up first.
Free(tok) == {w \in UnmatchedWordsPrev : words[w.id].value = tok}

\* The change the scan of the diff acts on next for tok: a deletion or an
\* equality without a free word is passed over and stays in the diff.
NextChange(tok) ==
  Earliest({c \in diff : c.tok = tok /\ (c.tag = "Insert" \/ Free(tok) # {})})

-----------------------------------------------------------------------------
Init ==
  /\ pc = "next" /\ seen = 0 /\ rev_hash = <<>>
  /\ revisions = <<Dummy>> /\ paragraphs = <<>> /\ sentences = <<>> /\ words = <<>>
  /\ spam_ids = <<>> /\ ordered_revisions = <<>> /\ current_revision = 1
  /\ paragraphs_ht = <<>> /\ sentences_ht = <<>> /\ spam_hashes = {}
  /\ revision_prev = None
  /\ matchedP = {} /\ matchedS = {} /\ matchedW = {}
  /\ unmatched_paragraphs_curr = <<>> /\ unmatched_sentences_curr = <<>>
  /\ unmatched_sentences_prev = {}
  /\ matched_paragraphs_prev = {} /\ matched_sentences_prev = {}
  /\ matched_words_prev = {} /\ diff = {}

-----------------------------------------------------------------------------
(* analyse_page_with_options                                               *)

PREVIOUS_LENGTH == 1000
CURR_LENGTH == 1000

\* change_percentage <= CHANGE_PERCENTAGE (-0.40), without division.
ChangedTooMuch(prev, curr) == 5 * prev >= 5 * curr + 2 * prev

SpamByDeletion(xml) ==
  LET prev == revisions[current_revision].length
      curr == Length[xml.text]
  IN /\ ~xml.exempt
     /\ prev > PREVIOUS_LENGTH
     /\ curr < CURR_LENGTH
     /\ ChangedTooMuch(prev, curr)

\* A SHA1 hash of the dump and a BLAKE3 hash of the text never compare equal.
HashOf(xml) == <<xml.text, xml.sha1>>

RejectedByContent(xml) == HashOf(xml) \in spam_hashes \/ SpamByDeletion(xml)

ReadRevision == pc = "next" /\ seen < MaxRevisions /\ seen' = seen + 1

SkipDeleted(xml) ==
  /\ ReadRevision
  /\ xml.text = Deleted
  /\ UNCHANGED <<pc, rev_hash, arrays, results, internals, flags, locals>>

RejectByContent(xml) ==
  /\ ReadRevision
  /\ xml.text # Deleted
  /\ RejectedByContent(xml)
  /\ rev_hash' = HashOf(xml)
  /\ spam_ids' = Append(spam_ids, seen')
  /\ spam_hashes' = spam_hashes \cup {HashOf(xml)}
  /\ UNCHANGED <<pc, arrays, ordered_revisions, current_revision, paragraphs_ht,
                 sentences_ht, revision_prev, flags, locals>>

NewRevision(xml, id) ==
  [Dummy EXCEPT !.id = id, !.length = Length[xml.text], !.text = xml.text]

BeginRevision(xml) ==
  /\ ReadRevision
  /\ xml.text # Deleted
  /\ ~RejectedByContent(xml)
  /\ pc' = "paragraphs"
  /\ rev_hash' = HashOf(xml)
  /\ revisions' = Append(revisions, NewRevision(xml, seen'))
  /\ current_revision' = Len(revisions')
  /\ revision_prev' = IF at_least_one THEN current_revision ELSE revision_prev
  /\ unmatched_paragraphs_curr' = <<>> /\ unmatched_sentences_curr' = <<>>
  /\ unmatched_sentences_prev' = {}
  /\ matched_paragraphs_prev' = {} /\ matched_sentences_prev' = {}
  /\ matched_words_prev' = {} /\ diff' = {}
  /\ UNCHANGED <<paragraphs, sentences, words, spam_ids, ordered_revisions,
                 paragraphs_ht, sentences_ht, spam_hashes, flags>>

-----------------------------------------------------------------------------
(* analyse_parasents_in_revgraph on the paragraphs of the revision         *)

ParagraphsFound == revisions[current_revision].paragraphs_ordered
PendingValue == revisions[current_revision].text[Len(ParagraphsFound) + 1]

MarkParagraphs(ids) ==
  /\ matchedP' = matchedP \cup ids
  /\ matched_paragraphs_prev' = matched_paragraphs_prev \cup ids

StoreParagraph(p) ==
  revisions' = [revisions EXCEPT ![current_revision].paragraphs_ordered = Append(@, p)]

ReuseParagraph ==
  /\ pc = "paragraphs"
  /\ Len(ParagraphsFound) < Len(revisions[current_revision].text)
  /\ LET C == ParagraphCandidates(PendingValue)
     IN \E c \in FindMatching(C, matchedP, WordsOfParagraphs) :
          /\ MarkParagraphs({c.id} \cup Exhausted(C, matchedP, WordsOfParagraphs))
          /\ matchedS' = matchedS \cup ParagraphSentences(c.id)
          /\ matchedW' = matchedW \cup ParagraphWords(c.id)
          /\ StoreParagraph(c.id)
  /\ UNCHANGED <<pc, input, paragraphs, sentences, words, results, internals,
                 unmatched_paragraphs_curr, unmatched_sentences_curr,
                 unmatched_sentences_prev, matched_sentences_prev,
                 matched_words_prev, diff>>

NewParagraph ==
  /\ pc = "paragraphs"
  /\ Len(ParagraphsFound) < Len(revisions[current_revision].text)
  /\ LET C == ParagraphCandidates(PendingValue)
     IN /\ FindMatching(C, matchedP, WordsOfParagraphs) = {}
        /\ MarkParagraphs(Exhausted(C, matchedP, WordsOfParagraphs))
  /\ paragraphs' = Append(paragraphs, [value |-> PendingValue, sentences_ordered |-> <<>>])
  /\ StoreParagraph(Len(paragraphs'))
  /\ unmatched_paragraphs_curr' = Append(unmatched_paragraphs_curr, Len(paragraphs'))
  /\ UNCHANGED <<pc, input, sentences, words, results, internals, matchedS, matchedW,
                 unmatched_sentences_curr, unmatched_sentences_prev,
                 matched_sentences_prev, matched_words_prev, diff>>

EndParagraphs ==
  /\ pc = "paragraphs"
  /\ Len(ParagraphsFound) = Len(revisions[current_revision].text)
  /\ pc' = IF unmatched_paragraphs_curr = <<>> THEN "commit" ELSE "sentences"
  /\ UNCHANGED <<input, arrays, results, internals, flags, locals>>

-----------------------------------------------------------------------------
(* analyse_parasents_in_revgraph on the sentences of the new paragraphs    *)

PendingSentenceValue(p) == paragraphs[p].value[Len(paragraphs[p].sentences_ordered) + 1]

MarkSentences(ids) ==
  /\ matchedS' = matchedS \cup ids
  /\ matched_sentences_prev' = matched_sentences_prev \cup ids

StoreSentence(p, s) ==
  paragraphs' = [paragraphs EXCEPT ![p].sentences_ordered = Append(@, s)]

ReuseSentence ==
  /\ pc = "sentences"
  /\ \E p \in First(PendingParagraphs) :
       LET C == SentenceCandidates(PendingSentenceValue(p))
       IN \E c \in FindMatching(C, matchedS, WordsOfSentences) :
            /\ MarkSentences({c.id} \cup Exhausted(C, matchedS, WordsOfSentences))
            /\ matchedW' = matchedW \cup SentenceWords(c.id)
            /\ StoreSentence(p, c.id)
  /\ UNCHANGED <<pc, input, revisions, sentences, words, results, internals, matchedP,
                 unmatched_paragraphs_curr, unmatched_sentences_curr,
                 unmatched_sentences_prev, matched_paragraphs_prev,
                 matched_words_prev, diff>>

NewSentence ==
  /\ pc = "sentences"
  /\ \E p \in First(PendingParagraphs) :
       LET C == SentenceCandidates(PendingSentenceValue(p))
       IN /\ FindMatching(C, matchedS, WordsOfSentences) = {}
          /\ MarkSentences(Exhausted(C, matchedS, WordsOfSentences))
          /\ sentences' = Append(sentences, [value |-> PendingSentenceValue(p),
                                             words_ordered |-> <<>>])
          /\ StoreSentence(p, Len(sentences'))
  /\ unmatched_sentences_curr' = Append(unmatched_sentences_curr, Len(sentences'))
  /\ UNCHANGED <<pc, input, revisions, words, results, internals, matchedP, matchedW,
                 unmatched_paragraphs_curr, unmatched_sentences_prev,
                 matched_paragraphs_prev, matched_words_prev, diff>>

\* The previous sentences left over are flagged, so that the reset finds them.
EndSentences ==
  /\ pc = "sentences"
  /\ PendingParagraphs = {}
  /\ unmatched_sentences_prev' = {c.id : c \in SentencesPrev} \ matchedS
  /\ MarkSentences(unmatched_sentences_prev')
  /\ pc' = IF unmatched_sentences_curr = <<>> THEN "commit" ELSE "words"
  /\ UNCHANGED <<input, arrays, results, internals, matchedP, matchedW,
                 unmatched_paragraphs_curr, unmatched_sentences_curr,
                 matched_paragraphs_prev, matched_words_prev, diff>>

-----------------------------------------------------------------------------
(* analyse_words_in_sentences                                              *)

\* Mutant: a dense revision is matched again instead of being rejected.
MatchDenseAgain ==
  /\ pc = "words"
  /\ TooDense
  /\ pc' = "paragraphs"
  /\ UNCHANGED <<input, arrays, results, internals, flags, locals>>

RejectDense ==
  /\ pc = "words"
  /\ TooDense
  /\ pc' = "spam"
  /\ UNCHANGED <<input, arrays, results, internals, flags, locals>>

\* Without unmatched previous words the only script inserts every token.
StartDiff ==
  /\ pc = "words"
  /\ ~TooDense
  /\ diff' \in EditScripts(TextPrev, TextCurr)
  /\ pc' = "match"
  /\ UNCHANGED <<input, arrays, results, internals, flags, unmatched_paragraphs_curr,
                 unmatched_sentences_curr, unmatched_sentences_prev,
                 matched_paragraphs_prev, matched_sentences_prev, matched_words_prev>>

PendingToken(s) == sentences[s].value[Len(sentences[s].words_ordered) + 1]

MarkWord(w) ==
  /\ matchedW' = matchedW \cup {w}
  /\ matched_words_prev' = matched_words_prev \cup {w}

\* Mutant: the length after the push is taken for the index.
StoreWordOffByOne(s, w) ==
  sentences' = [sentences EXCEPT ![s].words_ordered = Append(@, w + 1)]

StoreWord(s, w) ==
  sentences' = [sentences EXCEPT ![s].words_ordered = Append(@, w)]

\* Mutant: *change = None is missing.
KeepChanges(changes) == UNCHANGED diff

ConsumeChanges(changes) == diff' = diff \ changes

KeepWord ==
  /\ pc = "match"
  /\ \E s \in First(PendingSentences) :
       \E c \in NextChange(PendingToken(s)), w \in Earliest(Free(PendingToken(s))) :
         /\ c.tag = "Equal"
         /\ MarkWord(w.id)
         /\ StoreWord(s, w.id)
         /\ ConsumeChanges({c})
  /\ UNCHANGED <<pc, input, revisions, paragraphs, words, results, internals, matchedP,
                 matchedS, unmatched_paragraphs_curr, unmatched_sentences_curr,
                 unmatched_sentences_prev, matched_paragraphs_prev,
                 matched_sentences_prev>>

\* The pending token stays pending: the scan goes on behind the deletion.
DropWord ==
  /\ pc = "match"
  /\ \E s \in First(PendingSentences) :
       \E c \in NextChange(PendingToken(s)), w \in Earliest(Free(PendingToken(s))) :
         /\ c.tag = "Delete"
         /\ MarkWord(w.id)
         /\ words' = [words EXCEPT ![w.id].outbound = Append(@, current_revision)]
         /\ ConsumeChanges({c})
  /\ UNCHANGED <<pc, input, revisions, paragraphs, sentences, results, internals,
                 matchedP, matchedS, unmatched_paragraphs_curr,
                 unmatched_sentences_curr, unmatched_sentences_prev,
                 matched_paragraphs_prev, matched_sentences_prev>>

\* Mutant: a new word is credited to the previous revision.
NewWordOfPrevious(tok) ==
  [value |-> tok, origin |-> IF at_least_one THEN revision_prev ELSE current_revision,
   latest |-> current_revision, inbound |-> <<>>, outbound |-> <<>>]

NewWord(tok) == [value |-> tok, origin |-> current_revision, latest |-> current_revision,
                 inbound |-> <<>>, outbound |-> <<>>]

\* allocate_new_word, for an insertion or a token the diff does not provide for.
AddWord ==
  /\ pc = "match"
  /\ \E s \in First(PendingSentences) :
       LET change == NextChange(PendingToken(s))
       IN /\ \A c \in change : c.tag = "Insert"
          /\ words' = Append(words, NewWord(PendingToken(s)))
          /\ StoreWord(s, Len(words'))
          /\ ConsumeChanges(change)
  /\ revisions' = [revisions EXCEPT ![current_revision].original_adds = @ + 1]
  /\ UNCHANGED <<pc, input, paragraphs, results, internals, flags,
                 unmatched_paragraphs_curr, unmatched_sentences_curr,
                 unmatched_sentences_prev, matched_paragraphs_prev,
                 matched_sentences_prev, matched_words_prev>>

EndWords ==
  /\ pc = "match"
  /\ PendingSentences = {}
  /\ pc' = "commit"
  /\ UNCHANGED <<input, arrays, results, internals, flags, locals>>

-----------------------------------------------------------------------------
(* The end of determine_authorship and of the loop body.                   *)

\* The previous words the sweep visits: those of the unmatched sentences or,
\* when there is none, those of the unmatched paragraphs.
Swept ==
  IF unmatched_sentences_prev # {}
  THEN UNION {SentenceWords(s) : s \in unmatched_sentences_prev}
  ELSE UNION {ParagraphWords(PrevParagraphs[i]) : i \in UnmatchedParagraphsPrev}

\* Words of reused paragraphs and sentences may return from older revisions.
Revived ==
  (UNION {ParagraphWords(p) : p \in matched_paragraphs_prev})
  \cup (UNION {SentenceWords(s) : s \in matched_sentences_prev})

MaybePushOutbound(w) ==
  IF w \in Swept \ matchedW
  THEN [words[w] EXCEPT !.outbound = Append(@, current_revision)]
  ELSE words[w]

\* Mutant: latest_revision != revision_prev is not tested.
MaybePushInboundAlways(w, word) ==
  IF w \in matchedW /\ w \in Revived \cup matched_words_prev
     /\ ~LastIs(word.outbound, current_revision)
  THEN [word EXCEPT !.latest = current_revision,
                    !.inbound = IF w \in Revived THEN Append(@, current_revision) ELSE @]
  ELSE word

\* A word the diff deleted is flagged too, but ends with the current revision.
MaybePushInbound(w, word) ==
  IF w \in matchedW /\ w \in Revived \cup matched_words_prev
     /\ ~LastIs(word.outbound, current_revision)
  THEN [word EXCEPT !.latest = current_revision,
                    !.inbound = IF w \in Revived /\ word.latest # revision_prev
                                THEN Append(@, current_revision) ELSE @]
  ELSE word

\* Mutant: the sentences below a reused paragraph keep their flags.
ResetMatchesShallow ==
  /\ matchedP' = matchedP \ matched_paragraphs_prev
  /\ matchedS' = matchedS \ matched_sentences_prev
  /\ matchedW' = matchedW \ (matched_words_prev \cup Revived)

ResetMatches ==
  /\ matchedP' = matchedP \ matched_paragraphs_prev
  /\ matchedS' = matchedS \ (matched_sentences_prev \cup
                    UNION {ParagraphSentences(p) : p \in matched_paragraphs_prev})
  /\ matchedW' = matchedW \ (matched_words_prev \cup Revived)

Commit ==
  /\ pc = "commit"
  /\ pc' = "next"
  /\ words' = [w \in DOMAIN words |-> MaybePushInbound(w, MaybePushOutbound(w))]
  /\ paragraphs_ht' = paragraphs_ht \o unmatched_paragraphs_curr
  /\ sentences_ht' = sentences_ht \o unmatched_sentences_curr
  /\ ResetMatches
  /\ ordered_revisions' = Append(ordered_revisions, current_revision)
  /\ UNCHANGED <<input, revisions, paragraphs, sentences, spam_ids, current_revision,
                 spam_hashes, revision_prev, locals>>

\* Mutant: the rejected revision stays the current one.
StayAtRejected == current_revision

\* if at_least_one { current_revision = revision_prev.take() }
RevertedRevision == IF at_least_one THEN revision_prev ELSE current_revision

\* Mutant: the new paragraphs enter the hash table before vandalism is tested.
DiscardIndexed ==
  /\ pc = "spam"
  /\ pc' = "next"
  /\ ResetMatches
  /\ current_revision' = RevertedRevision
  /\ revision_prev' = None
  /\ spam_ids' = Append(spam_ids, revisions[current_revision].id)
  /\ spam_hashes' = spam_hashes \cup {rev_hash}
  /\ paragraphs_ht' = paragraphs_ht \o unmatched_paragraphs_curr
  /\ UNCHANGED <<input, arrays, ordered_revisions, sentences_ht, locals>>

Discard ==
  /\ pc = "spam"
  /\ pc' = "next"
  /\ ResetMatches
  /\ current_revision' = RevertedRevision
  /\ revision_prev' = None
  /\ spam_ids' = Append(spam_ids, revisions[current_revision].id)
  /\ spam_hashes' = spam_hashes \cup {rev_hash}
  /\ UNCHANGED <<input, arrays, ordered_revisions, paragraphs_ht, sentences_ht, locals>>

EndOfPage ==
  /\ pc = "next"
  /\ pc' = "done"
  /\ UNCHANGED <<input, arrays, results, internals, flags, locals>>

\* analyse_page has returned.
Finished == pc = "done" /\ UNCHANGED vars

Next ==
  \/ \E xml \in XmlRevisions : SkipDeleted(xml) \/ RejectByContent(xml) \/ BeginRevision(xml)
  \/ ReuseParagraph \/ NewParagraph \/ EndParagraphs
  \/ ReuseSentence \/ NewSentence \/ EndSentences
  \/ RejectDense \/ StartDiff
  \/ KeepWord \/ DropWord \/ AddWord \/ EndWords
  \/ Commit \/ Discard
  \/ EndOfPage
  \/ Finished

Spec == Init /\ [][Next]_vars

\* One thread runs the loop and is never suspended for good.
FairSpec == Spec /\ WF_vars(Next)
-----------------------------------------------------------------------------
(* Properties                                                              *)

Stages == {"next", "paragraphs", "sentences", "words", "match", "commit", "spam", "done"}

\* Between two revisions.
Quiescent == pc \in {"next", "done"}

Paragraph == Seq(Sentence)

RevisionType(P) == [id : Nat, length : Nat, text : Seq(Paragraph),
                    paragraphs_ordered : Seq(P), original_adds : Nat]
ParagraphType(S) == [value : Paragraph, sentences_ordered : Seq(S)]
SentenceType(W) == [value : Sentence, words_ordered : Seq(W)]
WordType(R) == [value : Token, origin : R, latest : R, inbound : Seq(R), outbound : Seq(R)]
ChangeType == [tag : {"Delete", "Insert", "Equal"}, tok : Token]

(***************************************************************************)
(* Every entry is well formed and every pointer an index into its array:   *)
(* the code indexes the arrays without a test and would panic otherwise.   *)
(***************************************************************************)
TypeOK ==
  /\ pc \in Stages
  /\ seen \in 0 .. MaxRevisions
  /\ rev_hash \in Texts \X BOOLEAN \/ (rev_hash = <<>> /\ Quiescent)
  /\ revisions \in Seq(RevisionType(DOMAIN paragraphs))
  /\ paragraphs \in Seq(ParagraphType(DOMAIN sentences))
  /\ sentences \in Seq(SentenceType(DOMAIN words))
  /\ words \in Seq(WordType(DOMAIN revisions))
  /\ spam_ids \in Seq(Nat)
  /\ ordered_revisions \in Seq(DOMAIN revisions)
  /\ current_revision \in DOMAIN revisions
  /\ paragraphs_ht \in Seq(DOMAIN paragraphs)
  /\ sentences_ht \in Seq(DOMAIN sentences)
  /\ spam_hashes \subseteq Texts \X BOOLEAN
  /\ revision_prev \in {None} \cup DOMAIN revisions
  /\ matchedP \subseteq DOMAIN paragraphs
  /\ matchedS \subseteq DOMAIN sentences
  /\ matchedW \subseteq DOMAIN words
  /\ unmatched_paragraphs_curr \in Seq(DOMAIN paragraphs)
  /\ unmatched_sentences_curr \in Seq(DOMAIN sentences)
  /\ unmatched_sentences_prev \subseteq DOMAIN sentences
  /\ matched_paragraphs_prev \subseteq DOMAIN paragraphs
  /\ matched_sentences_prev \subseteq DOMAIN sentences
  /\ matched_words_prev \subseteq DOMAIN words
  /\ \A c \in diff : [tag |-> c.tag, tok |-> c.tok] \in ChangeType

Published == Range(ordered_revisions)

Shown(r) ==
  UNION {ParagraphWords(p) : p \in Range(revisions[r].paragraphs_ordered)}

\* The text the tokens of a revision spell, in its structure.
TextOf(r) ==
  LET P == revisions[r].paragraphs_ordered
      S(i) == paragraphs[P[i]].sentences_ordered
      W(i, j) == sentences[S(i)[j]].words_ordered
  IN [i \in DOMAIN P |-> [j \in DOMAIN S(i) |-> [k \in DOMAIN W(i, j) |->
        words[W(i, j)[k]].value]]]

\* The number of token places in a revision.
Places(r) ==
  LET P == revisions[r].paragraphs_ordered
      S(i) == paragraphs[P[i]].sentences_ordered
      W(i, j) == sentences[S(i)[j]].words_ordered
  IN UNION {UNION {{<<i, j, k>> : k \in DOMAIN W(i, j)} : j \in DOMAIN S(i)} :
            i \in DOMAIN P}

(***************************************************************************)
(* No match of one revision is left when the next one starts: the reset at *)
(* the end of determine_authorship reaches every flag the three stages     *)
(* set, also those of a revision that is then rejected as spam.            *)
(***************************************************************************)
FlagsClear == Quiescent => matchedP = {} /\ matchedS = {} /\ matchedW = {}

(***************************************************************************)
(* A revision never shows one token at two places, although paragraphs and *)
(* sentences of different ages that share tokens are all candidates.       *)
(***************************************************************************)
NoTokenTwice ==
  Quiescent => \A r \in Published : Cardinality(Places(r)) = Cardinality(Shown(r))

(***************************************************************************)
(* The tokens of a published revision spell its text, place by place, and  *)
(* later revisions that reuse its paragraphs do not change that.           *)
(***************************************************************************)
RoundTrip == Quiescent => \A r \in Published : TextOf(r) = revisions[r].text

(***************************************************************************)
(* original_adds counts the tokens a revision introduced, all of which it  *)
(* shows; a rejected revision introduced none (types.rs, RevisionAnalysis).*)
(***************************************************************************)
AddsCounted ==
  Quiescent => \A r \in DOMAIN revisions :
    LET born == {w \in DOMAIN words : words[w].origin = r}
    IN /\ revisions[r].original_adds = Cardinality(born)
       /\ born \subseteq IF r \in Published THEN Shown(r) ELSE {}

(***************************************************************************)
(* current_revision is the latest valid revision between two revisions,    *)
(* and the one a new revision is compared with is the latest valid one,    *)
(* however many were rejected in between (types.rs, current_revision).     *)
(***************************************************************************)
ComparedWithLatestValid ==
  at_least_one =>
    LastIs(ordered_revisions, IF Quiescent THEN current_revision ELSE revision_prev)

(***************************************************************************)
(* Spam leaves no trace: its id is in no published revision, and only      *)
(* entries a published revision contains can be found again later.         *)
(***************************************************************************)
SpamLeavesNoTrace ==
  Quiescent =>
    /\ {revisions[r].id : r \in Published} \cap Range(spam_ids) = {}
    /\ \A p \in Range(paragraphs_ht) :
         \E r \in Published : p \in Range(revisions[r].paragraphs_ordered)
    /\ \A s \in Range(sentences_ht) :
         \E r \in Published : \E p \in Range(revisions[r].paragraphs_ordered) :
           s \in ParagraphSentences(p)

(***************************************************************************)
(* The diff provides for every new token, so that the branch "word was not *)
(* found in the diff" is never taken, and an equality never lacks a word.  *)
(***************************************************************************)
DiffProvides ==
  /\ pc = "match" => \A s \in First(PendingSentences) : NextChange(PendingToken(s)) # {}
  /\ pc = "commit" => \A c \in diff : c.tag = "Delete"

(***************************************************************************)
(* An edit that leaves the text of the latest valid revision unchanged     *)
(* leaves every token at its place, although equal paragraphs compete for  *)
(* the entries of the previous revision and of all older ones.             *)
(***************************************************************************)
UnchangedTextKeepsTokens ==
  Quiescent => \A n \in 2 .. Len(ordered_revisions) :
    LET prev == revisions[ordered_revisions[n - 1]]
        curr == revisions[ordered_revisions[n]]
    IN curr.text = prev.text =>
         /\ curr.paragraphs_ordered = prev.paragraphs_ordered
         /\ curr.original_adds = 0

(***************************************************************************)
(* Every page is analysed to its end.                                      *)
(***************************************************************************)
Termination == <>(pc = "done")

-----------------------------------------------------------------------------
(* The analysis implements the token ledger: while a revision is being     *)
(* matched, its new tokens and its removals are not yet visible, and a     *)
(* rejected revision is no step at all.                                    *)

TokenPlaces(text) ==
  UNION {UNION {{<<i, j, k>> : k \in DOMAIN text[i][j]} : j \in DOMAIN text[i]} :
         i \in DOMAIN text}

PublishedWords == {w \in DOMAIN words : words[w].origin \in Published}

PublishedLife(word) ==
  [origin |-> word.origin, latest |-> word.latest, inbound |-> word.inbound,
   outbound |-> IF LastIs(word.outbound, current_revision) /\ current_revision \notin Published
                THEN SubSeq(word.outbound, 1, Len(word.outbound) - 1)
                ELSE word.outbound]

Ledger == INSTANCE TokenLedger WITH
  Revision <- 2 .. MaxRevisions + 1,
  MaxFresh <- Cardinality(UNION {TokenPlaces(text) : text \in Texts}),
  valid <- ordered_revisions,
  present <- [n \in DOMAIN ordered_revisions |-> Shown(ordered_revisions[n])],
  tokens <- [w \in 1 .. Cardinality(PublishedWords) |-> PublishedLife(words[w])]

(***************************************************************************)
(* inbound, outbound, origin and latest of every token follow the tokens   *)
(* the valid revisions show, and what is published never changes again.    *)
(***************************************************************************)
ImplementsLedger == Ledger!LedgerInit /\ [][Ledger!LedgerStep]_(Ledger!ledger)
=============================================================================
