--------------------------- MODULE AuthorshipProofs ---------------------------
(***************************************************************************)
(* Proofs about Authorship for every set of texts, every spam limit and    *)
(* every number of revisions: the arrays are indexed within their bounds,  *)
(* a revision is always compared with the latest valid one, no match       *)
(* outlives the revision it was made for, the tokens of a valid revision   *)
(* spell its text, no token is shown twice, a revision is credited with    *)
(* exactly the tokens it introduced, rejected revisions leave nothing      *)
(* behind, an edit that changes nothing keeps every token, and whichever   *)
(* edit script the diff returns provides for every new token.              *)
(***************************************************************************)
EXTENDS Authorship, SequenceTheorems, FiniteSetTheorems, WellFoundedInduction, TLAPS

-----------------------------------------------------------------------------
(* Sequences                                                               *)

\* What appending an element of the right type does to a sequence.
LEMMA AppendIn ==
  ASSUME NEW S, NEW s \in Seq(S), NEW e \in S
  PROVE  /\ Append(s, e) \in Seq(S)
         /\ Len(s) \in Nat
         /\ Len(Append(s, e)) = Len(s) + 1
         /\ DOMAIN s = 1 .. Len(s)
         /\ DOMAIN Append(s, e) = 1 .. Len(s) + 1
         /\ DOMAIN s \subseteq DOMAIN Append(s, e)
         /\ Len(s) + 1 \in DOMAIN Append(s, e)
         /\ Append(s, e)[Len(s) + 1] = e
         /\ \A i \in DOMAIN s : Append(s, e)[i] = s[i]
  BY AppendProperties

\* A sequence over a set is one over every larger set.
LEMMA WidenSeq ==
  ASSUME NEW S, NEW T, S \subseteq T
  PROVE  Seq(S) \subseteq Seq(T)
  BY SeqMonotonic

\* The elements of a sequence have its type, at their index and as a set.
LEMMA ElementIn ==
  ASSUME NEW S, NEW s \in Seq(S)
  PROVE  /\ \A i \in DOMAIN s : s[i] \in S
         /\ Range(s) \subseteq S
         /\ DOMAIN s = 1 .. Len(s)
         /\ Len(s) \in Nat
  BY RangeOfSeq, ElementOfSeq

\* The arrays stay well typed when the array they point into grows.
LEMMA WidenArrays ==
  ASSUME NEW D, NEW E, D \subseteq E
  PROVE  /\ Seq(RevisionType(D)) \subseteq Seq(RevisionType(E))
         /\ Seq(ParagraphType(D)) \subseteq Seq(ParagraphType(E))
         /\ Seq(SentenceType(D)) \subseteq Seq(SentenceType(E))
         /\ Seq(WordType(D)) \subseteq Seq(WordType(E))
<1>1. Seq(D) \subseteq Seq(E)
  BY WidenSeq
<1>2. RevisionType(D) \subseteq RevisionType(E)
  BY <1>1 DEF RevisionType
<1>3. ParagraphType(D) \subseteq ParagraphType(E)
  BY <1>1 DEF ParagraphType
<1>4. SentenceType(D) \subseteq SentenceType(E)
  BY <1>1 DEF SentenceType
<1>5. WordType(D) \subseteq WordType(E)
  BY <1>1 DEF WordType
<1> QED
  BY <1>2, <1>3, <1>4, <1>5, WidenSeq

-----------------------------------------------------------------------------
(* The array updates                                                       *)

\* Storing a paragraph in a revision.
LEMMA StoreParagraphIn ==
  ASSUME NEW P, NEW R \in Seq(RevisionType(P)), NEW i \in DOMAIN R, NEW p \in P
  PROVE  LET Q == [R EXCEPT ![i].paragraphs_ordered = Append(@, p)]
         IN Q \in Seq(RevisionType(P)) /\ DOMAIN Q = DOMAIN R
<1> DEFINE e == [R[i] EXCEPT !.paragraphs_ordered = Append(@, p)]
<1>1. R[i] \in RevisionType(P) /\ i \in 1 .. Len(R)
  BY ElementIn
<1>2. Append(R[i].paragraphs_ordered, p) \in Seq(P)
  BY <1>1, AppendIn DEF RevisionType
<1>3. e \in RevisionType(P)
  BY <1>1, <1>2 DEF RevisionType
<1>4. [R EXCEPT ![i] = e] \in Seq(RevisionType(P))
  BY <1>1, <1>3, ExceptSeq
<1> QED
  BY <1>4

\* Counting a token that a revision introduces.
LEMMA CountAddIn ==
  ASSUME NEW P, NEW R \in Seq(RevisionType(P)), NEW i \in DOMAIN R
  PROVE  LET Q == [R EXCEPT ![i].original_adds = @ + 1]
         IN Q \in Seq(RevisionType(P)) /\ DOMAIN Q = DOMAIN R
<1> DEFINE e == [R[i] EXCEPT !.original_adds = @ + 1]
<1>1. R[i] \in RevisionType(P) /\ i \in 1 .. Len(R)
  BY ElementIn
<1>2. R[i].original_adds + 1 \in Nat
  BY <1>1 DEF RevisionType
<1>3. e \in RevisionType(P)
  BY <1>1, <1>2, Zenon DEF RevisionType
<1>4. [R EXCEPT ![i] = e] \in Seq(RevisionType(P))
  BY <1>1, <1>3, ExceptSeq
<1> QED
  BY <1>4

\* Storing a sentence in a paragraph.
LEMMA StoreSentenceIn ==
  ASSUME NEW S, NEW A \in Seq(ParagraphType(S)), NEW i \in DOMAIN A, NEW s \in S
  PROVE  LET Q == [A EXCEPT ![i].sentences_ordered = Append(@, s)]
         IN Q \in Seq(ParagraphType(S)) /\ DOMAIN Q = DOMAIN A
<1> DEFINE e == [A[i] EXCEPT !.sentences_ordered = Append(@, s)]
<1>1. A[i] \in ParagraphType(S) /\ i \in 1 .. Len(A)
  BY ElementIn
<1>2. Append(A[i].sentences_ordered, s) \in Seq(S)
  BY <1>1, AppendIn DEF ParagraphType
<1>3. e \in ParagraphType(S)
  BY <1>1, <1>2 DEF ParagraphType
<1>4. [A EXCEPT ![i] = e] \in Seq(ParagraphType(S))
  BY <1>1, <1>3, ExceptSeq
<1> QED
  BY <1>4

\* Storing a word in a sentence.
LEMMA StoreWordIn ==
  ASSUME NEW W, NEW A \in Seq(SentenceType(W)), NEW i \in DOMAIN A, NEW w \in W
  PROVE  LET Q == [A EXCEPT ![i].words_ordered = Append(@, w)]
         IN Q \in Seq(SentenceType(W)) /\ DOMAIN Q = DOMAIN A
<1> DEFINE e == [A[i] EXCEPT !.words_ordered = Append(@, w)]
<1>1. A[i] \in SentenceType(W) /\ i \in 1 .. Len(A)
  BY ElementIn
<1>2. Append(A[i].words_ordered, w) \in Seq(W)
  BY <1>1, AppendIn DEF SentenceType
<1>3. e \in SentenceType(W)
  BY <1>1, <1>2 DEF SentenceType
<1>4. [A EXCEPT ![i] = e] \in Seq(SentenceType(W))
  BY <1>1, <1>3, ExceptSeq
<1> QED
  BY <1>4

\* Recording that a word was removed.
LEMMA PushOutboundIn ==
  ASSUME NEW R, NEW A \in Seq(WordType(R)), NEW i \in DOMAIN A, NEW r \in R
  PROVE  LET Q == [A EXCEPT ![i].outbound = Append(@, r)]
         IN Q \in Seq(WordType(R)) /\ DOMAIN Q = DOMAIN A
<1> DEFINE e == [A[i] EXCEPT !.outbound = Append(@, r)]
<1>1. A[i] \in WordType(R) /\ i \in 1 .. Len(A)
  BY ElementIn
<1>2. Append(A[i].outbound, r) \in Seq(R)
  BY <1>1, AppendIn DEF WordType
<1>3. e \in WordType(R)
  BY <1>1, <1>2 DEF WordType
<1>4. [A EXCEPT ![i] = e] \in Seq(WordType(R))
  BY <1>1, <1>3, ExceptSeq
<1> QED
  BY <1>4

-----------------------------------------------------------------------------
(* What the pointers of a well-typed state lead to                         *)

\* Paragraphs, sentences and words reached through the arrays.
LEMMA PartsIn ==
  ASSUME TypeOK
  PROVE  /\ PrevParagraphs \in Seq(DOMAIN paragraphs)
         /\ \A r \in DOMAIN revisions : revisions[r] \in RevisionType(DOMAIN paragraphs)
         /\ \A p \in DOMAIN paragraphs :
              /\ paragraphs[p] \in ParagraphType(DOMAIN sentences)
              /\ ParagraphSentences(p) \subseteq DOMAIN sentences
              /\ ParagraphWords(p) \subseteq DOMAIN words
         /\ \A s \in DOMAIN sentences :
              /\ sentences[s] \in SentenceType(DOMAIN words)
              /\ SentenceWords(s) \subseteq DOMAIN words
         /\ \A w \in DOMAIN words : words[w] \in WordType(DOMAIN revisions)
<1>1. \A r \in DOMAIN revisions : revisions[r] \in RevisionType(DOMAIN paragraphs)
  BY ElementIn DEF TypeOK
<1>2. \A p \in DOMAIN paragraphs : paragraphs[p] \in ParagraphType(DOMAIN sentences)
  BY ElementIn DEF TypeOK
<1>3. \A s \in DOMAIN sentences : sentences[s] \in SentenceType(DOMAIN words)
  BY ElementIn DEF TypeOK
<1>4. \A w \in DOMAIN words : words[w] \in WordType(DOMAIN revisions)
  BY ElementIn DEF TypeOK
<1>5. PrevParagraphs \in Seq(DOMAIN paragraphs)
  <2>1. CASE revision_prev = None
    BY <2>1 DEF PrevParagraphs
  <2>2. CASE revision_prev # None
    <3>1. revision_prev \in DOMAIN revisions
      BY <2>2 DEF TypeOK
    <3> QED
      BY <1>1, <2>2, <3>1 DEF PrevParagraphs, RevisionType
  <2> QED
    BY <2>1, <2>2
<1>6. \A s \in DOMAIN sentences : SentenceWords(s) \subseteq DOMAIN words
  BY <1>3, ElementIn DEF SentenceWords, SentenceType
<1>7. \A p \in DOMAIN paragraphs : ParagraphSentences(p) \subseteq DOMAIN sentences
  BY <1>2, ElementIn DEF ParagraphSentences, ParagraphType
<1>8. \A p \in DOMAIN paragraphs : ParagraphWords(p) \subseteq DOMAIN words
  BY <1>6, <1>7 DEF ParagraphWords
<1> QED
  BY <1>1, <1>2, <1>3, <1>4, <1>5, <1>6, <1>7, <1>8

\* The candidates for reuse exist.
LEMMA CandidatesIn ==
  ASSUME TypeOK
  PROVE  /\ \A v : \A c \in ParagraphCandidates(v) : c.id \in DOMAIN paragraphs
         /\ \A c \in SentencesPrev : c.id \in DOMAIN sentences
         /\ \A v : \A c \in SentenceCandidates(v) : c.id \in DOMAIN sentences
         /\ \A w \in UnmatchedWordsPrev : w.id \in DOMAIN words
<1>1. \A i \in DOMAIN PrevParagraphs : PrevParagraphs[i] \in DOMAIN paragraphs
  BY PartsIn, ElementIn
<1>2. \A k \in DOMAIN paragraphs_ht : paragraphs_ht[k] \in DOMAIN paragraphs
  BY ElementIn DEF TypeOK
<1>3. \A k \in DOMAIN sentences_ht : sentences_ht[k] \in DOMAIN sentences
  BY ElementIn DEF TypeOK
<1>4. \A p \in DOMAIN paragraphs : \A j \in DOMAIN paragraphs[p].sentences_ordered :
        paragraphs[p].sentences_ordered[j] \in DOMAIN sentences
  BY PartsIn, ElementIn DEF ParagraphType
<1>5. \A s \in DOMAIN sentences : \A k \in DOMAIN sentences[s].words_ordered :
        sentences[s].words_ordered[k] \in DOMAIN words
  BY PartsIn, ElementIn DEF SentenceType
<1>6. \A v : \A c \in ParagraphCandidates(v) : c.id \in DOMAIN paragraphs
  BY <1>1, <1>2 DEF ParagraphCandidates
<1>7. \A c \in SentencesPrev : c.id \in DOMAIN sentences
  BY <1>1, <1>4 DEF SentencesPrev, UnmatchedParagraphsPrev
<1>8. \A v : \A c \in SentenceCandidates(v) : c.id \in DOMAIN sentences
  BY <1>3, <1>7 DEF SentenceCandidates
<1>9. \A w \in UnmatchedWordsPrev : w.id \in DOMAIN words
  BY <1>5, <1>7 DEF UnmatchedWordsPrev
<1> QED
  BY <1>6, <1>7, <1>8, <1>9

-----------------------------------------------------------------------------
(* Every pointer stays within its array                                    *)

USE DEF vars, input, arrays, results, internals, flags, locals, None, Stages, Quiescent

\* The first state is well typed.
LEMMA InitType == Init => TypeOK
<1> SUFFICES ASSUME Init PROVE TypeOK
  OBVIOUS
<1>1. Dummy \in RevisionType({})
  BY EmptySeq DEF Dummy, RevisionType
<1>2. revisions \in Seq(RevisionType({}))
  BY <1>1 DEF Init
<1>3. DOMAIN revisions = {1} /\ DOMAIN paragraphs = {} /\ DOMAIN sentences = {}
      /\ DOMAIN words = {}
  BY DEF Init
<1> QED
  BY <1>2, <1>3, EmptySeq, InputAssumption DEF Init, TypeOK

\* Reading a revision.
LEMMA ReadType ==
  ASSUME TypeOK, NEW xml \in XmlRevisions,
         SkipDeleted(xml) \/ RejectByContent(xml) \/ BeginRevision(xml)
  PROVE  TypeOK'
<1>1. seen' \in 0 .. MaxRevisions /\ seen' \in Nat
  <2>1. seen < MaxRevisions /\ seen' = seen + 1
    BY DEF ReadRevision, SkipDeleted, RejectByContent, BeginRevision
  <2>2. seen \in 0 .. MaxRevisions /\ MaxRevisions \in Nat
    BY InputAssumption DEF TypeOK
  <2> QED
    BY <2>1, <2>2
<1>2. CASE SkipDeleted(xml)
  BY <1>1, <1>2 DEF TypeOK, SkipDeleted
<1>3. ASSUME xml.text # Deleted
      PROVE  /\ xml.text \in Texts
             /\ HashOf(xml) \in Texts \X BOOLEAN
             /\ Length[xml.text] \in Nat
             /\ xml.text \in Seq(Paragraph)
  BY <1>3, InputAssumption, TextsAssumption DEF HashOf, Paragraph
<1>4. CASE RejectByContent(xml)
  <2>1. spam_ids' \in Seq(Nat)
    BY <1>1, <1>4, AppendIn DEF TypeOK, RejectByContent
  <2> QED
    BY <1>1, <1>3, <1>4, <2>1 DEF TypeOK, RejectByContent
<1>5. CASE BeginRevision(xml)
  <2>1. NewRevision(xml, seen') \in RevisionType(DOMAIN paragraphs)
    BY <1>1, <1>3, <1>5, EmptySeq DEF NewRevision, Dummy, RevisionType, BeginRevision
  <2>2. /\ revisions' \in Seq(RevisionType(DOMAIN paragraphs))
        /\ DOMAIN revisions \subseteq DOMAIN revisions'
        /\ Len(revisions') \in DOMAIN revisions'
    BY <1>5, <2>1, AppendIn DEF TypeOK, BeginRevision
  <2>3. /\ words' \in Seq(WordType(DOMAIN revisions'))
        /\ ordered_revisions' \in Seq(DOMAIN revisions')
    BY <1>5, <2>2, WidenArrays, WidenSeq DEF TypeOK, BeginRevision
  <2> QED
    BY <1>1, <1>3, <1>5, <2>2, <2>3, EmptySeq DEF TypeOK, BeginRevision
<1> QED
  BY <1>2, <1>4, <1>5

\* The paragraphs stage.
LEMMA ParagraphsType ==
  ASSUME TypeOK, ReuseParagraph \/ NewParagraph \/ EndParagraphs
  PROVE  TypeOK'
<1>1. \A v : Exhausted(ParagraphCandidates(v), matchedP, WordsOfParagraphs) \subseteq DOMAIN paragraphs
  BY CandidatesIn DEF Exhausted
<1>2. \A v : \A c \in FindMatching(ParagraphCandidates(v), matchedP, WordsOfParagraphs) :
        c \in ParagraphCandidates(v)
  BY DEF FindMatching, Earliest, Usable
<1>3. CASE ReuseParagraph
  <2>1. PICK c \in FindMatching(ParagraphCandidates(PendingValue), matchedP, WordsOfParagraphs) :
          /\ MarkParagraphs({c.id} \cup
                Exhausted(ParagraphCandidates(PendingValue), matchedP, WordsOfParagraphs))
          /\ matchedS' = matchedS \cup ParagraphSentences(c.id)
          /\ matchedW' = matchedW \cup ParagraphWords(c.id)
          /\ StoreParagraph(c.id)
    BY <1>3 DEF ReuseParagraph
  <2>2. c.id \in DOMAIN paragraphs
    BY <1>2, CandidatesIn
  <2>3. matchedS' \subseteq DOMAIN sentences /\ matchedW' \subseteq DOMAIN words
    BY <2>1, <2>2, PartsIn DEF TypeOK
  <2>4. matchedP' \subseteq DOMAIN paragraphs /\ matched_paragraphs_prev' \subseteq DOMAIN paragraphs
    BY <1>1, <2>1, <2>2 DEF MarkParagraphs, TypeOK
  <2>5. revisions' \in Seq(RevisionType(DOMAIN paragraphs)) /\ DOMAIN revisions' = DOMAIN revisions
    BY <2>1, <2>2, StoreParagraphIn DEF StoreParagraph, TypeOK
  <2> QED
    BY <1>3, <2>3, <2>4, <2>5 DEF ReuseParagraph, TypeOK
<1>4. CASE NewParagraph
  <2> DEFINE new == [value |-> PendingValue, sentences_ordered |-> <<>>]
  <2>1. PendingValue \in Paragraph
    <3>1. revisions[current_revision] \in RevisionType(DOMAIN paragraphs)
      BY PartsIn DEF TypeOK
    <3>2. Len(ParagraphsFound) + 1 \in 1 .. Len(revisions[current_revision].text)
      BY <1>4, <3>1, ElementIn DEF NewParagraph, ParagraphsFound, RevisionType
    <3> QED
      BY <3>1, <3>2, ElementOfSeq DEF PendingValue, RevisionType
  <2>2. new \in ParagraphType(DOMAIN sentences)
    BY <2>1, EmptySeq DEF ParagraphType
  <2>3. /\ paragraphs' \in Seq(ParagraphType(DOMAIN sentences))
        /\ DOMAIN paragraphs \subseteq DOMAIN paragraphs'
        /\ Len(paragraphs') \in DOMAIN paragraphs'
    BY <1>4, <2>2, AppendIn DEF NewParagraph, TypeOK
  <2>4. revisions \in Seq(RevisionType(DOMAIN paragraphs'))
    BY <2>3, WidenArrays DEF TypeOK
  <2>5. revisions' \in Seq(RevisionType(DOMAIN paragraphs')) /\ DOMAIN revisions' = DOMAIN revisions
    BY <1>4, <2>3, <2>4, StoreParagraphIn DEF NewParagraph, StoreParagraph, TypeOK
  <2>6. /\ paragraphs_ht \in Seq(DOMAIN paragraphs')
        /\ unmatched_paragraphs_curr \in Seq(DOMAIN paragraphs')
    BY <2>3, WidenSeq DEF TypeOK
  <2>7. unmatched_paragraphs_curr' \in Seq(DOMAIN paragraphs')
    BY <1>4, <2>3, <2>6, AppendIn DEF NewParagraph
  <2>8. matchedP' \subseteq DOMAIN paragraphs' /\ matched_paragraphs_prev' \subseteq DOMAIN paragraphs'
    BY <1>1, <1>4, <2>3 DEF NewParagraph, MarkParagraphs, TypeOK
  <2> QED
    BY <1>4, <2>3, <2>5, <2>6, <2>7, <2>8 DEF NewParagraph, TypeOK
<1>5. CASE EndParagraphs
  BY <1>5 DEF EndParagraphs, TypeOK
<1> QED
  BY <1>3, <1>4, <1>5

\* The paragraph that awaits its next sentence.
LEMMA PendingParagraphIn ==
  ASSUME TypeOK, NEW p \in First(PendingParagraphs)
  PROVE  p \in DOMAIN paragraphs /\ PendingSentenceValue(p) \in Sentence
<1>1. /\ p \in Range(unmatched_paragraphs_curr)
      /\ Len(paragraphs[p].sentences_ordered) < Len(paragraphs[p].value)
  BY DEF First, PendingParagraphs
<1>2. p \in DOMAIN paragraphs
  BY <1>1, ElementIn DEF TypeOK
<1>3. /\ paragraphs[p].value \in Seq(Sentence)
      /\ paragraphs[p].sentences_ordered \in Seq(DOMAIN sentences)
  BY <1>2, PartsIn DEF ParagraphType, Paragraph
<1>4. Len(paragraphs[p].sentences_ordered) + 1 \in 1 .. Len(paragraphs[p].value)
  BY <1>1, <1>3, ElementIn
<1> QED
  BY <1>2, <1>3, <1>4, ElementOfSeq DEF PendingSentenceValue

\* The sentences stage.
LEMMA SentencesType ==
  ASSUME TypeOK, ReuseSentence \/ NewSentence \/ EndSentences
  PROVE  TypeOK'
<1>1. \A v : Exhausted(SentenceCandidates(v), matchedS, WordsOfSentences) \subseteq DOMAIN sentences
  BY CandidatesIn DEF Exhausted
<1>2. \A v : \A c \in FindMatching(SentenceCandidates(v), matchedS, WordsOfSentences) :
        c \in SentenceCandidates(v)
  BY DEF FindMatching, Earliest, Usable
<1>3. \A p \in First(PendingParagraphs) :
        p \in DOMAIN paragraphs /\ PendingSentenceValue(p) \in Sentence
  BY PendingParagraphIn
<1>4. CASE ReuseSentence
  <2> DEFINE C(p) == SentenceCandidates(PendingSentenceValue(p))
             Reused(p, c) ==
               /\ MarkSentences({c.id} \cup Exhausted(C(p), matchedS, WordsOfSentences))
               /\ matchedW' = matchedW \cup SentenceWords(c.id)
               /\ StoreSentence(p, c.id)
  <2>0. PICK p \in First(PendingParagraphs) :
          \E c \in FindMatching(C(p), matchedS, WordsOfSentences) : Reused(p, c)
    BY <1>4 DEF ReuseSentence
  <2>1. PICK c \in FindMatching(C(p), matchedS, WordsOfSentences) : Reused(p, c)
    BY <2>0
  <2>2. c.id \in DOMAIN sentences
    BY <1>2, CandidatesIn
  <2>3. matchedW' \subseteq DOMAIN words
    BY <2>1, <2>2, PartsIn DEF TypeOK
  <2>4. matchedS' \subseteq DOMAIN sentences /\ matched_sentences_prev' \subseteq DOMAIN sentences
    BY <1>1, <2>1, <2>2 DEF MarkSentences, TypeOK
  <2>5. paragraphs' \in Seq(ParagraphType(DOMAIN sentences)) /\ DOMAIN paragraphs' = DOMAIN paragraphs
    BY <1>3, <2>1, <2>2, StoreSentenceIn DEF StoreSentence, TypeOK
  <2> QED
    BY <1>4, <2>3, <2>4, <2>5 DEF ReuseSentence, TypeOK
<1>5. CASE NewSentence
  <2>1. PICK p \in First(PendingParagraphs) :
          /\ MarkSentences(
                Exhausted(SentenceCandidates(PendingSentenceValue(p)), matchedS, WordsOfSentences))
          /\ sentences' = Append(sentences, [value |-> PendingSentenceValue(p),
                                             words_ordered |-> <<>>])
          /\ StoreSentence(p, Len(sentences'))
    BY <1>5 DEF NewSentence
  <2>2. [value |-> PendingSentenceValue(p), words_ordered |-> <<>>] \in SentenceType(DOMAIN words)
    BY <1>3, EmptySeq DEF SentenceType
  <2>3. /\ sentences' \in Seq(SentenceType(DOMAIN words))
        /\ DOMAIN sentences \subseteq DOMAIN sentences'
        /\ Len(sentences') \in DOMAIN sentences'
    BY <2>1, <2>2, AppendIn DEF TypeOK
  <2>4. paragraphs \in Seq(ParagraphType(DOMAIN sentences'))
    BY <2>3, WidenArrays DEF TypeOK
  <2>5. paragraphs' \in Seq(ParagraphType(DOMAIN sentences')) /\ DOMAIN paragraphs' = DOMAIN paragraphs
    BY <1>3, <2>1, <2>3, <2>4, StoreSentenceIn DEF StoreSentence
  <2>6. /\ sentences_ht \in Seq(DOMAIN sentences')
        /\ unmatched_sentences_curr \in Seq(DOMAIN sentences')
    BY <2>3, WidenSeq DEF TypeOK
  <2>7. unmatched_sentences_curr' \in Seq(DOMAIN sentences')
    BY <1>5, <2>3, <2>6, AppendIn DEF NewSentence
  <2>8. matchedS' \subseteq DOMAIN sentences' /\ matched_sentences_prev' \subseteq DOMAIN sentences'
    BY <1>1, <2>1, <2>3 DEF MarkSentences, TypeOK
  <2> QED
    BY <1>5, <2>3, <2>5, <2>6, <2>7, <2>8 DEF NewSentence, TypeOK
<1>6. CASE EndSentences
  <2>1. unmatched_sentences_prev' \subseteq DOMAIN sentences
    BY <1>6, CandidatesIn DEF EndSentences
  <2> QED
    BY <1>6, <2>1 DEF EndSentences, MarkSentences, TypeOK
<1> QED
  BY <1>4, <1>5, <1>6

\* The words stage up to the diff.
LEMMA DiffType ==
  ASSUME TypeOK, RejectDense \/ StartDiff \/ EndWords
  PROVE  TypeOK'
<1>1. CASE RejectDense
  BY <1>1 DEF RejectDense, TypeOK
<1>2. CASE EndWords
  BY <1>2 DEF EndWords, TypeOK
<1>3. CASE StartDiff
  <2>1. \A t \in TextPrev : t.tok \in Token
    BY CandidatesIn, PartsIn DEF TextPrev, WordType
  <2>2. \A t \in TextCurr : t.tok \in Token
    <3>1. \A n \in DOMAIN unmatched_sentences_curr :
            sentences[unmatched_sentences_curr[n]].value \in Seq(Token)
      BY PartsIn, ElementIn DEF TypeOK, SentenceType, Sentence
    <3> QED
      BY <3>1, ElementIn DEF TextCurr
  <2>3. PICK M \in Pairings(TextPrev, TextCurr) : diff' = Script(TextPrev, TextCurr, M)
    BY <1>3 DEF StartDiff, EditScripts
  <2>4. \A p \in M : p[1] \in TextPrev /\ p[2] \in TextCurr
    BY <2>3 DEF Pairings
  <2>5. \A c \in diff' : [tag |-> c.tag, tok |-> c.tok] \in ChangeType
    <3> SUFFICES ASSUME NEW c \in Script(TextPrev, TextCurr, M)
                 PROVE  c.tag \in {"Delete", "Insert", "Equal"} /\ c.tok \in Token
      BY <2>3, Zenon DEF ChangeType
    <3> QED
      BY <2>1, <2>2, <2>4 DEF Script
  <2> QED
    BY <1>3, <2>5 DEF StartDiff, TypeOK
<1> QED
  BY <1>1, <1>2, <1>3

\* The sentence that awaits its next word, and the word that may be reused.
LEMMA PendingSentenceIn ==
  ASSUME TypeOK, NEW s \in First(PendingSentences)
  PROVE  /\ s \in DOMAIN sentences
         /\ PendingToken(s) \in Token
         /\ \A w \in Earliest(Free(PendingToken(s))) : w.id \in DOMAIN words
<1>1. /\ s \in Range(unmatched_sentences_curr)
      /\ Len(sentences[s].words_ordered) < Len(sentences[s].value)
  BY DEF First, PendingSentences
<1>2. s \in DOMAIN sentences
  BY <1>1, ElementIn DEF TypeOK
<1>3. /\ sentences[s].value \in Seq(Token)
      /\ sentences[s].words_ordered \in Seq(DOMAIN words)
  BY <1>2, PartsIn DEF SentenceType, Sentence
<1>4. Len(sentences[s].words_ordered) + 1 \in 1 .. Len(sentences[s].value)
  BY <1>1, <1>3, ElementIn
<1>5. PendingToken(s) \in Token
  BY <1>3, <1>4, ElementOfSeq DEF PendingToken
<1>6. \A w \in Earliest(Free(PendingToken(s))) : w.id \in DOMAIN words
  BY CandidatesIn DEF Earliest, Free
<1> QED
  BY <1>2, <1>5, <1>6

\* The words of the new sentences.
LEMMA WordsType ==
  ASSUME TypeOK, KeepWord \/ DropWord \/ AddWord
  PROVE  TypeOK'
<1>1. CASE KeepWord
  <2>1. PICK s \in First(PendingSentences) :
          \E c \in NextChange(PendingToken(s)), w \in Earliest(Free(PendingToken(s))) :
            MarkWord(w.id) /\ StoreWord(s, w.id) /\ ConsumeChanges({c})
    BY <1>1 DEF KeepWord
  <2>2. PICK c \in NextChange(PendingToken(s)), w \in Earliest(Free(PendingToken(s))) :
          MarkWord(w.id) /\ StoreWord(s, w.id) /\ ConsumeChanges({c})
    BY <2>1
  <2>3. w.id \in DOMAIN words /\ s \in DOMAIN sentences
    BY PendingSentenceIn
  <2>4. sentences' \in Seq(SentenceType(DOMAIN words)) /\ DOMAIN sentences' = DOMAIN sentences
    BY <2>2, <2>3, StoreWordIn DEF StoreWord, TypeOK
  <2>5. matchedW' \subseteq DOMAIN words /\ matched_words_prev' \subseteq DOMAIN words
    BY <2>2, <2>3 DEF MarkWord, TypeOK
  <2>6. diff' \subseteq diff
    BY <2>2 DEF ConsumeChanges
  <2> QED
    BY <1>1, <2>4, <2>5, <2>6 DEF KeepWord, TypeOK
<1>2. CASE DropWord
  <2> DEFINE Removed(w) ==
        words' = [words EXCEPT ![w.id].outbound = Append(@, current_revision)]
  <2>1. PICK s \in First(PendingSentences) :
          \E c \in NextChange(PendingToken(s)), w \in Earliest(Free(PendingToken(s))) :
            MarkWord(w.id) /\ Removed(w) /\ ConsumeChanges({c})
    BY <1>2 DEF DropWord
  <2>2. PICK c \in NextChange(PendingToken(s)), w \in Earliest(Free(PendingToken(s))) :
          MarkWord(w.id) /\ Removed(w) /\ ConsumeChanges({c})
    BY <2>1
  <2>3. w.id \in DOMAIN words
    BY PendingSentenceIn
  <2>4. words' \in Seq(WordType(DOMAIN revisions)) /\ DOMAIN words' = DOMAIN words
    BY <2>2, <2>3, PushOutboundIn DEF TypeOK
  <2>5. matchedW' \subseteq DOMAIN words /\ matched_words_prev' \subseteq DOMAIN words
    BY <2>2, <2>3 DEF MarkWord, TypeOK
  <2>6. diff' \subseteq diff
    BY <2>2 DEF ConsumeChanges
  <2> QED
    BY <1>2, <2>4, <2>5, <2>6 DEF DropWord, TypeOK
<1>3. CASE AddWord
  <2>1. PICK s \in First(PendingSentences) :
          /\ words' = Append(words, NewWord(PendingToken(s)))
          /\ StoreWord(s, Len(words'))
          /\ ConsumeChanges(NextChange(PendingToken(s)))
    BY <1>3 DEF AddWord
  <2>2. s \in DOMAIN sentences /\ PendingToken(s) \in Token
    BY PendingSentenceIn
  <2>3. NewWord(PendingToken(s)) \in WordType(DOMAIN revisions)
    BY <2>2, EmptySeq DEF NewWord, WordType, TypeOK
  <2>4. /\ words' \in Seq(WordType(DOMAIN revisions))
        /\ DOMAIN words \subseteq DOMAIN words'
        /\ Len(words') \in DOMAIN words'
    BY <2>1, <2>3, AppendIn DEF TypeOK
  <2>5. sentences \in Seq(SentenceType(DOMAIN words'))
    BY <2>4, WidenArrays DEF TypeOK
  <2>6. sentences' \in Seq(SentenceType(DOMAIN words')) /\ DOMAIN sentences' = DOMAIN sentences
    BY <2>1, <2>2, <2>4, <2>5, StoreWordIn DEF StoreWord
  <2>7. revisions' \in Seq(RevisionType(DOMAIN paragraphs)) /\ DOMAIN revisions' = DOMAIN revisions
    BY <1>3, CountAddIn DEF AddWord, TypeOK
  <2>8. diff' \subseteq diff
    BY <2>1 DEF ConsumeChanges
  <2> QED
    BY <1>3, <2>4, <2>6, <2>7, <2>8 DEF AddWord, TypeOK
<1> QED
  BY <1>1, <1>2, <1>3

\* The end of a revision.
LEMMA EndType ==
  ASSUME TypeOK, Commit \/ (Discard /\ (at_least_one => revision_prev # None))
  PROVE  TypeOK'
<1>1. /\ matchedP' \subseteq matchedP /\ matchedS' \subseteq matchedS
      /\ matchedW' \subseteq matchedW
  BY DEF Commit, Discard, ResetMatches
<1>2. CASE Commit
  <2> DEFINE R == DOMAIN revisions
  <2>1. \A w \in DOMAIN words : MaybePushOutbound(w) \in WordType(R)
    <3> SUFFICES ASSUME NEW w \in DOMAIN words PROVE MaybePushOutbound(w) \in WordType(R)
      OBVIOUS
    <3>1. words[w] \in WordType(R) /\ current_revision \in R
      BY PartsIn DEF TypeOK
    <3>2. Append(words[w].outbound, current_revision) \in Seq(R)
      BY <3>1, AppendIn DEF WordType
    <3> QED
      BY <3>1, <3>2 DEF MaybePushOutbound, WordType
  <2>2. \A w \in DOMAIN words : \A word \in WordType(R) : MaybePushInbound(w, word) \in WordType(R)
    <3> SUFFICES ASSUME NEW w \in DOMAIN words, NEW word \in WordType(R)
                 PROVE  MaybePushInbound(w, word) \in WordType(R)
      OBVIOUS
    <3>1. current_revision \in R
      BY DEF TypeOK
    <3>2. Append(word.inbound, current_revision) \in Seq(R)
      BY <3>1, AppendIn DEF WordType
    <3> QED
      BY <3>1, <3>2 DEF MaybePushInbound, WordType
  <2>3. words' \in [DOMAIN words -> WordType(R)]
    BY <1>2, <2>1, <2>2 DEF Commit
  <2>4. DOMAIN words = 1 .. Len(words) /\ Len(words) \in Nat
    BY ElementIn DEF TypeOK
  <2>5. words' \in Seq(WordType(R)) /\ DOMAIN words' = DOMAIN words
    BY <2>3, <2>4, SeqDef
  <2>6. /\ paragraphs_ht' \in Seq(DOMAIN paragraphs)
        /\ sentences_ht' \in Seq(DOMAIN sentences)
    BY <1>2, ConcatProperties DEF Commit, TypeOK
  <2>7. ordered_revisions' \in Seq(R)
    BY <1>2, AppendIn DEF Commit, TypeOK
  <2> QED
    BY <1>1, <1>2, <2>5, <2>6, <2>7 DEF Commit, TypeOK
<1>3. CASE Discard /\ (at_least_one => revision_prev # None)
  <2>1. current_revision' \in DOMAIN revisions
    BY <1>3 DEF Discard, RevertedRevision, TypeOK
  <2>2. spam_ids' \in Seq(Nat)
    <3>1. revisions[current_revision].id \in Nat
      BY PartsIn DEF TypeOK, RevisionType
    <3> QED
      BY <1>3, <3>1, AppendIn DEF Discard, TypeOK
  <2>3. spam_hashes' \subseteq Texts \X BOOLEAN
    BY <1>3 DEF Discard, TypeOK
  <2> QED
    BY <1>1, <1>3, <2>1, <2>2, <2>3 DEF Discard, TypeOK
<1> QED
  BY <1>2, <1>3

-----------------------------------------------------------------------------
(* The two invariants need each other: a rejected revision gives way to    *)
(* revision_prev, which is a pointer because a valid revision exists.      *)

\* What a step keeps of the order of the valid revisions.
LEMMA LatestStep ==
  ASSUME TypeOK, ComparedWithLatestValid, [Next]_vars
  PROVE  ComparedWithLatestValid'
<1> USE DEF ComparedWithLatestValid, at_least_one
<1>1. CASE UNCHANGED vars
  BY <1>1 DEF LastIs
<1>2. ASSUME NEW xml \in XmlRevisions, SkipDeleted(xml) \/ RejectByContent(xml)
      PROVE  ComparedWithLatestValid'
  BY <1>2 DEF LastIs, SkipDeleted, RejectByContent, ReadRevision
<1>3. ASSUME NEW xml \in XmlRevisions, BeginRevision(xml)
      PROVE  ComparedWithLatestValid'
  BY <1>3 DEF LastIs, BeginRevision, ReadRevision
<1>4. CASE ReuseParagraph \/ NewParagraph \/ EndParagraphs
  BY <1>4 DEF LastIs, ReuseParagraph, NewParagraph, EndParagraphs
<1>5. CASE ReuseSentence \/ NewSentence \/ EndSentences
  BY <1>5 DEF LastIs, ReuseSentence, NewSentence, EndSentences
<1>6. CASE RejectDense \/ StartDiff \/ KeepWord \/ DropWord \/ AddWord \/ EndWords
  BY <1>6 DEF LastIs, RejectDense, StartDiff, KeepWord, DropWord, AddWord, EndWords
<1>7. CASE Commit
  <2>1. ordered_revisions \in Seq(DOMAIN revisions) /\ current_revision \in DOMAIN revisions
    BY DEF TypeOK
  <2>2. LastIs(Append(ordered_revisions, current_revision), current_revision)
    BY <2>1, AppendIn DEF LastIs
  <2> QED
    BY <1>7, <2>2 DEF Commit, LastIs
<1>8. CASE Discard
  BY <1>8 DEF LastIs, Discard, RevertedRevision
<1>9. CASE EndOfPage \/ Finished
  BY <1>9 DEF LastIs, EndOfPage, Finished
<1> QED
  BY <1>1, <1>2, <1>3, <1>4, <1>5, <1>6, <1>7, <1>8, <1>9 DEF Next

\* Every step keeps every pointer in bounds.
LEMMA TypeStep ==
  ASSUME TypeOK, ComparedWithLatestValid, [Next]_vars
  PROVE  TypeOK'
<1>1. CASE UNCHANGED vars
  BY <1>1 DEF TypeOK
<1>2. ASSUME NEW xml \in XmlRevisions,
             SkipDeleted(xml) \/ RejectByContent(xml) \/ BeginRevision(xml)
      PROVE  TypeOK'
  BY <1>2, ReadType
<1>3. CASE Discard
  <2>1. at_least_one => revision_prev # None
    <3>1. ordered_revisions \in Seq(DOMAIN revisions) /\ DOMAIN revisions \subseteq Nat \ {0}
      BY ElementIn DEF TypeOK
    <3>2. ASSUME at_least_one PROVE revision_prev # None
      <4>1. LastIs(ordered_revisions, revision_prev)
        BY <1>3, <3>2 DEF ComparedWithLatestValid, Discard
      <4>2. Len(ordered_revisions) \in 1 .. Len(ordered_revisions)
        BY <3>1, <4>1, ElementIn DEF LastIs
      <4>3. revision_prev \in DOMAIN revisions
        BY <3>1, <4>1, <4>2, ElementOfSeq DEF LastIs
      <4> QED
        BY <3>1, <4>3
    <3> QED
      BY <3>2
  <2> QED
    BY <1>3, <2>1, EndType
<1>4. CASE EndOfPage \/ Finished
  BY <1>4 DEF EndOfPage, Finished, TypeOK
<1>5. CASE ReuseParagraph \/ NewParagraph \/ EndParagraphs
  BY <1>5, ParagraphsType
<1>6. CASE ReuseSentence \/ NewSentence \/ EndSentences
  BY <1>6, SentencesType
<1>7. CASE RejectDense \/ StartDiff \/ EndWords
  BY <1>7, DiffType
<1>8. CASE KeepWord \/ DropWord \/ AddWord
  BY <1>8, WordsType
<1>9. CASE Commit
  BY <1>9, EndType
<1> QED
  BY <1>1, <1>2, <1>3, <1>4, <1>5, <1>6, <1>7, <1>8, <1>9 DEF Next

(***************************************************************************)
(* The code never indexes an array out of bounds, whatever the texts: all  *)
(* pointers stored by analyse_page and the locals of its stages are valid. *)
(***************************************************************************)
THEOREM PointersValid == Spec => []TypeOK
<1>1. Init => TypeOK /\ ComparedWithLatestValid
  BY InitType DEF Init, ComparedWithLatestValid, at_least_one
<1>2. TypeOK /\ ComparedWithLatestValid /\ [Next]_vars => (TypeOK /\ ComparedWithLatestValid)'
  BY TypeStep, LatestStep
<1> QED
  BY <1>1, <1>2, PTL DEF Spec

(***************************************************************************)
(* A revision is always compared with the latest valid one, and that is    *)
(* current_revision between two revisions: the expect() on revision_prev   *)
(* in analyse_page never fails, however many revisions are rejected.       *)
(***************************************************************************)
THEOREM ComparisonBase == Spec => []ComparedWithLatestValid
<1>1. Init => TypeOK /\ ComparedWithLatestValid
  BY InitType DEF Init, ComparedWithLatestValid, at_least_one
<1>2. TypeOK /\ ComparedWithLatestValid /\ [Next]_vars => (TypeOK /\ ComparedWithLatestValid)'
  BY TypeStep, LatestStep
<1> QED
  BY <1>1, <1>2, PTL DEF Spec

-----------------------------------------------------------------------------
(* No match outlives its revision.  The reset walks three lists and what   *)
(* hangs below their entries, so the invariant says that every flag is     *)
(* reached that way; entries below a listed one are never taken away.      *)

ListedSentences ==
  matched_sentences_prev \cup (UNION {ParagraphSentences(p) : p \in matched_paragraphs_prev})
ListedWords == matched_words_prev \cup Revived

MatchesListed ==
  IF Quiescent
  THEN matchedP = {} /\ matchedS = {} /\ matchedW = {}
  ELSE /\ matchedP \subseteq matched_paragraphs_prev
       /\ matchedS \subseteq ListedSentences
       /\ matchedW \subseteq ListedWords

\* Nothing is taken out of a paragraph or a sentence.
PartsGrow ==
  /\ \A p \in DOMAIN paragraphs : ParagraphSentences(p) \subseteq ParagraphSentences(p)'
  /\ \A s \in DOMAIN sentences : SentenceWords(s) \subseteq SentenceWords(s)'

\* Appending adds to the elements of a sequence.
LEMMA RangeAppend ==
  ASSUME NEW S, NEW s \in Seq(S), NEW e \in S
  PROVE  Range(s) \subseteq Range(Append(s, e))
  BY AppendIn DEF Range

\* What is listed stays listed while the lists and the parts grow.
LEMMA ListsGrow ==
  ASSUME TypeOK, PartsGrow,
         matched_paragraphs_prev \subseteq matched_paragraphs_prev',
         matched_sentences_prev \subseteq matched_sentences_prev',
         matched_words_prev \subseteq matched_words_prev'
  PROVE  ListedSentences \subseteq ListedSentences' /\ ListedWords \subseteq ListedWords'
<1>1. /\ matched_paragraphs_prev \subseteq DOMAIN paragraphs
      /\ matched_sentences_prev \subseteq DOMAIN sentences
  BY DEF TypeOK
<1>2. \A p \in DOMAIN paragraphs : ParagraphWords(p) \subseteq ParagraphWords(p)'
  BY PartsIn DEF PartsGrow, ParagraphWords
<1>3. ListedSentences \subseteq ListedSentences'
  BY <1>1 DEF PartsGrow, ListedSentences
<1>4. ListedWords \subseteq ListedWords'
  BY <1>1, <1>2 DEF PartsGrow, ListedWords, Revived
<1> QED
  BY <1>3, <1>4

\* The parts grow in every step of the matching.
LEMMA MatchingGrows ==
  ASSUME TypeOK,
         \/ ReuseParagraph \/ NewParagraph \/ ReuseSentence \/ NewSentence
         \/ KeepWord \/ DropWord \/ AddWord
  PROVE  PartsGrow
<1>1. ASSUME NEW p \in DOMAIN paragraphs, NEW s \in DOMAIN sentences', StoreSentence(p, s),
             DOMAIN sentences \subseteq DOMAIN sentences'
      PROVE  \A q \in DOMAIN paragraphs : ParagraphSentences(q) \subseteq ParagraphSentences(q)'
  <2> SUFFICES ASSUME NEW q \in DOMAIN paragraphs
               PROVE  ParagraphSentences(q) \subseteq ParagraphSentences(q)'
    OBVIOUS
  <2>1. paragraphs[q].sentences_ordered \in Seq(DOMAIN sentences')
    BY <1>1, PartsIn, WidenSeq DEF ParagraphType
  <2>2. paragraphs[q] \in ParagraphType(DOMAIN sentences)
    BY PartsIn
  <2>3. CASE q = p
    <3>1. paragraphs'[q].sentences_ordered = Append(paragraphs[q].sentences_ordered, s)
      BY <1>1, <2>2, <2>3 DEF StoreSentence, ParagraphType
    <3> QED
      BY <1>1, <2>1, <3>1, RangeAppend DEF ParagraphSentences
  <2>4. CASE q # p
    BY <1>1, <2>4 DEF StoreSentence, ParagraphSentences
  <2> QED
    BY <2>3, <2>4
<1>2. ASSUME NEW t \in DOMAIN sentences, NEW w \in DOMAIN words', StoreWord(t, w),
             DOMAIN words \subseteq DOMAIN words'
      PROVE  \A q \in DOMAIN sentences : SentenceWords(q) \subseteq SentenceWords(q)'
  <2> SUFFICES ASSUME NEW q \in DOMAIN sentences
               PROVE  SentenceWords(q) \subseteq SentenceWords(q)'
    OBVIOUS
  <2>1. sentences[q].words_ordered \in Seq(DOMAIN words')
    BY <1>2, PartsIn, WidenSeq DEF SentenceType
  <2>2. sentences[q] \in SentenceType(DOMAIN words)
    BY PartsIn
  <2>3. CASE q = t
    <3>1. sentences'[q].words_ordered = Append(sentences[q].words_ordered, w)
      BY <1>2, <2>2, <2>3 DEF StoreWord, SentenceType
    <3> QED
      BY <1>2, <2>1, <3>1, RangeAppend DEF SentenceWords
  <2>4. CASE q # t
    BY <1>2, <2>4 DEF StoreWord, SentenceWords
  <2> QED
    BY <2>3, <2>4
<1>3. CASE ReuseParagraph \/ DropWord
  BY <1>3 DEF ReuseParagraph, DropWord, PartsGrow, ParagraphSentences, SentenceWords
<1>4. CASE NewParagraph
  <2>1. \A p \in DOMAIN paragraphs : paragraphs'[p] = paragraphs[p]
    BY <1>4, ElementIn, SMTT(30) DEF NewParagraph, TypeOK
  <2> QED
    BY <1>4, <2>1 DEF NewParagraph, PartsGrow, ParagraphSentences, SentenceWords
<1>5. CASE ReuseSentence
  <2>1. PICK p \in First(PendingParagraphs) :
          \E c \in FindMatching(SentenceCandidates(PendingSentenceValue(p)), matchedS, WordsOfSentences) :
            StoreSentence(p, c.id)
    BY <1>5 DEF ReuseSentence
  <2>2. PICK c \in SentenceCandidates(PendingSentenceValue(p)) : StoreSentence(p, c.id)
    BY <2>1 DEF FindMatching, Earliest, Usable
  <2>3. p \in DOMAIN paragraphs /\ c.id \in DOMAIN sentences /\ sentences' = sentences
    BY <1>5, PendingParagraphIn, CandidatesIn DEF ReuseSentence
  <2>4. \A q \in DOMAIN paragraphs : ParagraphSentences(q) \subseteq ParagraphSentences(q)'
    BY <1>1, <2>2, <2>3
  <2> QED
    BY <2>3, <2>4 DEF PartsGrow, SentenceWords
<1>6. CASE NewSentence
  <2>1. PICK p \in First(PendingParagraphs) :
          /\ sentences' = Append(sentences, [value |-> PendingSentenceValue(p),
                                             words_ordered |-> <<>>])
          /\ StoreSentence(p, Len(sentences'))
    BY <1>6 DEF NewSentence
  <2>2. p \in DOMAIN paragraphs /\ PendingSentenceValue(p) \in Sentence
    BY PendingParagraphIn
  <2>3. [value |-> PendingSentenceValue(p), words_ordered |-> <<>>] \in SentenceType(DOMAIN words)
    BY <2>2, EmptySeq DEF SentenceType
  <2>4. /\ DOMAIN sentences \subseteq DOMAIN sentences'
        /\ Len(sentences') \in DOMAIN sentences'
        /\ \A s \in DOMAIN sentences : sentences'[s] = sentences[s]
    BY <2>1, <2>3, AppendIn DEF TypeOK
  <2>5. \A q \in DOMAIN paragraphs : ParagraphSentences(q) \subseteq ParagraphSentences(q)'
    BY <1>1, <2>1, <2>2, <2>4
  <2> QED
    BY <2>4, <2>5 DEF PartsGrow, SentenceWords
<1>7. CASE KeepWord
  <2>1. PICK s \in First(PendingSentences) :
          \E w \in Earliest(Free(PendingToken(s))) : StoreWord(s, w.id)
    BY <1>7 DEF KeepWord
  <2>2. PICK w \in Earliest(Free(PendingToken(s))) : StoreWord(s, w.id)
    BY <2>1
  <2>3. /\ s \in DOMAIN sentences /\ w.id \in DOMAIN words
        /\ words' = words /\ paragraphs' = paragraphs
    BY <1>7, PendingSentenceIn DEF KeepWord
  <2>4. \A q \in DOMAIN sentences : SentenceWords(q) \subseteq SentenceWords(q)'
    BY <1>2, <2>2, <2>3
  <2> QED
    BY <2>3, <2>4 DEF PartsGrow, ParagraphSentences
<1>8. CASE AddWord
  <2>1. PICK s \in First(PendingSentences) :
          /\ words' = Append(words, NewWord(PendingToken(s)))
          /\ StoreWord(s, Len(words'))
    BY <1>8 DEF AddWord
  <2>2. s \in DOMAIN sentences /\ PendingToken(s) \in Token /\ paragraphs' = paragraphs
    BY <1>8, PendingSentenceIn DEF AddWord
  <2>3. NewWord(PendingToken(s)) \in WordType(DOMAIN revisions)
    BY <2>2, EmptySeq DEF NewWord, WordType, TypeOK
  <2>4. DOMAIN words \subseteq DOMAIN words' /\ Len(words') \in DOMAIN words'
    BY <2>1, <2>3, AppendIn DEF TypeOK
  <2>5. \A q \in DOMAIN sentences : SentenceWords(q) \subseteq SentenceWords(q)'
    BY <1>2, <2>1, <2>2, <2>4
  <2> QED
    BY <2>2, <2>5 DEF PartsGrow, ParagraphSentences
<1> QED
  BY <1>3, <1>4, <1>5, <1>6, <1>7, <1>8

\* A step that neither flags nor lists anything keeps what is listed.
LEMMA MatchingKeepsListed ==
  ASSUME TypeOK, MatchesListed, ~Quiescent, ~Quiescent', PartsGrow,
         matched_paragraphs_prev \subseteq matched_paragraphs_prev',
         matched_sentences_prev \subseteq matched_sentences_prev',
         matched_words_prev \subseteq matched_words_prev',
         matchedP' \ matchedP \subseteq matched_paragraphs_prev',
         matchedS' \ matchedS \subseteq ListedSentences',
         matchedW' \ matchedW \subseteq ListedWords'
  PROVE  MatchesListed'
<1>1. ListedSentences \subseteq ListedSentences' /\ ListedWords \subseteq ListedWords'
  BY ListsGrow
<1> QED
  BY <1>1 DEF MatchesListed

\* Every flag of a stage is listed by the step that sets it.
LEMMA MatchesStep ==
  ASSUME TypeOK, MatchesListed, [Next]_vars
  PROVE  MatchesListed'
<1>1. CASE \/ UNCHANGED vars \/ EndParagraphs \/ RejectDense \/ StartDiff \/ EndWords
           \/ EndOfPage \/ Finished
  <2>1. /\ UNCHANGED <<paragraphs, sentences, flags, matched_paragraphs_prev,
                       matched_sentences_prev, matched_words_prev>>
        /\ Quiescent <=> Quiescent'
    BY <1>1 DEF EndParagraphs, RejectDense, StartDiff, EndWords, EndOfPage, Finished
  <2> QED
    BY <2>1 DEF MatchesListed, ListedSentences, ListedWords, Revived, ParagraphWords,
                ParagraphSentences, SentenceWords
<1>2. ASSUME NEW xml \in XmlRevisions,
             SkipDeleted(xml) \/ RejectByContent(xml) \/ BeginRevision(xml)
      PROVE  MatchesListed'
  BY <1>2 DEF SkipDeleted, RejectByContent, BeginRevision, ReadRevision, MatchesListed
<1>3. CASE ReuseParagraph
  <2>1. PICK c \in FindMatching(ParagraphCandidates(PendingValue), matchedP, WordsOfParagraphs) :
          /\ MarkParagraphs({c.id} \cup
                Exhausted(ParagraphCandidates(PendingValue), matchedP, WordsOfParagraphs))
          /\ matchedS' = matchedS \cup ParagraphSentences(c.id)
          /\ matchedW' = matchedW \cup ParagraphWords(c.id)
    BY <1>3 DEF ReuseParagraph
  <2>2. c.id \in matched_paragraphs_prev' /\ matchedP' \ matchedP \subseteq matched_paragraphs_prev'
    BY <2>1 DEF MarkParagraphs
  <2>3. ParagraphSentences(c.id)' = ParagraphSentences(c.id) /\ ParagraphWords(c.id)' = ParagraphWords(c.id)
    BY <1>3 DEF ReuseParagraph, ParagraphSentences, ParagraphWords, SentenceWords
  <2>4. ParagraphSentences(c.id) \subseteq ListedSentences'
    BY <2>2, <2>3 DEF ListedSentences
  <2>5. ParagraphWords(c.id) \subseteq ListedWords'
    BY <2>2, <2>3 DEF ListedWords, Revived
  <2>6. matched_paragraphs_prev \subseteq matched_paragraphs_prev'
    BY <2>1 DEF MarkParagraphs
  <2>7. matchedS' \ matchedS \subseteq ListedSentences' /\ matchedW' \ matchedW \subseteq ListedWords'
    BY <2>1, <2>4, <2>5
  <2> QED
    BY <1>3, <2>6, <2>2, <2>6, <2>7, MatchingGrows, MatchingKeepsListed DEF ReuseParagraph
<1>4. CASE NewParagraph
  BY <1>4, MatchingGrows, MatchingKeepsListed DEF NewParagraph, MarkParagraphs
<1>5. CASE ReuseSentence
  <2> DEFINE Reused(c) ==
        /\ \E M : MarkSentences({c.id} \cup M)
        /\ matchedW' = matchedW \cup SentenceWords(c.id)
  <2>1. PICK c : Reused(c)
    BY <1>5 DEF ReuseSentence
  <2>2. /\ c.id \in matched_sentences_prev'
        /\ matched_sentences_prev \subseteq matched_sentences_prev'
        /\ matchedS' \ matchedS \subseteq matched_sentences_prev'
    BY <2>1 DEF MarkSentences
  <2>3. SentenceWords(c.id)' = SentenceWords(c.id)
    BY <1>5 DEF ReuseSentence, SentenceWords
  <2>4. SentenceWords(c.id)' \subseteq ListedWords'
    BY <2>2 DEF ListedWords, Revived
  <2>5. matchedS' \ matchedS \subseteq ListedSentences' /\ matchedW' \ matchedW \subseteq ListedWords'
    BY <2>1, <2>2, <2>3, <2>4 DEF ListedSentences
  <2> QED
    BY <1>5, <2>2, <2>5, MatchingGrows, MatchingKeepsListed DEF ReuseSentence
<1>6. CASE NewSentence
  <2>1. /\ matchedS' \ matchedS \subseteq matched_sentences_prev'
        /\ matched_sentences_prev \subseteq matched_sentences_prev'
    BY <1>6 DEF NewSentence, MarkSentences
  <2>2. matchedS' \ matchedS \subseteq ListedSentences'
    BY <2>1 DEF ListedSentences
  <2> QED
    BY <1>6, <2>1, <2>2, MatchingGrows, MatchingKeepsListed DEF NewSentence
<1>7. CASE EndSentences
  <2>1. /\ matchedS' \ matchedS \subseteq matched_sentences_prev'
        /\ matched_sentences_prev \subseteq matched_sentences_prev'
    BY <1>7 DEF EndSentences, MarkSentences
  <2>2. matchedS' \ matchedS \subseteq ListedSentences'
    BY <2>1 DEF ListedSentences
  <2>3. PartsGrow
    BY <1>7 DEF EndSentences, PartsGrow, ParagraphSentences, SentenceWords
  <2> QED
    BY <1>7, <2>1, <2>2, <2>3, MatchingKeepsListed DEF EndSentences
<1>8. CASE KeepWord \/ DropWord
  <2>1. PICK w : MarkWord(w)
    BY <1>8 DEF KeepWord, DropWord
  <2>2. /\ matchedW' \ matchedW \subseteq ListedWords'
        /\ matched_words_prev \subseteq matched_words_prev'
    BY <2>1 DEF MarkWord, ListedWords
  <2> QED
    BY <1>8, <2>2, MatchingGrows, MatchingKeepsListed DEF KeepWord, DropWord
<1>9. CASE AddWord
  BY <1>9, MatchingGrows, MatchingKeepsListed DEF AddWord
<1>10. CASE Commit \/ Discard
  <2>1. /\ matchedP \subseteq matched_paragraphs_prev
        /\ matchedS \subseteq ListedSentences
        /\ matchedW \subseteq ListedWords
    BY <1>10 DEF Commit, Discard, MatchesListed
  <2>2. matchedP' = {} /\ matchedS' = {} /\ matchedW' = {}
    BY <1>10, <2>1 DEF Commit, Discard, ResetMatches, ListedSentences, ListedWords
  <2> QED
    BY <1>10, <2>2 DEF Commit, Discard, MatchesListed
<1> QED
  BY <1>1, <1>2, <1>3, <1>4, <1>5, <1>6, <1>7, <1>8, <1>9, <1>10 DEF Next

(***************************************************************************)
(* The reset at the end of determine_authorship leaves no matched flag,    *)
(* for a valid revision and for a rejected one.                            *)
(***************************************************************************)
THEOREM MatchesReset == Spec => []FlagsClear
<1>1. Init => TypeOK /\ ComparedWithLatestValid /\ MatchesListed
  BY InitType DEF Init, ComparedWithLatestValid, at_least_one, MatchesListed
<1>2. TypeOK /\ ComparedWithLatestValid /\ MatchesListed /\ [Next]_vars
        => (TypeOK /\ ComparedWithLatestValid /\ MatchesListed)'
  BY TypeStep, LatestStep, MatchesStep
<1>3. MatchesListed => FlagsClear
  BY DEF MatchesListed, FlagsClear
<1> QED
  BY <1>1, <1>2, <1>3, PTL DEF Spec

-----------------------------------------------------------------------------
USE DEF vars, input, arrays, results, internals, flags, locals, None, Stages, Quiescent

-----------------------------------------------------------------------------
(* What the steps do to the arrays, entry by entry                         *)

\* Appending an element, whatever it is, to a sequence.
LEMMA Appending ==
  ASSUME NEW S, NEW s \in Seq(S), NEW e
  PROVE  /\ Len(s) \in Nat /\ DOMAIN s = 1 .. Len(s)
         /\ Len(Append(s, e)) = Len(s) + 1
         /\ DOMAIN Append(s, e) = 1 .. Len(s) + 1
         /\ Append(s, e)[Len(s) + 1] = e
         /\ \A i \in DOMAIN s : i \in DOMAIN Append(s, e) /\ Append(s, e)[i] = s[i]
         /\ \A i \in DOMAIN Append(s, e) : i \in DOMAIN s \/ i = Len(s) + 1
<1>1. s \in Seq(S \cup {e})
  BY WidenSeq
<1>2. /\ Len(s) \in Nat /\ DOMAIN s = 1 .. Len(s)
      /\ Len(Append(s, e)) = Len(s) + 1
      /\ DOMAIN Append(s, e) = 1 .. Len(s) + 1
      /\ Append(s, e)[Len(s) + 1] = e
      /\ \A i \in DOMAIN s : Append(s, e)[i] = s[i]
  BY <1>1, AppendIn
<1>3. \A i \in 1 .. Len(s) + 1 : i \in 1 .. Len(s) \/ i = Len(s) + 1
  BY <1>2
<1>4. \A i \in 1 .. Len(s) : i \in 1 .. Len(s) + 1
  BY <1>2
<1> QED
  BY <1>2, <1>3, <1>4

\* The elements of a sequence to which one was appended.
LEMMA RangeOfAppend ==
  ASSUME NEW S, NEW s \in Seq(S), NEW e
  PROVE  Range(Append(s, e)) = Range(s) \cup {e}
<1>1. s \in Seq(S \cup {e})
  BY WidenSeq
<1>2. /\ Len(s) \in Nat /\ DOMAIN s = 1 .. Len(s)
      /\ DOMAIN Append(s, e) = 1 .. Len(s) + 1
      /\ Append(s, e)[Len(s) + 1] = e
      /\ \A i \in DOMAIN s : Append(s, e)[i] = s[i]
  BY <1>1, AppendIn
<1>3. \A i \in 1 .. Len(s) + 1 : i \in 1 .. Len(s) \/ i = Len(s) + 1
  BY <1>2
<1>4. Range(Append(s, e)) \subseteq Range(s) \cup {e}
  BY <1>2, <1>3 DEF Range
<1>5. Range(s) \cup {e} \subseteq Range(Append(s, e))
  BY <1>2 DEF Range
<1> QED
  BY <1>4, <1>5

\* The paragraph p is the next one of the current revision.
StoredParagraph(p) ==
  /\ DOMAIN revisions' = DOMAIN revisions
  /\ \A r \in DOMAIN revisions : r # current_revision => revisions'[r] = revisions[r]
  /\ revisions'[current_revision].paragraphs_ordered = Append(ParagraphsFound, p)
  /\ revisions'[current_revision].text = revisions[current_revision].text
  /\ revisions'[current_revision].id = revisions[current_revision].id
  /\ revisions'[current_revision].original_adds = revisions[current_revision].original_adds

\* The sentence s is the next one of the paragraph p.
StoredSentence(p, s) ==
  /\ DOMAIN paragraphs' = DOMAIN paragraphs
  /\ \A q \in DOMAIN paragraphs : q # p => paragraphs'[q] = paragraphs[q]
  /\ paragraphs'[p].sentences_ordered = Append(paragraphs[p].sentences_ordered, s)
  /\ paragraphs'[p].value = paragraphs[p].value

\* The word w is the next one of the sentence s.
StoredWord(s, w) ==
  /\ DOMAIN sentences' = DOMAIN sentences
  /\ \A t \in DOMAIN sentences : t # s => sentences'[t] = sentences[t]
  /\ sentences'[s].words_ordered = Append(sentences[s].words_ordered, w)
  /\ sentences'[s].value = sentences[s].value

LEMMA Storing ==
  ASSUME TypeOK
  PROVE  /\ \A p : StoreParagraph(p) => StoredParagraph(p)
         /\ \A p \in DOMAIN paragraphs : \A s : StoreSentence(p, s) => StoredSentence(p, s)
         /\ \A s \in DOMAIN sentences : \A w : StoreWord(s, w) => StoredWord(s, w)
<1>1. ASSUME NEW p, StoreParagraph(p)
      PROVE  StoredParagraph(p)
  <2>1. revisions[current_revision] \in RevisionType(DOMAIN paragraphs)
        /\ current_revision \in DOMAIN revisions
    BY PartsIn DEF TypeOK
  <2> QED
    BY <1>1, <2>1 DEF StoreParagraph, StoredParagraph, ParagraphsFound, RevisionType
<1>2. ASSUME NEW p \in DOMAIN paragraphs, NEW s, StoreSentence(p, s)
      PROVE  StoredSentence(p, s)
  <2>1. paragraphs[p] \in ParagraphType(DOMAIN sentences)
    BY PartsIn
  <2> QED
    BY <1>2, <2>1 DEF StoreSentence, StoredSentence, ParagraphType
<1>3. ASSUME NEW s \in DOMAIN sentences, NEW w, StoreWord(s, w)
      PROVE  StoredWord(s, w)
  <2>1. sentences[s] \in SentenceType(DOMAIN words)
    BY PartsIn
  <2> QED
    BY <1>3, <2>1 DEF StoreWord, StoredWord, SentenceType
<1> QED
  BY <1>1, <1>2, <1>3

\* The entry e is put at the end of an array, which keeps what it has.
Added(array, grown, e) ==
  /\ Len(array) \in Nat /\ DOMAIN array = 1 .. Len(array)
  /\ DOMAIN grown = 1 .. Len(array) + 1 /\ Len(grown) = Len(array) + 1
  /\ \A i \in DOMAIN array : grown[i] = array[i]
  /\ grown[Len(array) + 1] = e

LEMMA Adding ==
  ASSUME NEW S, NEW array \in Seq(S), NEW e
  PROVE  Added(array, Append(array, e), e)
<1>1. array \in Seq(S \cup {e})
  BY WidenSeq
<1> QED
  BY <1>1, AppendIn DEF Added

LEMMA AddingTo ==
  ASSUME NEW S, NEW array \in Seq(S)
  PROVE  \A grown, e : grown = Append(array, e)
                        => Added(array, grown, e) /\ Range(grown) = Range(array) \cup {e}
<1>1. \A e : Added(array, Append(array, e), e)
  BY Adding
<1>2. \A e : Range(Append(array, e)) = Range(array) \cup {e}
  BY RangeOfAppend
<1> QED
  BY <1>1, <1>2

\* The paragraphs that may be found again, and their sentences.
FoundAgain == Range(PrevParagraphs) \cup Range(paragraphs_ht)

\* The candidates for a paragraph, and those passed over for good.
LEMMA ExhaustedParagraphs ==
  ASSUME TypeOK, NEW v
  PROVE  /\ \A d \in ParagraphCandidates(v) :
              /\ d.id \in FoundAgain /\ paragraphs[d.id].value = v
              /\ d.id \in DOMAIN paragraphs
              /\ WordsOfParagraphs[d.id] = ParagraphWords(d.id)
         /\ \A q \in Exhausted(ParagraphCandidates(v), matchedP, WordsOfParagraphs) :
              q \in FoundAgain /\ ParagraphWords(q) \subseteq matchedW
<1>1. ASSUME NEW d \in ParagraphCandidates(v)
      PROVE  /\ d.id \in FoundAgain /\ paragraphs[d.id].value = v
             /\ d.id \in DOMAIN paragraphs
             /\ WordsOfParagraphs[d.id] = ParagraphWords(d.id)
  <2>1. d.id \in DOMAIN paragraphs
    BY CandidatesIn
  <2> QED
    BY <2>1 DEF ParagraphCandidates, FoundAgain, Range, WordsOfParagraphs
<1> QED
  BY <1>1 DEF Exhausted

\* A paragraph found again.
LEMMA ReuseParagraphDoes ==
  ASSUME TypeOK, ReuseParagraph
  PROVE  \E p \in FoundAgain :
           /\ Len(ParagraphsFound) < Len(revisions[current_revision].text)
           /\ paragraphs[p].value = PendingValue
           /\ p \notin matchedP
           /\ ParagraphWords(p) \cap matchedW = {}
           /\ StoredParagraph(p)
           /\ p \in matchedP'
           /\ \A q \in matchedP' : \/ q \in matchedP \cup {p}
                                   \/ q \in FoundAgain /\ ParagraphWords(q) \subseteq matchedW
           /\ matchedS' = matchedS \cup ParagraphSentences(p)
           /\ matchedW' = matchedW \cup ParagraphWords(p)
<1> DEFINE C == ParagraphCandidates(PendingValue)
<1>1. PICK c \in FindMatching(C, matchedP, WordsOfParagraphs) :
        /\ MarkParagraphs({c.id} \cup Exhausted(C, matchedP, WordsOfParagraphs))
        /\ matchedS' = matchedS \cup ParagraphSentences(c.id)
        /\ matchedW' = matchedW \cup ParagraphWords(c.id)
        /\ StoreParagraph(c.id)
  BY DEF ReuseParagraph
<1>2. /\ c \in C /\ c.id \notin matchedP
      /\ WordsOfParagraphs[c.id] \cap matchedW = {}
  BY DEF FindMatching, Earliest, Usable
<1>3. \A d \in C : /\ d.id \in FoundAgain /\ paragraphs[d.id].value = PendingValue
                   /\ WordsOfParagraphs[d.id] = ParagraphWords(d.id)
  BY ExhaustedParagraphs
<1>4. \A q \in Exhausted(C, matchedP, WordsOfParagraphs) :
        q \in FoundAgain /\ ParagraphWords(q) \subseteq matchedW
  BY ExhaustedParagraphs
<1>5. StoredParagraph(c.id)
  BY <1>1, Storing
<1>6. Len(ParagraphsFound) < Len(revisions[current_revision].text)
  BY DEF ReuseParagraph
<1>7. c.id \in FoundAgain
  BY <1>2, <1>3
<1> QED
  BY <1>1, <1>2, <1>3, <1>4, <1>5, <1>6, <1>7 DEF MarkParagraphs

\* A paragraph not found again.
LEMMA NewParagraphDoes ==
  ASSUME TypeOK, NewParagraph
  PROVE  LET p == Len(paragraphs) + 1
         IN /\ Len(ParagraphsFound) < Len(revisions[current_revision].text)
            /\ Added(paragraphs, paragraphs',
                     [value |-> PendingValue, sentences_ordered |-> <<>>])
            /\ StoredParagraph(p)
            /\ Added(unmatched_paragraphs_curr, unmatched_paragraphs_curr', p)
            /\ Range(unmatched_paragraphs_curr') = Range(unmatched_paragraphs_curr) \cup {p}
            /\ \A q \in matchedP' : \/ q \in matchedP
                                    \/ q \in FoundAgain /\ ParagraphWords(q) \subseteq matchedW
<1> DEFINE p == Len(paragraphs) + 1
           C == ParagraphCandidates(PendingValue)
<1>1. Added(paragraphs, paragraphs', [value |-> PendingValue, sentences_ordered |-> <<>>])
  BY Adding DEF NewParagraph, TypeOK
<1>2. Len(paragraphs') = p
  BY <1>1 DEF Added
<1>3. StoredParagraph(p)
  BY <1>2, Storing DEF NewParagraph
<1>4. unmatched_paragraphs_curr' = Append(unmatched_paragraphs_curr, p)
  BY <1>2 DEF NewParagraph
<1>5. /\ Added(unmatched_paragraphs_curr, unmatched_paragraphs_curr', p)
      /\ Range(unmatched_paragraphs_curr') = Range(unmatched_paragraphs_curr) \cup {p}
  BY <1>4, AddingTo DEF TypeOK
<1>6. matchedP' = matchedP \cup Exhausted(C, matchedP, WordsOfParagraphs)
  BY DEF NewParagraph, MarkParagraphs
<1>7. \A q \in Exhausted(C, matchedP, WordsOfParagraphs) :
        q \in FoundAgain /\ ParagraphWords(q) \subseteq matchedW
  BY ExhaustedParagraphs
<1> QED
  BY <1>1, <1>3, <1>5, <1>6, <1>7 DEF NewParagraph

\* The sentences that may be found again.
SentencesAgain ==
  Range(sentences_ht) \cup UNION {ParagraphSentences(p) : p \in Range(PrevParagraphs)}

\* The words of the previous revision, which a new sentence may keep.
WordsAgain == UNION {ParagraphWords(p) : p \in Range(PrevParagraphs)}

LEMMA AgainIn ==
  ASSUME TypeOK
  PROVE  /\ \A c \in SentencesPrev : c.id \in SentencesAgain
         /\ \A v : \A c \in SentenceCandidates(v) :
              c.id \in SentencesAgain /\ sentences[c.id].value = v
         /\ \A w \in UnmatchedWordsPrev : w.id \in WordsAgain \ matchedW
<1>1. \A i \in DOMAIN PrevParagraphs : PrevParagraphs[i] \in Range(PrevParagraphs)
  BY DEF Range
<1>2. ASSUME NEW c \in SentencesPrev
      PROVE  \E p \in Range(PrevParagraphs) : c.id \in ParagraphSentences(p)
  <2>1. PICK i \in UnmatchedParagraphsPrev :
          \E j \in DOMAIN paragraphs[PrevParagraphs[i]].sentences_ordered :
            c.id = paragraphs[PrevParagraphs[i]].sentences_ordered[j]
    BY DEF SentencesPrev
  <2> QED
    BY <1>1, <2>1 DEF UnmatchedParagraphsPrev, ParagraphSentences, Range
<1>3. \A c \in SentencesPrev : c.id \in SentencesAgain
  BY <1>2 DEF SentencesAgain
<1>4. \A v : \A c \in SentenceCandidates(v) :
        c.id \in SentencesAgain /\ sentences[c.id].value = v
  BY <1>3 DEF SentenceCandidates, SentencesAgain, Range
<1>5. ASSUME NEW w \in UnmatchedWordsPrev
      PROVE  w.id \in WordsAgain \ matchedW
  <2>1. PICK c \in SentencesPrev :
          \E k \in DOMAIN sentences[c.id].words_ordered :
            w.id = sentences[c.id].words_ordered[k] /\ w.id \notin matchedW
    BY DEF UnmatchedWordsPrev
  <2>2. w.id \in SentenceWords(c.id)
    BY <2>1 DEF SentenceWords, Range
  <2> QED
    BY <1>2, <2>1, <2>2 DEF WordsAgain, ParagraphWords
<1> QED
  BY <1>3, <1>4, <1>5

\* The paragraph p awaits its next sentence, the sentence s its next word.
AwaitsSentence(p) ==
  /\ p \in Range(unmatched_paragraphs_curr) /\ p \in DOMAIN paragraphs
  /\ Len(paragraphs[p].sentences_ordered) < Len(paragraphs[p].value)
AwaitsWord(s) ==
  /\ s \in Range(unmatched_sentences_curr) /\ s \in DOMAIN sentences
  /\ Len(sentences[s].words_ordered) < Len(sentences[s].value)

LEMMA Awaiting ==
  ASSUME TypeOK
  PROVE  /\ \A p \in First(PendingParagraphs) : AwaitsSentence(p)
         /\ \A s \in First(PendingSentences) : AwaitsWord(s)
  BY PendingParagraphIn, PendingSentenceIn
     DEF First, PendingParagraphs, PendingSentences, AwaitsSentence, AwaitsWord

\* The sentences passed over for good.
LEMMA ExhaustedSentences ==
  ASSUME TypeOK, NEW v
  PROVE  \A t \in Exhausted(SentenceCandidates(v), matchedS, WordsOfSentences) :
           t \in SentencesAgain /\ SentenceWords(t) \subseteq matchedW
<1>1. \A c \in SentenceCandidates(v) :
        c.id \in SentencesAgain /\ WordsOfSentences[c.id] = SentenceWords(c.id)
  BY CandidatesIn, AgainIn DEF WordsOfSentences
<1> QED
  BY <1>1 DEF Exhausted

\* A sentence found again.
LEMMA ReuseSentenceDoes ==
  ASSUME TypeOK, ReuseSentence
  PROVE  \E p, s :
           /\ AwaitsSentence(p)
           /\ s \in SentencesAgain /\ s \in DOMAIN sentences
           /\ sentences[s].value = PendingSentenceValue(p)
           /\ SentenceWords(s) \cap matchedW = {}
           /\ StoredSentence(p, s)
           /\ \A t \in matchedS' : \/ t \in matchedS \cup {s}
                                   \/ t \in SentencesAgain /\ SentenceWords(t) \subseteq matchedW
           /\ matchedW' = matchedW \cup SentenceWords(s)
<1> DEFINE C(p) == SentenceCandidates(PendingSentenceValue(p))
<1>1. PICK p \in First(PendingParagraphs) :
        \E c \in FindMatching(C(p), matchedS, WordsOfSentences) :
          /\ MarkSentences({c.id} \cup Exhausted(C(p), matchedS, WordsOfSentences))
          /\ matchedW' = matchedW \cup SentenceWords(c.id)
          /\ StoreSentence(p, c.id)
  BY DEF ReuseSentence
<1>2. PICK c \in FindMatching(C(p), matchedS, WordsOfSentences) :
        /\ MarkSentences({c.id} \cup Exhausted(C(p), matchedS, WordsOfSentences))
        /\ matchedW' = matchedW \cup SentenceWords(c.id)
        /\ StoreSentence(p, c.id)
  BY <1>1
<1>3. c \in C(p) /\ WordsOfSentences[c.id] \cap matchedW = {}
  BY DEF FindMatching, Earliest, Usable
<1>4. c.id \in DOMAIN sentences /\ c.id \in SentencesAgain
      /\ sentences[c.id].value = PendingSentenceValue(p)
  BY <1>3, CandidatesIn, AgainIn
<1>5. SentenceWords(c.id) \cap matchedW = {}
  BY <1>3, <1>4 DEF WordsOfSentences
<1>6. AwaitsSentence(p)
  BY Awaiting
<1>7. StoredSentence(p, c.id)
  BY <1>2, <1>6, Storing DEF AwaitsSentence
<1>8. \A t \in matchedS' : \/ t \in matchedS \cup {c.id}
                           \/ t \in SentencesAgain /\ SentenceWords(t) \subseteq matchedW
  BY <1>2, ExhaustedSentences DEF MarkSentences
<1> QED
  BY <1>2, <1>4, <1>5, <1>6, <1>7, <1>8

\* A sentence not found again.
LEMMA NewSentenceDoes ==
  ASSUME TypeOK, NewSentence
  PROVE  \E p :
           LET s == Len(sentences) + 1
           IN /\ AwaitsSentence(p)
              /\ Added(sentences, sentences',
                       [value |-> PendingSentenceValue(p), words_ordered |-> <<>>])
              /\ StoredSentence(p, s)
              /\ Range(unmatched_sentences_curr') = Range(unmatched_sentences_curr) \cup {s}
              /\ \A t \in matchedS' : \/ t \in matchedS
                                      \/ t \in SentencesAgain /\ SentenceWords(t) \subseteq matchedW
<1> DEFINE C(p) == SentenceCandidates(PendingSentenceValue(p))
<1>1. PICK p \in First(PendingParagraphs) :
        /\ MarkSentences(Exhausted(C(p), matchedS, WordsOfSentences))
        /\ sentences' = Append(sentences, [value |-> PendingSentenceValue(p),
                                           words_ordered |-> <<>>])
        /\ StoreSentence(p, Len(sentences'))
  BY DEF NewSentence
<1>2. Added(sentences, sentences', [value |-> PendingSentenceValue(p), words_ordered |-> <<>>])
  BY <1>1, Adding DEF TypeOK
<1>3. Len(sentences') = Len(sentences) + 1
  BY <1>2 DEF Added
<1>4. AwaitsSentence(p)
  BY Awaiting
<1>5. StoredSentence(p, Len(sentences) + 1)
  BY <1>1, <1>3, <1>4, Storing DEF AwaitsSentence
<1>6. unmatched_sentences_curr' = Append(unmatched_sentences_curr, Len(sentences) + 1)
  BY <1>3 DEF NewSentence
<1>7. Range(unmatched_sentences_curr') = Range(unmatched_sentences_curr) \cup {Len(sentences) + 1}
  BY <1>6, AddingTo DEF TypeOK
<1>8. \A t \in matchedS' : \/ t \in matchedS
                           \/ t \in SentencesAgain /\ SentenceWords(t) \subseteq matchedW
  BY <1>1, ExhaustedSentences DEF MarkSentences
<1> QED
  BY <1>2, <1>4, <1>5, <1>7, <1>8

\* A word of the previous revision kept.
LEMMA KeepWordDoes ==
  ASSUME TypeOK, KeepWord
  PROVE  \E s, w :
           /\ AwaitsWord(s)
           /\ w \in WordsAgain \ matchedW /\ w \in DOMAIN words
           /\ words[w].value = PendingToken(s)
           /\ StoredWord(s, w)
           /\ matchedW' = matchedW \cup {w}
<1>1. PICK s \in First(PendingSentences) :
        \E w \in Earliest(Free(PendingToken(s))) : MarkWord(w.id) /\ StoreWord(s, w.id)
  BY DEF KeepWord
<1>2. PICK w \in Earliest(Free(PendingToken(s))) : MarkWord(w.id) /\ StoreWord(s, w.id)
  BY <1>1
<1>3. w \in UnmatchedWordsPrev /\ words[w.id].value = PendingToken(s)
  BY DEF Earliest, Free
<1>4. w.id \in WordsAgain \ matchedW /\ w.id \in DOMAIN words
  BY <1>3, AgainIn, CandidatesIn
<1>5. AwaitsWord(s)
  BY Awaiting
<1>6. StoredWord(s, w.id)
  BY <1>2, <1>5, Storing DEF AwaitsWord
<1> QED
  BY <1>2, <1>3, <1>4, <1>5, <1>6 DEF MarkWord

\* A word of the previous revision dropped.
LEMMA DropWordDoes ==
  ASSUME TypeOK, DropWord
  PROVE  \E w :
           /\ w \in WordsAgain \ matchedW /\ w \in DOMAIN words
           /\ DOMAIN words' = DOMAIN words
           /\ \A v \in DOMAIN words : /\ words'[v].value = words[v].value
                                      /\ words'[v].origin = words[v].origin
           /\ matchedW' = matchedW \cup {w}
<1>1. PICK s \in First(PendingSentences) :
        \E w \in Earliest(Free(PendingToken(s))) :
          /\ MarkWord(w.id)
          /\ words' = [words EXCEPT ![w.id].outbound = Append(@, current_revision)]
  BY DEF DropWord
<1>2. PICK w \in Earliest(Free(PendingToken(s))) :
          /\ MarkWord(w.id)
          /\ words' = [words EXCEPT ![w.id].outbound = Append(@, current_revision)]
  BY <1>1
<1>3. w.id \in WordsAgain \ matchedW /\ w.id \in DOMAIN words
  BY AgainIn, CandidatesIn DEF Earliest, Free
<1>4. \A v \in DOMAIN words : /\ words'[v].value = words[v].value
                              /\ words'[v].origin = words[v].origin
  <2>1. words[w.id] \in WordType(DOMAIN revisions)
    BY <1>3, PartsIn
  <2> QED
    BY <1>2, <1>3, <2>1 DEF WordType
<1> QED
  BY <1>2, <1>3, <1>4 DEF MarkWord

\* A new word.
LEMMA AddWordDoes ==
  ASSUME TypeOK, AddWord
  PROVE  \E s :
           /\ AwaitsWord(s)
           /\ Added(words, words', NewWord(PendingToken(s)))
           /\ StoredWord(s, Len(words) + 1)
           /\ DOMAIN revisions' = DOMAIN revisions
           /\ \A r \in DOMAIN revisions :
                /\ revisions'[r].paragraphs_ordered = revisions[r].paragraphs_ordered
                /\ revisions'[r].text = revisions[r].text
                /\ revisions'[r].id = revisions[r].id
                /\ revisions'[r].original_adds =
                     revisions[r].original_adds + (IF r = current_revision THEN 1 ELSE 0)
<1>1. PICK s \in First(PendingSentences) :
        words' = Append(words, NewWord(PendingToken(s))) /\ StoreWord(s, Len(words'))
  BY DEF AddWord
<1>2. Added(words, words', NewWord(PendingToken(s)))
  BY <1>1, Adding DEF TypeOK
<1>3. AwaitsWord(s)
  BY Awaiting
<1>4. StoredWord(s, Len(words) + 1)
  BY <1>1, <1>2, <1>3, Storing DEF Added, AwaitsWord
<1>5. \A r \in DOMAIN revisions :
        /\ revisions'[r].paragraphs_ordered = revisions[r].paragraphs_ordered
        /\ revisions'[r].text = revisions[r].text
        /\ revisions'[r].id = revisions[r].id
        /\ revisions'[r].original_adds =
             revisions[r].original_adds + (IF r = current_revision THEN 1 ELSE 0)
  <2>1. \A r \in DOMAIN revisions : revisions[r] \in RevisionType(DOMAIN paragraphs)
    BY PartsIn
  <2>2. current_revision \in DOMAIN revisions
    BY DEF TypeOK
  <2> QED
    BY <2>1, <2>2 DEF AddWord, RevisionType
<1> QED
  BY <1>2, <1>3, <1>4, <1>5 DEF AddWord

\* The end of a revision: the life of a word is updated, not its token.
LEMMA CommitDoes ==
  ASSUME TypeOK, Commit
  PROVE  /\ DOMAIN words' = DOMAIN words
         /\ \A w \in DOMAIN words : /\ words'[w].value = words[w].value
                                    /\ words'[w].origin = words[w].origin
<1> SUFFICES ASSUME NEW w \in DOMAIN words
             PROVE  /\ words'[w].value = words[w].value
                    /\ words'[w].origin = words[w].origin
  BY DEF Commit
<1> DEFINE word == MaybePushOutbound(w)
<1>1. words[w] \in WordType(DOMAIN revisions)
  BY PartsIn
<1>2. /\ word.value = words[w].value /\ word.origin = words[w].origin
      /\ word = [value |-> word.value, origin |-> word.origin, latest |-> word.latest,
                 inbound |-> word.inbound, outbound |-> word.outbound]
  BY <1>1 DEF MaybePushOutbound, WordType
<1>3. words'[w] = MaybePushInbound(w, word)
  BY DEF Commit
<1> HIDE DEF word
<1>4. /\ MaybePushInbound(w, word).value = word.value
      /\ MaybePushInbound(w, word).origin = word.origin
  BY <1>2 DEF MaybePushInbound
<1> QED
  BY <1>2, <1>3, <1>4

\* The revision that is read.
LEMMA BeginDoes ==
  ASSUME TypeOK, NEW xml \in XmlRevisions, BeginRevision(xml)
  PROVE  LET r == Len(revisions) + 1
         IN /\ Added(revisions, revisions', NewRevision(xml, seen'))
            /\ current_revision' = r
            /\ revisions'[r].paragraphs_ordered = <<>>
            /\ revisions'[r].text = xml.text
            /\ revisions'[r].id = seen'
            /\ revisions'[r].original_adds = 0
<1>1. Added(revisions, revisions', NewRevision(xml, seen'))
  BY Adding DEF BeginRevision, TypeOK
<1> QED
  BY <1>1 DEF BeginRevision, Added, NewRevision, Dummy

-----------------------------------------------------------------------------
(* What every step keeps                                                   *)

\* An entry says the same for good: only the parts it lists may grow.
ValuesKept ==
  /\ \A r \in DOMAIN revisions : /\ r \in DOMAIN revisions'
                                 /\ revisions'[r].text = revisions[r].text
                                 /\ revisions'[r].id = revisions[r].id
  /\ \A p \in DOMAIN paragraphs : p \in DOMAIN paragraphs' /\ paragraphs'[p].value = paragraphs[p].value
  /\ \A s \in DOMAIN sentences : s \in DOMAIN sentences' /\ sentences'[s].value = sentences[s].value
  /\ \A w \in DOMAIN words : /\ w \in DOMAIN words'
                             /\ words'[w].value = words[w].value
                             /\ words'[w].origin = words[w].origin

\* The current revision, the first pending paragraph or the first pending
\* sentence takes its next part, and a new entry starts with none.
RevisionsGrow ==
  \A r \in DOMAIN revisions' :
    \/ r \notin DOMAIN revisions /\ revisions'[r].paragraphs_ordered = <<>>
    \/ /\ r \in DOMAIN revisions
       /\ revisions'[r].paragraphs_ordered = revisions[r].paragraphs_ordered
    \/ /\ r = current_revision /\ pc = "paragraphs"
       /\ Len(ParagraphsFound) < Len(revisions[r].text)
       /\ \E p \in DOMAIN paragraphs' :
            /\ paragraphs'[p].value = PendingValue
            /\ revisions'[r].paragraphs_ordered = Append(ParagraphsFound, p)
ParagraphsGrow ==
  \A p \in DOMAIN paragraphs' :
    \/ p \notin DOMAIN paragraphs /\ paragraphs'[p].sentences_ordered = <<>>
    \/ /\ p \in DOMAIN paragraphs
       /\ paragraphs'[p].sentences_ordered = paragraphs[p].sentences_ordered
    \/ /\ AwaitsSentence(p) /\ pc = "sentences"
       /\ \E s \in DOMAIN sentences' :
            /\ sentences'[s].value = PendingSentenceValue(p)
            /\ paragraphs'[p].sentences_ordered = Append(paragraphs[p].sentences_ordered, s)
SentencesGrow ==
  \A s \in DOMAIN sentences' :
    \/ s \notin DOMAIN sentences /\ sentences'[s].words_ordered = <<>>
    \/ /\ s \in DOMAIN sentences
       /\ sentences'[s].words_ordered = sentences[s].words_ordered
    \/ /\ AwaitsWord(s) /\ pc = "match"
       /\ \E w \in DOMAIN words' :
            /\ words'[w].value = PendingToken(s)
            /\ sentences'[s].words_ordered = Append(sentences[s].words_ordered, w)
Grows == ValuesKept /\ RevisionsGrow /\ ParagraphsGrow /\ SentencesGrow

LEMMA Keeps ==
  ASSUME TypeOK, [Next]_vars
  PROVE  Grows
<1> USE DEF Grows, ValuesKept, RevisionsGrow, ParagraphsGrow, SentencesGrow
<1>1. CASE UNCHANGED arrays
  BY <1>1
<1>2. ASSUME NEW xml \in XmlRevisions, BeginRevision(xml)
      PROVE  Grows
  <2>1. /\ DOMAIN revisions' = 1 .. Len(revisions) + 1 /\ DOMAIN revisions = 1 .. Len(revisions)
        /\ Len(revisions) \in Nat
        /\ \A r \in DOMAIN revisions : revisions'[r] = revisions[r]
        /\ revisions'[Len(revisions) + 1].paragraphs_ordered = <<>>
    BY <1>2, BeginDoes DEF Added
  <2>2. \A r \in DOMAIN revisions' : r \in DOMAIN revisions \/ r = Len(revisions) + 1
    BY <2>1
  <2>3. Len(revisions) + 1 \notin DOMAIN revisions
    BY <2>1
  <2>4. UNCHANGED <<paragraphs, sentences, words>>
    BY <1>2 DEF BeginRevision
  <2>5. RevisionsGrow
    BY <2>1, <2>2, <2>3
  <2>6. ValuesKept
    BY <2>1, <2>4
  <2> QED
    BY <2>4, <2>5, <2>6
<1>3. CASE ReuseParagraph
  <2>1. PICK p \in FoundAgain :
          /\ Len(ParagraphsFound) < Len(revisions[current_revision].text)
          /\ paragraphs[p].value = PendingValue
          /\ StoredParagraph(p)
    BY <1>3, ReuseParagraphDoes
  <2>2. p \in DOMAIN paragraphs
    BY PartsIn, ElementIn DEF FoundAgain, TypeOK
  <2> QED
    BY <1>3, <2>1, <2>2 DEF ReuseParagraph, StoredParagraph
<1>4. CASE NewParagraph
  <2>1. LET p == Len(paragraphs) + 1
        IN /\ Len(ParagraphsFound) < Len(revisions[current_revision].text)
           /\ Len(paragraphs) \in Nat
           /\ DOMAIN paragraphs = 1 .. Len(paragraphs) /\ DOMAIN paragraphs' = 1 .. p
           /\ \A q \in DOMAIN paragraphs : paragraphs'[q] = paragraphs[q]
           /\ paragraphs'[p] = [value |-> PendingValue, sentences_ordered |-> <<>>]
           /\ StoredParagraph(p)
    BY <1>4, NewParagraphDoes DEF Added
  <2>2. \A q \in DOMAIN paragraphs' : q \in DOMAIN paragraphs \/ q = Len(paragraphs) + 1
    BY <2>1
  <2>3. Len(paragraphs) + 1 \in DOMAIN paragraphs' \ DOMAIN paragraphs
    BY <2>1
  <2>4. UNCHANGED <<sentences, words>> /\ pc = "paragraphs"
    BY <1>4 DEF NewParagraph
  <2>5. RevisionsGrow
    BY <2>1, <2>3, <2>4 DEF StoredParagraph
  <2>6. ParagraphsGrow
    BY <2>1, <2>2, <2>3
  <2>7. ValuesKept
    <3>1. current_revision \in DOMAIN revisions
      BY DEF TypeOK
    <3> QED
      BY <2>1, <2>4, <3>1 DEF StoredParagraph
  <2> QED
    BY <2>4, <2>5, <2>6, <2>7
<1>5. CASE ReuseSentence
  <2>1. PICK p, s : /\ AwaitsSentence(p) /\ s \in DOMAIN sentences
                    /\ sentences[s].value = PendingSentenceValue(p)
                    /\ StoredSentence(p, s)
    BY <1>5, ReuseSentenceDoes
  <2> QED
    BY <1>5, <2>1 DEF ReuseSentence, StoredSentence, AwaitsSentence
<1>6. CASE NewSentence
  <2>1. PICK p :
          LET s == Len(sentences) + 1
          IN /\ AwaitsSentence(p)
             /\ Len(sentences) \in Nat
             /\ DOMAIN sentences = 1 .. Len(sentences) /\ DOMAIN sentences' = 1 .. s
             /\ \A q \in DOMAIN sentences : sentences'[q] = sentences[q]
             /\ sentences'[s] = [value |-> PendingSentenceValue(p), words_ordered |-> <<>>]
             /\ StoredSentence(p, s)
    BY <1>6, NewSentenceDoes DEF Added
  <2>2. \A q \in DOMAIN sentences' : q \in DOMAIN sentences \/ q = Len(sentences) + 1
    BY <2>1
  <2>3. Len(sentences) + 1 \in DOMAIN sentences' \ DOMAIN sentences
    BY <2>1
  <2>4. UNCHANGED <<revisions, words>> /\ pc = "sentences"
    BY <1>6 DEF NewSentence
  <2>5. ParagraphsGrow
    <3>1. /\ sentences'[Len(sentences) + 1].value = PendingSentenceValue(p)
          /\ paragraphs'[p].sentences_ordered
               = Append(paragraphs[p].sentences_ordered, Len(sentences) + 1)
      BY <2>1 DEF StoredSentence
    <3>2. \A q \in DOMAIN paragraphs : q # p => paragraphs'[q] = paragraphs[q]
      BY <2>1 DEF StoredSentence
    <3>3. AwaitsSentence(p) /\ DOMAIN paragraphs' = DOMAIN paragraphs
      BY <2>1 DEF StoredSentence
    <3> HIDE DEF AwaitsSentence
    <3> QED
      BY <2>3, <2>4, <3>1, <3>2, <3>3
  <2>6. SentencesGrow
    BY <2>1, <2>2, <2>3
  <2>7. ValuesKept
    BY <2>1, <2>4 DEF StoredSentence, AwaitsSentence
  <2> QED
    BY <2>4, <2>5, <2>6, <2>7
<1>7. CASE KeepWord
  <2>1. PICK s, w : /\ AwaitsWord(s) /\ w \in DOMAIN words
                    /\ words[w].value = PendingToken(s)
                    /\ StoredWord(s, w)
    BY <1>7, KeepWordDoes
  <2> QED
    BY <1>7, <2>1 DEF KeepWord, StoredWord, AwaitsWord
<1>8. CASE DropWord
  BY <1>8, DropWordDoes DEF DropWord
<1>9. CASE AddWord
  <2>1. PICK s : /\ AwaitsWord(s)
                 /\ Added(words, words', NewWord(PendingToken(s)))
                 /\ StoredWord(s, Len(words) + 1)
                 /\ DOMAIN revisions' = DOMAIN revisions
                 /\ \A r \in DOMAIN revisions :
                      /\ revisions'[r].paragraphs_ordered = revisions[r].paragraphs_ordered
                      /\ revisions'[r].text = revisions[r].text
                      /\ revisions'[r].id = revisions[r].id
    BY <1>9, AddWordDoes
  <2>2. /\ \A w \in DOMAIN words : w \in DOMAIN words' /\ words'[w] = words[w]
        /\ Len(words) + 1 \in DOMAIN words'
        /\ words'[Len(words) + 1].value = PendingToken(s)
    BY <2>1 DEF Added, NewWord
  <2> QED
    BY <1>9, <2>1, <2>2 DEF AddWord, StoredWord, AwaitsWord
<1>10. CASE Commit
  BY <1>10, CommitDoes DEF Commit
<1>11. CASE \/ \E xml \in XmlRevisions : SkipDeleted(xml) \/ RejectByContent(xml)
            \/ EndParagraphs \/ EndSentences \/ RejectDense \/ StartDiff \/ EndWords
            \/ Discard \/ EndOfPage \/ Finished \/ UNCHANGED vars
  <2>1. UNCHANGED arrays
    BY <1>11 DEF SkipDeleted, RejectByContent, EndParagraphs, EndSentences, RejectDense,
                 StartDiff, EndWords, Discard, EndOfPage, Finished
  <2> QED
    BY <1>1, <2>1
<1> QED
  BY <1>2, <1>3, <1>4, <1>5, <1>6, <1>7, <1>8, <1>9, <1>10, <1>11 DEF Next

-----------------------------------------------------------------------------
(* The tokens spell the text.  What is published, and what a hash table    *)
(* offers, has all its parts; the revision under way gets the parts of the *)
(* paragraphs it shares by reuse and those of the new ones stage by stage. *)

RevisionsSpelled ==
  \A r \in DOMAIN revisions :
    /\ Len(revisions[r].paragraphs_ordered) <= Len(revisions[r].text)
    /\ \A i \in DOMAIN revisions[r].paragraphs_ordered :
         paragraphs[revisions[r].paragraphs_ordered[i]].value = revisions[r].text[i]
ParagraphsSpelled ==
  \A p \in DOMAIN paragraphs :
    /\ Len(paragraphs[p].sentences_ordered) <= Len(paragraphs[p].value)
    /\ \A j \in DOMAIN paragraphs[p].sentences_ordered :
         sentences[paragraphs[p].sentences_ordered[j]].value = paragraphs[p].value[j]
SentencesSpelled ==
  \A s \in DOMAIN sentences :
    /\ Len(sentences[s].words_ordered) <= Len(sentences[s].value)
    /\ \A k \in DOMAIN sentences[s].words_ordered :
         words[sentences[s].words_ordered[k]].value = sentences[s].value[k]
Spelled == RevisionsSpelled /\ ParagraphsSpelled /\ SentencesSpelled

FullSentence(s) == Len(sentences[s].words_ordered) = Len(sentences[s].value)
Complete(p) == Len(paragraphs[p].sentences_ordered) = Len(paragraphs[p].value)
FullParagraph(p) == Complete(p) /\ \A s \in ParagraphSentences(p) : FullSentence(s)
FullRevision(r) ==
  /\ Len(revisions[r].paragraphs_ordered) = Len(revisions[r].text)
  /\ \A p \in Range(revisions[r].paragraphs_ordered) : FullParagraph(p)

OfferedFull ==
  /\ \A r \in Published : FullRevision(r)
  /\ \A p \in Range(paragraphs_ht) : FullParagraph(p)
  /\ \A s \in Range(sentences_ht) : FullSentence(s)

PrevPublished == revision_prev # None => revision_prev \in Published
CurrentUnpublished == ~Quiescent => current_revision \notin Published

Unmatched(p) == p \in Range(unmatched_paragraphs_curr)
UnmatchedSentence(s) == s \in Range(unmatched_sentences_curr)

Underway ==
  ~Quiescent =>
    /\ \A p : Unmatched(p) => p \in Range(ParagraphsFound)
    /\ \A p \in Range(ParagraphsFound) : Unmatched(p) \/ FullParagraph(p)
    /\ \A s : UnmatchedSentence(s) => \E p : Unmatched(p) /\ s \in ParagraphSentences(p)
    /\ \A p : Unmatched(p) =>
         \A s \in ParagraphSentences(p) : UnmatchedSentence(s) \/ FullSentence(s)
    /\ pc # "paragraphs" => Len(ParagraphsFound) = Len(revisions[current_revision].text)
    /\ pc \notin {"paragraphs", "sentences"} => \A p : Unmatched(p) => Complete(p)
    /\ pc = "commit" => \A s : UnmatchedSentence(s) => FullSentence(s)

TextInv == Spelled /\ OfferedFull /\ PrevPublished /\ CurrentUnpublished /\ Underway

\* Each part is stored at the place whose value it has.
LEMMA SpelledStep ==
  ASSUME TypeOK, TypeOK', Spelled, Grows
  PROVE  Spelled'
<1> USE DEF Spelled, Grows
<1>1. RevisionsSpelled'
  <2> SUFFICES ASSUME NEW r \in DOMAIN revisions'
               PROVE  /\ Len(revisions'[r].paragraphs_ordered) <= Len(revisions'[r].text)
                      /\ \A i \in DOMAIN revisions'[r].paragraphs_ordered :
                           paragraphs'[revisions'[r].paragraphs_ordered[i]].value
                             = revisions'[r].text[i]
    BY DEF RevisionsSpelled
  <2>1. CASE revisions'[r].paragraphs_ordered = <<>>
    <3>1. Len(revisions'[r].text) \in Nat
      <4>1. revisions'[r] \in RevisionType(DOMAIN paragraphs')
        BY ElementIn DEF TypeOK
      <4> QED
        BY <4>1, ElementIn DEF RevisionType
    <3> QED
      BY <2>1, <3>1
  <2>2. ASSUME r \in DOMAIN revisions
        PROVE  /\ Len(revisions[r].paragraphs_ordered) <= Len(revisions[r].text)
               /\ revisions'[r].text = revisions[r].text
               /\ revisions[r].paragraphs_ordered \in Seq(DOMAIN paragraphs)
               /\ \A i \in DOMAIN revisions[r].paragraphs_ordered :
                    /\ revisions[r].paragraphs_ordered[i] \in DOMAIN paragraphs
                    /\ paragraphs'[revisions[r].paragraphs_ordered[i]].value
                         = revisions[r].text[i]
    <3>1. revisions[r].paragraphs_ordered \in Seq(DOMAIN paragraphs)
      BY <2>2, PartsIn DEF RevisionType
    <3> QED
      BY <2>2, <3>1, ElementIn DEF RevisionsSpelled, ValuesKept
  <2>3. CASE /\ r \in DOMAIN revisions
             /\ revisions'[r].paragraphs_ordered = revisions[r].paragraphs_ordered
    BY <2>2, <2>3
  <2>4. CASE /\ r = current_revision
             /\ Len(ParagraphsFound) < Len(revisions[r].text)
             /\ \E p \in DOMAIN paragraphs' :
                  /\ paragraphs'[p].value = PendingValue
                  /\ revisions'[r].paragraphs_ordered = Append(ParagraphsFound, p)
    <3> DEFINE P == revisions[r].paragraphs_ordered
    <3>0. r \in DOMAIN revisions
      BY <2>4 DEF TypeOK
    <3>1. PICK p \in DOMAIN paragraphs' :
            paragraphs'[p].value = PendingValue /\ revisions'[r].paragraphs_ordered = Append(P, p)
      BY <2>4 DEF ParagraphsFound
    <3>2. /\ Len(Append(P, p)) = Len(P) + 1 /\ DOMAIN Append(P, p) = 1 .. Len(P) + 1
          /\ DOMAIN P = 1 .. Len(P) /\ Len(P) \in Nat
          /\ Append(P, p)[Len(P) + 1] = p /\ \A i \in DOMAIN P : Append(P, p)[i] = P[i]
      BY <2>2, <3>0, Appending
    <3>3. PendingValue = revisions[r].text[Len(P) + 1] /\ Len(P) < Len(revisions[r].text)
      BY <2>4 DEF PendingValue, ParagraphsFound
    <3>4. Len(revisions[r].text) \in Nat
      <4>1. revisions[r] \in RevisionType(DOMAIN paragraphs)
        BY <3>0, PartsIn
      <4> QED
        BY <4>1, ElementIn DEF RevisionType
    <3>5. \A i \in 1 .. Len(P) + 1 : i \in DOMAIN P \/ i = Len(P) + 1
      BY <3>2
    <3>6. Len(P) + 1 <= Len(revisions[r].text)
      BY <3>2, <3>3, <3>4
    <3> QED
      BY <2>2, <3>0, <3>1, <3>2, <3>3, <3>5, <3>6
  <2> QED
    BY <2>1, <2>3, <2>4 DEF RevisionsGrow
<1>2. ParagraphsSpelled'
  <2> SUFFICES ASSUME NEW p \in DOMAIN paragraphs'
               PROVE  /\ Len(paragraphs'[p].sentences_ordered) <= Len(paragraphs'[p].value)
                      /\ \A i \in DOMAIN paragraphs'[p].sentences_ordered :
                           sentences'[paragraphs'[p].sentences_ordered[i]].value = paragraphs'[p].value[i]
    BY DEF ParagraphsSpelled
  <2>1. ASSUME p \in DOMAIN paragraphs
        PROVE  /\ paragraphs'[p].value = paragraphs[p].value
               /\ paragraphs[p].sentences_ordered \in Seq(DOMAIN sentences)
               /\ Len(paragraphs[p].sentences_ordered) <= Len(paragraphs[p].value)
               /\ \A i \in DOMAIN paragraphs[p].sentences_ordered :
                    sentences'[paragraphs[p].sentences_ordered[i]].value = paragraphs[p].value[i]
    <3>1. paragraphs[p].sentences_ordered \in Seq(DOMAIN sentences)
      BY <2>1, PartsIn DEF ParagraphType
    <3> QED
      BY <2>1, <3>1, ElementIn DEF ParagraphsSpelled, ValuesKept
  <2>2. Len(paragraphs'[p].value) \in Nat
    <3>1. paragraphs'[p] \in ParagraphType(DOMAIN sentences')
      BY ElementIn DEF TypeOK
    <3> QED
      BY <3>1, ElementIn DEF ParagraphType, Paragraph
  <2>3. CASE paragraphs'[p].sentences_ordered = <<>>
    BY <2>2, <2>3
  <2>4. CASE /\ p \in DOMAIN paragraphs
             /\ paragraphs'[p].sentences_ordered = paragraphs[p].sentences_ordered
    BY <2>1, <2>4
  <2>5. CASE /\ AwaitsSentence(p)
             /\ \E e \in DOMAIN sentences' :
                  /\ sentences'[e].value = PendingSentenceValue(p)
                  /\ paragraphs'[p].sentences_ordered = Append(paragraphs[p].sentences_ordered, e)
    <3> DEFINE P == paragraphs[p].sentences_ordered
    <3>1. PICK e \in DOMAIN sentences' :
            sentences'[e].value = PendingSentenceValue(p) /\ paragraphs'[p].sentences_ordered = Append(P, e)
      BY <2>5
    <3>2. p \in DOMAIN paragraphs /\ Len(P) < Len(paragraphs[p].value)
      BY <2>5 DEF AwaitsSentence
    <3>3. /\ Len(Append(P, e)) = Len(P) + 1 /\ Len(P) \in Nat
          /\ Append(P, e)[Len(P) + 1] = e /\ \A i \in DOMAIN P : Append(P, e)[i] = P[i]
          /\ \A i \in DOMAIN Append(P, e) : i \in DOMAIN P \/ i = Len(P) + 1
      BY <2>1, <3>2, Appending
    <3>4. sentences'[e].value = paragraphs[p].value[Len(P) + 1]
      BY <3>1 DEF PendingSentenceValue
    <3>5. Len(P) + 1 <= Len(paragraphs'[p].value)
      BY <2>1, <2>2, <3>2, <3>3
    <3> QED
      BY <2>1, <3>1, <3>2, <3>3, <3>4, <3>5
  <2> QED
    BY <2>3, <2>4, <2>5 DEF ParagraphsGrow
<1>3. SentencesSpelled'
  <2> SUFFICES ASSUME NEW s \in DOMAIN sentences'
               PROVE  /\ Len(sentences'[s].words_ordered) <= Len(sentences'[s].value)
                      /\ \A i \in DOMAIN sentences'[s].words_ordered :
                           words'[sentences'[s].words_ordered[i]].value = sentences'[s].value[i]
    BY DEF SentencesSpelled
  <2>1. ASSUME s \in DOMAIN sentences
        PROVE  /\ sentences'[s].value = sentences[s].value
               /\ sentences[s].words_ordered \in Seq(DOMAIN words)
               /\ Len(sentences[s].words_ordered) <= Len(sentences[s].value)
               /\ \A i \in DOMAIN sentences[s].words_ordered :
                    words'[sentences[s].words_ordered[i]].value = sentences[s].value[i]
    <3>1. sentences[s].words_ordered \in Seq(DOMAIN words)
      BY <2>1, PartsIn DEF SentenceType
    <3> QED
      BY <2>1, <3>1, ElementIn DEF SentencesSpelled, ValuesKept
  <2>2. Len(sentences'[s].value) \in Nat
    <3>1. sentences'[s] \in SentenceType(DOMAIN words')
      BY ElementIn DEF TypeOK
    <3> QED
      BY <3>1, ElementIn DEF SentenceType, Sentence
  <2>3. CASE sentences'[s].words_ordered = <<>>
    BY <2>2, <2>3
  <2>4. CASE /\ s \in DOMAIN sentences
             /\ sentences'[s].words_ordered = sentences[s].words_ordered
    BY <2>1, <2>4
  <2>5. CASE /\ AwaitsWord(s)
             /\ \E e \in DOMAIN words' :
                  /\ words'[e].value = PendingToken(s)
                  /\ sentences'[s].words_ordered = Append(sentences[s].words_ordered, e)
    <3> DEFINE P == sentences[s].words_ordered
    <3>1. PICK e \in DOMAIN words' :
            words'[e].value = PendingToken(s) /\ sentences'[s].words_ordered = Append(P, e)
      BY <2>5
    <3>2. s \in DOMAIN sentences /\ Len(P) < Len(sentences[s].value)
      BY <2>5 DEF AwaitsWord
    <3>3. /\ Len(Append(P, e)) = Len(P) + 1 /\ Len(P) \in Nat
          /\ Append(P, e)[Len(P) + 1] = e /\ \A i \in DOMAIN P : Append(P, e)[i] = P[i]
          /\ \A i \in DOMAIN Append(P, e) : i \in DOMAIN P \/ i = Len(P) + 1
      BY <2>1, <3>2, Appending
    <3>4. words'[e].value = sentences[s].value[Len(P) + 1]
      BY <3>1 DEF PendingToken
    <3>5. Len(P) + 1 <= Len(sentences'[s].value)
      BY <2>1, <2>2, <3>2, <3>3
    <3> QED
      BY <2>1, <3>1, <3>2, <3>3, <3>4, <3>5
  <2> QED
    BY <2>3, <2>4, <2>5 DEF SentencesGrow
<1> QED
  BY <1>1, <1>2, <1>3

\* An entry that has all its parts is never given another.
LEMMA FullStays ==
  ASSUME TypeOK, TypeOK', Grows
  PROVE  /\ \A s \in DOMAIN sentences :
              FullSentence(s) => FullSentence(s)' /\ SentenceWords(s)' = SentenceWords(s)
         /\ \A p \in DOMAIN paragraphs :
              Complete(p) => /\ Complete(p)'
                             /\ paragraphs'[p].sentences_ordered = paragraphs[p].sentences_ordered
                             /\ ParagraphSentences(p)' = ParagraphSentences(p)
         /\ \A p \in DOMAIN paragraphs :
              FullParagraph(p) => FullParagraph(p)' /\ ParagraphWords(p)' = ParagraphWords(p)
         /\ \A r \in DOMAIN revisions :
              FullRevision(r) =>
                /\ FullRevision(r)'
                /\ revisions'[r].paragraphs_ordered = revisions[r].paragraphs_ordered
<1> USE DEF Grows, ValuesKept
<1>1. ASSUME NEW s \in DOMAIN sentences, FullSentence(s)
      PROVE  FullSentence(s)' /\ SentenceWords(s)' = SentenceWords(s)
  <2>1. Len(sentences[s].value) \in Nat
    <3>1. sentences[s] \in SentenceType(DOMAIN words)
      BY PartsIn
    <3> QED
      BY <3>1, ElementIn DEF SentenceType, Sentence
  <2>2. ~AwaitsWord(s)
    BY <1>1, <2>1 DEF AwaitsWord, FullSentence
  <2>3. sentences'[s].words_ordered = sentences[s].words_ordered
    BY <2>2 DEF SentencesGrow
  <2> QED
    BY <1>1, <2>3 DEF FullSentence, SentenceWords
<1>2. ASSUME NEW p \in DOMAIN paragraphs, Complete(p)
      PROVE  /\ Complete(p)'
             /\ paragraphs'[p].sentences_ordered = paragraphs[p].sentences_ordered
             /\ ParagraphSentences(p)' = ParagraphSentences(p)
  <2>1. Len(paragraphs[p].value) \in Nat
    <3>1. paragraphs[p] \in ParagraphType(DOMAIN sentences)
      BY PartsIn
    <3> QED
      BY <3>1, ElementIn DEF ParagraphType, Paragraph
  <2>2. ~AwaitsSentence(p)
    BY <1>2, <2>1 DEF AwaitsSentence, Complete
  <2>3. paragraphs'[p].sentences_ordered = paragraphs[p].sentences_ordered
    BY <2>2 DEF ParagraphsGrow
  <2> QED
    BY <1>2, <2>3 DEF Complete, ParagraphSentences
<1>3. ASSUME NEW p \in DOMAIN paragraphs, FullParagraph(p)
      PROVE  FullParagraph(p)' /\ ParagraphWords(p)' = ParagraphWords(p)
  <2>1. Complete(p)' /\ ParagraphSentences(p)' = ParagraphSentences(p)
    BY <1>2, <1>3 DEF FullParagraph
  <2>2. \A s \in ParagraphSentences(p) : FullSentence(s)' /\ SentenceWords(s)' = SentenceWords(s)
    BY <1>1, <1>3, PartsIn DEF FullParagraph
  <2> QED
    BY <2>1, <2>2 DEF FullParagraph, ParagraphWords
<1>4. ASSUME NEW r \in DOMAIN revisions, FullRevision(r)
      PROVE  /\ FullRevision(r)'
             /\ revisions'[r].paragraphs_ordered = revisions[r].paragraphs_ordered
  <2>1. revisions[r] \in RevisionType(DOMAIN paragraphs)
    BY PartsIn
  <2>2. Len(revisions[r].text) \in Nat
    BY <2>1, ElementIn DEF RevisionType
  <2>3. revisions'[r].paragraphs_ordered = revisions[r].paragraphs_ordered
    <3>1. ~(r = current_revision /\ Len(ParagraphsFound) < Len(revisions[r].text))
      BY <1>4, <2>2 DEF FullRevision, ParagraphsFound
    <3> QED
      BY <3>1 DEF RevisionsGrow
  <2>4. \A p \in Range(revisions[r].paragraphs_ordered) : p \in DOMAIN paragraphs
    BY <2>1, ElementIn DEF RevisionType
  <2> QED
    BY <1>3, <1>4, <2>3, <2>4 DEF FullRevision
<1> QED
  BY <1>1, <1>2, <1>3, <1>4

\* What the valid revisions are, and when one is added.
LEMMA PublishedStep ==
  ASSUME TypeOK, [Next]_vars
  PROVE  /\ Published \subseteq DOMAIN revisions
         /\ Commit => /\ Published' = Published \cup {current_revision}
                      /\ Range(paragraphs_ht') = Range(paragraphs_ht) \cup Range(unmatched_paragraphs_curr)
                      /\ Range(sentences_ht') = Range(sentences_ht) \cup Range(unmatched_sentences_curr)
         /\ ~Commit => UNCHANGED <<ordered_revisions, paragraphs_ht, sentences_ht>> /\ Published' = Published
<1>1. Published \subseteq DOMAIN revisions
  BY ElementIn DEF TypeOK, Published
<1>2. CASE Commit
  <2>1. Published' = Published \cup {current_revision}
    BY <1>2, RangeOfAppend DEF Commit, Published, TypeOK
  <2> QED
    BY <1>1, <1>2, <2>1, RangeConcatenation DEF Commit, TypeOK
<1>3. CASE ~Commit
  <2>1. UNCHANGED <<ordered_revisions, paragraphs_ht, sentences_ht>>
    BY <1>3 DEF Next, SkipDeleted, RejectByContent, BeginRevision, ReuseParagraph, NewParagraph,
       EndParagraphs, ReuseSentence, NewSentence, EndSentences, RejectDense, StartDiff,
       KeepWord, DropWord, AddWord, EndWords, Discard, EndOfPage, Finished
  <2> QED
    BY <1>1, <1>3, <2>1 DEF Published
<1> QED
  BY <1>2, <1>3

\* Only entries with all their parts are found again.
LEMMA AgainFull ==
  ASSUME TypeOK, OfferedFull, PrevPublished
  PROVE  /\ \A p \in FoundAgain : p \in DOMAIN paragraphs /\ FullParagraph(p)
         /\ \A s \in SentencesAgain : s \in DOMAIN sentences /\ FullSentence(s)
<1>1. \A p \in Range(PrevParagraphs) : p \in DOMAIN paragraphs /\ FullParagraph(p)
  <2>1. CASE revision_prev = None
    BY <2>1 DEF PrevParagraphs, Range
  <2>2. CASE revision_prev # None
    <3>1. FullRevision(revision_prev)
      BY <2>2 DEF PrevPublished, OfferedFull
    <3>2. Range(PrevParagraphs) \subseteq DOMAIN paragraphs
      BY PartsIn, ElementIn
    <3> QED
      BY <2>2, <3>1, <3>2 DEF PrevParagraphs, FullRevision
  <2> QED
    BY <2>1, <2>2
<1>2. \A p \in Range(paragraphs_ht) : p \in DOMAIN paragraphs /\ FullParagraph(p)
  BY ElementIn DEF OfferedFull, TypeOK
<1>3. \A s \in Range(sentences_ht) : s \in DOMAIN sentences /\ FullSentence(s)
  BY ElementIn DEF OfferedFull, TypeOK
<1>4. \A p \in Range(PrevParagraphs) : \A s \in ParagraphSentences(p) :
        s \in DOMAIN sentences /\ FullSentence(s)
  BY <1>1, PartsIn DEF FullParagraph
<1> QED
  BY <1>1, <1>2, <1>3, <1>4 DEF FoundAgain, SentencesAgain

\* The revision compared with is a valid one, the current one is not yet.
LEMMA BaseStep ==
  ASSUME TypeOK, ComparedWithLatestValid, PrevPublished, CurrentUnpublished, [Next]_vars
  PROVE  PrevPublished' /\ CurrentUnpublished'
<1>1. Published \subseteq Published' /\ Published \subseteq DOMAIN revisions
      /\ (~Commit => Published' = Published)
  BY PublishedStep
<1>2. CASE Commit \/ Discard
  BY <1>1, <1>2 DEF Commit, Discard, PrevPublished, CurrentUnpublished
<1>3. ASSUME NEW xml \in XmlRevisions, BeginRevision(xml)
      PROVE  PrevPublished' /\ CurrentUnpublished'
  <2>1. at_least_one => current_revision \in Published
    <3>1. ASSUME at_least_one PROVE LastIs(ordered_revisions, current_revision)
      BY <1>3, <3>1 DEF ComparedWithLatestValid, BeginRevision, ReadRevision
    <3>2. ordered_revisions \in Seq(DOMAIN revisions)
      BY DEF TypeOK
    <3>3. ASSUME at_least_one PROVE Len(ordered_revisions) \in DOMAIN ordered_revisions
      BY <3>1, <3>2, <3>3, ElementIn DEF LastIs
    <3> QED
      BY <3>1, <3>3 DEF LastIs, Published, Range
  <2>2. UNCHANGED Published
    BY <1>3 DEF BeginRevision, Published
  <2>3. current_revision' \notin DOMAIN revisions
    BY <1>3, BeginDoes DEF Added
  <2> QED
    BY <1>1, <1>3, <2>1, <2>2, <2>3 DEF BeginRevision, PrevPublished, CurrentUnpublished
<1>4. CASE ~(Commit \/ Discard \/ \E xml \in XmlRevisions : BeginRevision(xml))
  <2>1. UNCHANGED <<revision_prev, current_revision>> /\ (Quiescent <=> Quiescent')
    BY <1>4 DEF Next, SkipDeleted, RejectByContent, ReadRevision, ReuseParagraph, NewParagraph,
       EndParagraphs, ReuseSentence, NewSentence, EndSentences, RejectDense, StartDiff,
       KeepWord, DropWord, AddWord, EndWords, EndOfPage, Finished
  <2> QED
    BY <1>1, <1>4, <2>1 DEF PrevPublished, CurrentUnpublished
<1> QED
  BY <1>2, <1>3, <1>4

\* At the end of its analysis the revision and what it adds have all their parts.
LEMMA CommitFull ==
  ASSUME TypeOK, Underway, pc = "commit"
  PROVE  /\ FullRevision(current_revision)
         /\ \A p : Unmatched(p) => FullParagraph(p)
         /\ \A s : UnmatchedSentence(s) => FullSentence(s)
  BY DEF Underway, FullRevision, FullParagraph, ParagraphsFound

LEMMA OfferedStep ==
  ASSUME TypeOK, TypeOK', OfferedFull, Underway, Grows, [Next]_vars
  PROVE  OfferedFull'
<1>1. /\ \A s \in DOMAIN sentences : FullSentence(s) => FullSentence(s)'
      /\ \A p \in DOMAIN paragraphs : FullParagraph(p) => FullParagraph(p)'
      /\ \A r \in DOMAIN revisions : FullRevision(r) => FullRevision(r)'
  BY FullStays
<1>2. /\ Published \subseteq DOMAIN revisions
      /\ Range(paragraphs_ht) \subseteq DOMAIN paragraphs
      /\ Range(sentences_ht) \subseteq DOMAIN sentences
      /\ current_revision \in DOMAIN revisions
      /\ \A p : Unmatched(p) => p \in DOMAIN paragraphs
      /\ \A s : UnmatchedSentence(s) => s \in DOMAIN sentences
  BY PublishedStep, ElementIn DEF TypeOK, Unmatched, UnmatchedSentence
<1>3. /\ \A r \in Published' : r \in Published \/ (Commit /\ r = current_revision)
      /\ \A p \in Range(paragraphs_ht') : p \in Range(paragraphs_ht) \/ (Commit /\ Unmatched(p))
      /\ \A s \in Range(sentences_ht') : s \in Range(sentences_ht) \/ (Commit /\ UnmatchedSentence(s))
  BY PublishedStep DEF Unmatched, UnmatchedSentence
<1>4. Commit => /\ FullRevision(current_revision)
                /\ \A p : Unmatched(p) => FullParagraph(p)
                /\ \A s : UnmatchedSentence(s) => FullSentence(s)
  BY CommitFull DEF Commit
<1> QED
  BY <1>1, <1>2, <1>3, <1>4 DEF OfferedFull

\* The paragraphs under way and their sentences exist.
LEMMA UnderwayIn ==
  ASSUME TypeOK
  PROVE  /\ ParagraphsFound \in Seq(DOMAIN paragraphs)
         /\ \A p \in Range(ParagraphsFound) : p \in DOMAIN paragraphs
         /\ \A p : Unmatched(p) => p \in DOMAIN paragraphs
         /\ \A s : UnmatchedSentence(s) => s \in DOMAIN sentences
<1>1. ParagraphsFound \in Seq(DOMAIN paragraphs)
  BY PartsIn DEF TypeOK, ParagraphsFound, RevisionType
<1> QED
  BY <1>1, ElementIn DEF TypeOK, Unmatched, UnmatchedSentence

\* A step of the sentences or the words stage, which leaves the list of
\* paragraphs alone and gives parts to unmatched entries.
LEMMA UnderwayPartsStep ==
  ASSUME TypeOK, TypeOK', OfferedFull, PrevPublished, Underway, Grows,
         \/ ReuseSentence \/ NewSentence \/ KeepWord \/ DropWord \/ AddWord
  PROVE  Underway'
<1>1. /\ \A s \in DOMAIN sentences : FullSentence(s) => FullSentence(s)'
      /\ \A p \in DOMAIN paragraphs : FullParagraph(p) => FullParagraph(p)'
      /\ \A p \in DOMAIN paragraphs : Complete(p) => Complete(p)'
  BY FullStays
<1>2. /\ \A p \in Range(ParagraphsFound) : p \in DOMAIN paragraphs
      /\ \A p : Unmatched(p) => p \in DOMAIN paragraphs
      /\ \A s : UnmatchedSentence(s) => s \in DOMAIN sentences
  BY UnderwayIn
<1>3. UNCHANGED <<pc, current_revision, unmatched_paragraphs_curr>>
      /\ pc \in {"sentences", "match"}
  BY DEF ReuseSentence, NewSentence, KeepWord, DropWord, AddWord
<1>4. /\ ParagraphsFound' = ParagraphsFound
      /\ revisions'[current_revision].text = revisions[current_revision].text
  <2>1. current_revision \in DOMAIN revisions /\ current_revision \in DOMAIN revisions'
    BY <1>3 DEF TypeOK
  <2> QED
    BY <1>3, <2>1 DEF Grows, ValuesKept, RevisionsGrow, ParagraphsFound
<1>5. \A p \in DOMAIN paragraphs : \A s \in ParagraphSentences(p) : s \in DOMAIN sentences
  BY PartsIn
<1>6. ASSUME KeepWord \/ DropWord \/ AddWord
      PROVE  Underway'
  <2>1. UNCHANGED <<paragraphs, unmatched_sentences_curr>> /\ pc = "match"
    BY <1>6 DEF KeepWord, DropWord, AddWord
  <2> QED
    BY <1>1, <1>2, <1>3, <1>4, <1>5, <2>1
       DEF Underway, Unmatched, UnmatchedSentence, ParagraphSentences, Complete
<1>7. ASSUME NEW p, AwaitsSentence(p), NEW s, StoredSentence(p, s), pc = "sentences",
             \A u : UnmatchedSentence(u) => UnmatchedSentence(u)',
             \A u : UnmatchedSentence(u)' => UnmatchedSentence(u) \/ u = s,
             UnmatchedSentence(s)' \/ FullSentence(s)'
      PROVE  Underway'
  <2>1. Unmatched(p) /\ p \in DOMAIN paragraphs
    BY <1>7 DEF AwaitsSentence, Unmatched
  <2>2. /\ ParagraphSentences(p)' = ParagraphSentences(p) \cup {s}
        /\ \A q \in DOMAIN paragraphs : q # p => ParagraphSentences(q)' = ParagraphSentences(q)
    <3>1. paragraphs[p].sentences_ordered \in Seq(DOMAIN sentences)
      BY <2>1, PartsIn DEF ParagraphType
    <3>2. Range(Append(paragraphs[p].sentences_ordered, s))
           = Range(paragraphs[p].sentences_ordered) \cup {s}
      BY <3>1, RangeOfAppend
    <3> QED
      BY <1>7, <3>2 DEF StoredSentence, ParagraphSentences
  <2>3. \A q : Unmatched(q)' <=> Unmatched(q)
    BY <1>3 DEF Unmatched
  <2>4. \A q : Unmatched(q)' => q \in Range(ParagraphsFound')
    BY <1>4, <1>7, <2>3 DEF Underway
  <2>5. \A q \in Range(ParagraphsFound') : Unmatched(q)' \/ FullParagraph(q)'
    BY <1>1, <1>2, <1>4, <1>7, <2>3 DEF Underway
  <2>6. \A u : UnmatchedSentence(u)' => \E q : Unmatched(q)' /\ u \in ParagraphSentences(q)'
    BY <1>2, <1>7, <2>1, <2>2, <2>3 DEF Underway
  <2>7. \A q : Unmatched(q)' =>
          \A u \in ParagraphSentences(q)' : UnmatchedSentence(u)' \/ FullSentence(u)'
    <3> SUFFICES ASSUME NEW q, Unmatched(q), NEW u \in ParagraphSentences(q)'
                 PROVE  UnmatchedSentence(u)' \/ FullSentence(u)'
      BY <2>3
    <3>1. q \in DOMAIN paragraphs
      BY <1>2
    <3>2. u \in ParagraphSentences(q) \/ u = s
      BY <2>2, <3>1
    <3>3. CASE u \in ParagraphSentences(q)
      BY <1>1, <1>5, <1>7, <3>1, <3>3 DEF Underway
    <3>4. CASE u = s
      BY <1>7, <3>4
    <3> QED
      BY <3>2, <3>3, <3>4
  <2> QED
    BY <1>3, <1>4, <1>7, <2>4, <2>5, <2>6, <2>7 DEF Underway
<1>8. CASE ReuseSentence
  <2>1. PICK p, s : /\ AwaitsSentence(p) /\ s \in SentencesAgain /\ StoredSentence(p, s)
    BY <1>8, ReuseSentenceDoes
  <2>2. s \in DOMAIN sentences /\ FullSentence(s)'
    BY <1>1, <2>1, AgainFull
  <2>3. \A u : UnmatchedSentence(u)' <=> UnmatchedSentence(u)
    BY <1>8 DEF ReuseSentence, UnmatchedSentence
  <2> QED
    BY <1>7, <1>8, <2>1, <2>2, <2>3 DEF ReuseSentence
<1>9. CASE NewSentence
  <2>1. PICK p : /\ AwaitsSentence(p)
                 /\ StoredSentence(p, Len(sentences) + 1)
                 /\ Range(unmatched_sentences_curr')
                      = Range(unmatched_sentences_curr) \cup {Len(sentences) + 1}
    BY <1>9, NewSentenceDoes
  <2>2. \A u : UnmatchedSentence(u)' <=> UnmatchedSentence(u) \/ u = Len(sentences) + 1
    BY <2>1 DEF UnmatchedSentence
  <2> QED
    BY <1>7, <1>9, <2>1, <2>2 DEF NewSentence
<1> QED
  BY <1>6, <1>8, <1>9

\* A step of the paragraphs stage.
LEMMA UnderwayParagraphsStep ==
  ASSUME TypeOK, TypeOK', OfferedFull, PrevPublished, Underway, Grows,
         ReuseParagraph \/ NewParagraph
  PROVE  Underway'
<1>1. /\ \A s \in DOMAIN sentences : FullSentence(s) => FullSentence(s)'
      /\ \A p \in DOMAIN paragraphs : FullParagraph(p) => FullParagraph(p)'
  BY FullStays
<1>2. /\ \A p \in Range(ParagraphsFound) : p \in DOMAIN paragraphs
      /\ \A p : Unmatched(p) => p \in DOMAIN paragraphs
  BY UnderwayIn
<1>3. /\ UNCHANGED <<pc, current_revision, sentences, unmatched_sentences_curr>>
      /\ pc = "paragraphs"
  BY DEF ReuseParagraph, NewParagraph
<1>4. \A p \in DOMAIN paragraphs : ParagraphSentences(p)' = ParagraphSentences(p)
  <2>1. \A p \in DOMAIN paragraphs : p \in DOMAIN paragraphs'
    BY DEF Grows, ValuesKept
  <2> QED
    BY <1>3, <2>1 DEF Grows, ParagraphsGrow, ParagraphSentences
<1>5. \A s : UnmatchedSentence(s)' <=> UnmatchedSentence(s)
  BY <1>3 DEF UnmatchedSentence
<1>6. ASSUME NEW p, StoredParagraph(p)
      PROVE  Range(ParagraphsFound') = Range(ParagraphsFound) \cup {p}
  <2>1. Range(Append(ParagraphsFound, p)) = Range(ParagraphsFound) \cup {p}
    BY RangeOfAppend, UnderwayIn
  <2> QED
    BY <1>3, <1>6, <2>1 DEF StoredParagraph, ParagraphsFound
<1>7. CASE ReuseParagraph
  <2>1. PICK p \in FoundAgain : StoredParagraph(p)
    BY <1>7, ReuseParagraphDoes
  <2>2. FullParagraph(p)' /\ Range(ParagraphsFound') = Range(ParagraphsFound) \cup {p}
    BY <1>1, <1>6, <2>1, AgainFull
  <2>3. \A q : Unmatched(q)' <=> Unmatched(q)
    BY <1>7 DEF ReuseParagraph, Unmatched
  <2> QED
    BY <1>1, <1>2, <1>3, <1>4, <1>5, <2>2, <2>3, PartsIn DEF Underway
<1>8. CASE NewParagraph
  <2>1. PICK p :
          /\ StoredParagraph(p)
          /\ Range(unmatched_paragraphs_curr') = Range(unmatched_paragraphs_curr) \cup {p}
          /\ paragraphs'[p].sentences_ordered = <<>>
    BY <1>8, NewParagraphDoes DEF Added
  <2>2. Range(ParagraphsFound') = Range(ParagraphsFound) \cup {p}
    BY <1>6, <2>1
  <2>3. /\ \A q : Unmatched(q)' <=> Unmatched(q) \/ q = p
        /\ ParagraphSentences(p)' = {}
    <3>1. \A q : Unmatched(q)' <=> Unmatched(q) \/ q = p
      BY <2>1 DEF Unmatched
    <3>2. ParagraphSentences(p)' = Range(<<>>)
      BY <2>1 DEF ParagraphSentences
    <3>3. Range(<<>>) = {}
      BY DEF Range
    <3> QED
      BY <3>1, <3>2, <3>3
  <2>4. /\ \A q : Unmatched(q)' => q \in Range(ParagraphsFound')
        /\ \A q \in Range(ParagraphsFound') : Unmatched(q)' \/ FullParagraph(q)'
    BY <1>1, <1>2, <1>3, <2>2, <2>3 DEF Underway
  <2>5. \A s : UnmatchedSentence(s)' => \E q : Unmatched(q)' /\ s \in ParagraphSentences(q)'
    <3>1. \A q : Unmatched(q) => Unmatched(q)' /\ ParagraphSentences(q)' = ParagraphSentences(q)
      BY <1>2, <1>4, <2>3
    <3> QED
      BY <1>3, <1>5, <3>1 DEF Underway
  <2>6. ASSUME NEW q, Unmatched(q)', NEW s \in ParagraphSentences(q)'
        PROVE  UnmatchedSentence(s)' \/ FullSentence(s)'
    <3>1. Unmatched(q) /\ q \in DOMAIN paragraphs /\ s \in ParagraphSentences(q)
      BY <1>2, <1>4, <2>3, <2>6
    <3>2. s \in DOMAIN sentences
      BY <3>1, PartsIn
    <3> QED
      BY <1>1, <1>3, <1>5, <3>1, <3>2 DEF Underway
  <2> QED
    BY <1>3, <2>4, <2>5, <2>6 DEF Underway
<1> QED
  BY <1>7, <1>8

LEMMA UnderwayStep ==
  ASSUME TypeOK, TypeOK', Spelled, OfferedFull, PrevPublished, Underway, Grows, [Next]_vars
  PROVE  Underway'
<1>1. CASE Quiescent'
  BY <1>1 DEF Underway
<1>2. CASE ReuseSentence \/ NewSentence \/ KeepWord \/ DropWord \/ AddWord
  BY <1>2, UnderwayPartsStep
<1>3. CASE ReuseParagraph \/ NewParagraph
  BY <1>3, UnderwayParagraphsStep
<1>4. ASSUME NEW xml \in XmlRevisions, BeginRevision(xml)
      PROVE  Underway'
  <2>1. /\ ParagraphsFound' = <<>> /\ pc' = "paragraphs"
        /\ unmatched_paragraphs_curr' = <<>> /\ unmatched_sentences_curr' = <<>>
    BY <1>4, BeginDoes DEF BeginRevision, ParagraphsFound
  <2> QED
    BY <2>1 DEF Underway, Unmatched, UnmatchedSentence, Range
<1>5. CASE EndParagraphs
  <2>1. /\ Len(ParagraphsFound) = Len(revisions[current_revision].text)
        /\ pc = "paragraphs" /\ pc' \in {"commit", "sentences"}
        /\ pc' = "commit" => unmatched_paragraphs_curr = <<>>
        /\ UNCHANGED <<arrays, current_revision, unmatched_paragraphs_curr,
                       unmatched_sentences_curr>>
    BY <1>5 DEF EndParagraphs
  <2>2. unmatched_paragraphs_curr = <<>> => \A p : ~Unmatched(p)
    BY DEF Unmatched, Range
  <2> QED
    BY <2>1, <2>2 DEF Underway, FullParagraph, FullSentence, Complete, ParagraphSentences,
                      ParagraphsFound, Unmatched, UnmatchedSentence
<1>6. CASE EndSentences
  <2>1. /\ PendingParagraphs = {} /\ pc = "sentences" /\ pc' \in {"commit", "words"}
        /\ pc' = "commit" => unmatched_sentences_curr = <<>>
        /\ UNCHANGED <<arrays, current_revision, unmatched_paragraphs_curr,
                       unmatched_sentences_curr>>
    BY <1>6 DEF EndSentences
  <2>2. unmatched_sentences_curr = <<>> => \A s : ~UnmatchedSentence(s)
    BY DEF UnmatchedSentence, Range
  <2>3. ASSUME NEW p, Unmatched(p)
        PROVE  Complete(p)
    <3>1. p \in DOMAIN paragraphs
      BY <2>3, UnderwayIn
    <3>2. /\ Len(paragraphs[p].sentences_ordered) \in Nat /\ Len(paragraphs[p].value) \in Nat
          /\ Len(paragraphs[p].sentences_ordered) <= Len(paragraphs[p].value)
      <4>1. paragraphs[p] \in ParagraphType(DOMAIN sentences)
        BY <3>1, PartsIn
      <4> QED
        BY <3>1, <4>1, ElementIn DEF ParagraphType, Paragraph, Spelled, ParagraphsSpelled
    <3>3. ~(Len(paragraphs[p].sentences_ordered) < Len(paragraphs[p].value))
      BY <2>1, <2>3 DEF PendingParagraphs, Unmatched
    <3> QED
      BY <3>2, <3>3 DEF Complete
  <2> QED
    BY <2>1, <2>2, <2>3 DEF Underway, FullParagraph, FullSentence, Complete, ParagraphSentences,
                      ParagraphsFound, Unmatched, UnmatchedSentence
<1>7. CASE RejectDense \/ StartDiff
  <2>1. /\ pc = "words" /\ pc' \in {"spam", "match"}
        /\ UNCHANGED <<arrays, current_revision, unmatched_paragraphs_curr,
                       unmatched_sentences_curr>>
    BY <1>7 DEF RejectDense, StartDiff
  <2> QED
    BY <2>1 DEF Underway, FullParagraph, FullSentence, Complete, ParagraphSentences,
                ParagraphsFound, Unmatched, UnmatchedSentence
<1>8. CASE EndWords
  <2>1. /\ PendingSentences = {} /\ pc = "match" /\ pc' = "commit"
        /\ UNCHANGED <<arrays, current_revision, unmatched_paragraphs_curr,
                       unmatched_sentences_curr>>
    BY <1>8 DEF EndWords
  <2>2. ASSUME NEW s, UnmatchedSentence(s)
        PROVE  FullSentence(s)
    <3>1. s \in DOMAIN sentences
      BY <2>2, UnderwayIn
    <3>2. /\ Len(sentences[s].words_ordered) \in Nat /\ Len(sentences[s].value) \in Nat
          /\ Len(sentences[s].words_ordered) <= Len(sentences[s].value)
      <4>1. sentences[s] \in SentenceType(DOMAIN words)
        BY <3>1, PartsIn
      <4> QED
        BY <3>1, <4>1, ElementIn DEF SentenceType, Sentence, Spelled, SentencesSpelled
    <3>3. ~(Len(sentences[s].words_ordered) < Len(sentences[s].value))
      BY <2>1, <2>2 DEF PendingSentences, UnmatchedSentence
    <3> QED
      BY <3>2, <3>3 DEF FullSentence
  <2> QED
    BY <2>1, <2>2 DEF Underway, FullParagraph, FullSentence, Complete, ParagraphSentences,
                      ParagraphsFound, Unmatched, UnmatchedSentence
<1>9. CASE UNCHANGED vars
  BY <1>9 DEF Underway, FullParagraph, FullSentence, Complete, ParagraphSentences,
              ParagraphsFound, Unmatched, UnmatchedSentence
<1>10. CASE \/ \E xml \in XmlRevisions : SkipDeleted(xml) \/ RejectByContent(xml)
            \/ Commit \/ Discard \/ EndOfPage
  <2>1. Quiescent'
    BY <1>10 DEF SkipDeleted, RejectByContent, ReadRevision, Commit, Discard, EndOfPage
  <2> QED
    BY <1>1, <2>1
<1> QED
  BY <1>2, <1>3, <1>4, <1>5, <1>6, <1>7, <1>8, <1>9, <1>10 DEF Next, Finished

\* A sequence is known by its elements.
LEMMA ByElements ==
  ASSUME NEW S, NEW s \in Seq(S)
  PROVE  s = [i \in 1 .. Len(s) |-> s[i]]
  BY ElementIn, SeqDef

LEMMA TextInit == Init => TextInv
<1> SUFFICES ASSUME Init PROVE TextInv
  OBVIOUS
<1>1. /\ revisions = <<Dummy>> /\ paragraphs = <<>> /\ sentences = <<>> /\ pc = "next"
      /\ ordered_revisions = <<>> /\ paragraphs_ht = <<>> /\ sentences_ht = <<>>
      /\ revision_prev = None
  BY DEF Init
<1>2. Published = {}
  BY <1>1 DEF Published, Range
<1>3. Spelled
  BY <1>1 DEF Spelled, RevisionsSpelled, ParagraphsSpelled, SentencesSpelled, Dummy
<1> QED
  BY <1>1, <1>2, <1>3
     DEF TextInv, OfferedFull, PrevPublished, CurrentUnpublished, Underway, Range

LEMMA TextStep ==
  ASSUME TypeOK, TypeOK', ComparedWithLatestValid, TextInv, [Next]_vars
  PROVE  TextInv'
<1> USE DEF TextInv
<1>1. Grows
  BY Keeps
<1>2. Spelled'
  BY <1>1, SpelledStep
<1>3. OfferedFull'
  BY <1>1, OfferedStep
<1>4. PrevPublished' /\ CurrentUnpublished'
  BY BaseStep
<1>5. Underway'
  BY <1>1, UnderwayStep, SMTT(30)
<1> QED
  BY <1>2, <1>3, <1>4, <1>5

\* A revision that has all its parts shows its text.
LEMMA FullRevisionReads ==
  ASSUME TypeOK, Spelled, NEW r \in DOMAIN revisions, FullRevision(r)
  PROVE  TextOf(r) = revisions[r].text
<1> DEFINE P == revisions[r].paragraphs_ordered
           S(i) == paragraphs[P[i]].sentences_ordered
           W(i, j) == sentences[S(i)[j]].words_ordered
           text == revisions[r].text
           TextOfSentence(i, j) == [k \in DOMAIN W(i, j) |-> words[W(i, j)[k]].value]
           TextOfParagraph(i) == [j \in DOMAIN S(i) |-> TextOfSentence(i, j)]
<1>1. revisions[r] \in RevisionType(DOMAIN paragraphs)
  BY PartsIn
<1>2. /\ P \in Seq(DOMAIN paragraphs) /\ text \in Seq(Paragraph) /\ Len(P) = Len(text)
      /\ DOMAIN P = 1 .. Len(text)
  BY <1>1, ElementIn DEF FullRevision, RevisionType
<1>3. ASSUME NEW i \in DOMAIN P
      PROVE  TextOfParagraph(i) = text[i]
  <2>1. P[i] \in DOMAIN paragraphs /\ FullParagraph(P[i]) /\ paragraphs[P[i]].value = text[i]
    BY <1>2, ElementIn DEF FullRevision, Range, Spelled, RevisionsSpelled
  <2>2. paragraphs[P[i]] \in ParagraphType(DOMAIN sentences)
    BY <2>1, PartsIn
  <2>3. /\ S(i) \in Seq(DOMAIN sentences) /\ text[i] \in Seq(Sentence)
        /\ Len(S(i)) = Len(text[i]) /\ DOMAIN S(i) = 1 .. Len(text[i])
    BY <2>1, <2>2, ElementIn DEF FullParagraph, Complete, ParagraphType, Paragraph
  <2>4. ASSUME NEW j \in DOMAIN S(i)
        PROVE  TextOfSentence(i, j) = text[i][j]
    <3>1. /\ S(i)[j] \in DOMAIN sentences /\ FullSentence(S(i)[j])
          /\ sentences[S(i)[j]].value = text[i][j]
      BY <2>1, <2>3, ElementIn
         DEF FullParagraph, ParagraphSentences, Range, Spelled, ParagraphsSpelled
    <3>2. sentences[S(i)[j]] \in SentenceType(DOMAIN words)
      BY <3>1, PartsIn
    <3>3. /\ W(i, j) \in Seq(DOMAIN words) /\ text[i][j] \in Seq(Token)
          /\ DOMAIN W(i, j) = 1 .. Len(text[i][j])
      BY <3>1, <3>2, ElementIn DEF FullSentence, SentenceType, Sentence
    <3>4. \A k \in DOMAIN W(i, j) : words[W(i, j)[k]].value = text[i][j][k]
      BY <3>1 DEF Spelled, SentencesSpelled
    <3>5. text[i][j] = [k \in 1 .. Len(text[i][j]) |-> text[i][j][k]]
      BY <3>3, ByElements
    <3> HIDE DEF W, text
    <3> QED
      BY <3>3, <3>4, <3>5
  <2>5. text[i] = [j \in 1 .. Len(text[i]) |-> text[i][j]]
    BY <2>3, ByElements
  <2> HIDE DEF S, TextOfSentence, text
  <2> QED
    BY <2>3, <2>4, <2>5
<1>4. text = [i \in 1 .. Len(text) |-> text[i]]
  BY <1>2, ByElements
<1>5. [i \in DOMAIN P |-> TextOfParagraph(i)] = text
  <2> HIDE DEF TextOfParagraph, P, text
  <2> QED
    BY <1>2, <1>3, <1>4
<1>6. TextOf(r) = [i \in DOMAIN P |-> TextOfParagraph(i)]
  BY DEF TextOf
<1> QED
  BY <1>5, <1>6

(***************************************************************************)
(* Every valid revision reads as its text, token by token, and stays so:   *)
(* what later revisions reuse of it is never changed, whatever they are.   *)
(***************************************************************************)
THEOREM TextKept == Spec => []RoundTrip
<1>1. Init => TypeOK /\ ComparedWithLatestValid /\ TextInv
  BY InitType, TextInit DEF Init, ComparedWithLatestValid, at_least_one
<1>2. TypeOK /\ ComparedWithLatestValid /\ TextInv /\ [Next]_vars
        => (TypeOK /\ ComparedWithLatestValid /\ TextInv)'
  BY TypeStep, LatestStep, TextStep
<1>3. TypeOK /\ TextInv => RoundTrip
  <2> SUFFICES ASSUME TypeOK, TextInv, NEW r \in Published
               PROVE  TextOf(r) = revisions[r].text
    BY DEF RoundTrip
  <2>1. r \in DOMAIN revisions
    BY ElementIn DEF TypeOK, Published
  <2> QED
    BY <2>1, FullRevisionReads DEF TextInv, OfferedFull
<1> QED
  BY <1>1, <1>2, <1>3, PTL DEF Spec

-----------------------------------------------------------------------------
(* Rejected revisions leave nothing to be found.  The ids are numbers that *)
(* grow from one revision to the next, so that the one being analysed is   *)
(* neither published nor rejected yet.                                     *)

\* What a valid revision shows is settled.
LEMMA ShownStays ==
  ASSUME TypeOK, TypeOK', OfferedFull, Grows
  PROVE  \A r \in Published :
           /\ r \in DOMAIN revisions
           /\ revisions'[r].paragraphs_ordered = revisions[r].paragraphs_ordered
           /\ \A p \in Range(revisions[r].paragraphs_ordered) :
                /\ p \in DOMAIN paragraphs
                /\ ParagraphSentences(p)' = ParagraphSentences(p)
                /\ ParagraphWords(p)' = ParagraphWords(p)
           /\ Shown(r)' = Shown(r)
<1> SUFFICES ASSUME NEW r \in Published
             PROVE  /\ r \in DOMAIN revisions
                    /\ revisions'[r].paragraphs_ordered = revisions[r].paragraphs_ordered
                    /\ \A p \in Range(revisions[r].paragraphs_ordered) :
                         /\ p \in DOMAIN paragraphs
                         /\ ParagraphSentences(p)' = ParagraphSentences(p)
                         /\ ParagraphWords(p)' = ParagraphWords(p)
                    /\ Shown(r)' = Shown(r)
  OBVIOUS
<1>1. r \in DOMAIN revisions /\ FullRevision(r)
  BY ElementIn DEF TypeOK, Published, OfferedFull
<1>2. revisions'[r].paragraphs_ordered = revisions[r].paragraphs_ordered
  BY <1>1, FullStays
<1>3. ASSUME NEW p \in Range(revisions[r].paragraphs_ordered)
      PROVE  /\ p \in DOMAIN paragraphs
             /\ ParagraphSentences(p)' = ParagraphSentences(p)
             /\ ParagraphWords(p)' = ParagraphWords(p)
  <2>1. p \in DOMAIN paragraphs
    BY <1>1, PartsIn, ElementIn DEF RevisionType
  <2>2. FullParagraph(p) /\ Complete(p)
    BY <1>1 DEF FullRevision, FullParagraph
  <2> QED
    BY <2>1, <2>2, FullStays
<1>4. Shown(r)' = Shown(r)
  BY <1>2, <1>3 DEF Shown
<1> QED
  BY <1>1, <1>2, <1>3, <1>4

IdsApart ==
  /\ \A i \in Range(spam_ids) : IF Quiescent THEN i <= seen ELSE i < seen
  /\ \A r \in Published : /\ revisions[r].id \notin Range(spam_ids)
                          /\ IF Quiescent THEN revisions[r].id <= seen
                                          ELSE revisions[r].id < seen
  /\ ~Quiescent => revisions[current_revision].id = seen

FoundInPublished ==
  /\ \A p \in Range(paragraphs_ht) :
       \E r \in Published : p \in Range(revisions[r].paragraphs_ordered)
  /\ \A s \in Range(sentences_ht) :
       \E r \in Published : \E p \in Range(revisions[r].paragraphs_ordered) :
         s \in ParagraphSentences(p)

\* The counter of the revisions read, and the ids rejected.
LEMMA IdsStep ==
  ASSUME TypeOK, TypeOK', IdsApart, Grows, [Next]_vars
  PROVE  IdsApart'
<1>1. /\ Published \subseteq DOMAIN revisions
      /\ Commit => Published' = Published \cup {current_revision}
      /\ ~Commit => Published' = Published
  BY PublishedStep
<1>2. /\ \A r \in DOMAIN revisions : revisions'[r].id = revisions[r].id /\ revisions[r].id \in Nat
      /\ seen \in Nat
  <2>1. seen \in Nat
    BY InputAssumption DEF TypeOK
  <2> QED
    BY <2>1, PartsIn DEF Grows, ValuesKept, RevisionType
<1>3. \A i \in Range(spam_ids) : i \in Nat
  BY ElementIn DEF TypeOK
<1>4. current_revision \in DOMAIN revisions
  BY DEF TypeOK
<1>5. \A i : Range(Append(spam_ids, i)) = Range(spam_ids) \cup {i}
  BY RangeOfAppend DEF TypeOK
<1>6. ASSUME NEW xml \in XmlRevisions, SkipDeleted(xml)
      PROVE  IdsApart'
  <2>1. seen' = seen + 1 /\ UNCHANGED <<pc, spam_ids, revisions, ordered_revisions>> /\ Quiescent
    BY <1>6 DEF SkipDeleted, ReadRevision
  <2> QED
    BY <1>1, <1>2, <1>3, <2>1 DEF IdsApart, Published
<1>7. ASSUME NEW xml \in XmlRevisions, RejectByContent(xml)
      PROVE  IdsApart'
  <2>1. /\ seen' = seen + 1 /\ UNCHANGED <<pc, revisions, ordered_revisions>> /\ Quiescent
        /\ Range(spam_ids') = Range(spam_ids) \cup {seen + 1}
    BY <1>5, <1>7 DEF RejectByContent, ReadRevision
  <2> QED
    BY <1>1, <1>2, <1>3, <2>1 DEF IdsApart, Published
<1>8. ASSUME NEW xml \in XmlRevisions, BeginRevision(xml)
      PROVE  IdsApart'
  <2>1. /\ seen' = seen + 1 /\ UNCHANGED <<spam_ids, ordered_revisions>> /\ Quiescent
        /\ ~Quiescent'
    BY <1>8 DEF BeginRevision, ReadRevision
  <2>2. revisions'[current_revision'].id = seen'
    BY <1>8, BeginDoes
  <2>3. Published' = Published
    BY <2>1 DEF Published
  <2> QED
    BY <1>1, <1>2, <1>3, <2>1, <2>2, <2>3 DEF IdsApart
<1>9. CASE Commit
  <2>1. UNCHANGED <<seen, spam_ids, revisions>> /\ ~Quiescent /\ Quiescent'
    BY <1>9 DEF Commit
  <2> QED
    BY <1>1, <1>2, <1>3, <1>4, <1>9, <2>1 DEF IdsApart
<1>10. CASE Discard
  <2>1. /\ UNCHANGED <<seen, ordered_revisions, revisions>> /\ ~Quiescent /\ Quiescent'
        /\ Range(spam_ids') = Range(spam_ids) \cup {revisions[current_revision].id}
    BY <1>5, <1>10 DEF Discard
  <2>2. Published' = Published
    BY <2>1 DEF Published
  <2> QED
    BY <1>1, <1>2, <1>3, <1>4, <2>1, <2>2 DEF IdsApart
<1>11. CASE \/ ReuseParagraph \/ NewParagraph \/ EndParagraphs \/ ReuseSentence \/ NewSentence
            \/ EndSentences \/ RejectDense \/ StartDiff \/ KeepWord \/ DropWord \/ AddWord
            \/ EndWords \/ EndOfPage \/ Finished \/ UNCHANGED vars
  <2>1. UNCHANGED <<seen, spam_ids, ordered_revisions, current_revision>>
        /\ (Quiescent <=> Quiescent')
    BY <1>11 DEF ReuseParagraph, NewParagraph, EndParagraphs, ReuseSentence, NewSentence,
       EndSentences, RejectDense, StartDiff, KeepWord, DropWord, AddWord, EndWords, EndOfPage,
       Finished
  <2>2. Published' = Published
    BY <2>1 DEF Published
  <2> QED
    BY <1>1, <1>2, <1>3, <1>4, <2>1, <2>2 DEF IdsApart
<1> QED
  BY <1>6, <1>7, <1>8, <1>9, <1>10, <1>11 DEF Next

LEMMA FoundStep ==
  ASSUME TypeOK, TypeOK', TextInv, FoundInPublished, Grows, [Next]_vars
  PROVE  FoundInPublished'
<1> USE DEF TextInv
<1>1. \A r \in Published :
        /\ revisions'[r].paragraphs_ordered = revisions[r].paragraphs_ordered
        /\ \A p \in Range(revisions[r].paragraphs_ordered) :
             ParagraphSentences(p)' = ParagraphSentences(p)
  BY ShownStays
<1>2. CASE ~Commit
  <2>1. UNCHANGED <<Published, paragraphs_ht, sentences_ht>>
    BY <1>2, PublishedStep
  <2> QED
    BY <1>1, <2>1 DEF FoundInPublished
<1>3. CASE Commit
  <2>1. /\ Published' = Published \cup {current_revision}
        /\ Range(paragraphs_ht') = Range(paragraphs_ht) \cup Range(unmatched_paragraphs_curr)
        /\ Range(sentences_ht') = Range(sentences_ht) \cup Range(unmatched_sentences_curr)
    BY <1>3, PublishedStep
  <2>2. UNCHANGED <<revisions, paragraphs>> /\ ~Quiescent
    BY <1>3 DEF Commit
  <2>3. \A p : ParagraphSentences(p)' = ParagraphSentences(p)
    BY <2>2 DEF ParagraphSentences
  <2>4. \A p \in Range(unmatched_paragraphs_curr) :
          p \in Range(revisions[current_revision].paragraphs_ordered)
    BY <2>2 DEF Underway, Unmatched, ParagraphsFound
  <2>5. \A s \in Range(unmatched_sentences_curr) :
          \E p \in Range(revisions[current_revision].paragraphs_ordered) : s \in ParagraphSentences(p)
    BY <2>2, <2>4 DEF Underway, Unmatched, UnmatchedSentence
  <2>6. \A p \in Range(paragraphs_ht') :
          \E r \in Published' : p \in Range(revisions'[r].paragraphs_ordered)
    BY <2>1, <2>2, <2>4 DEF FoundInPublished
  <2>7. \A s \in Range(sentences_ht') :
          \E r \in Published' : \E p \in Range(revisions'[r].paragraphs_ordered) :
            s \in ParagraphSentences(p)
    BY <2>1, <2>2, <2>5 DEF FoundInPublished
  <2> QED
    BY <2>3, <2>6, <2>7 DEF FoundInPublished
<1> QED
  BY <1>2, <1>3

(***************************************************************************)
(* A rejected revision leaves no trace: its id is not published, and only  *)
(* what a valid revision contains can be found again by a later one.       *)
(***************************************************************************)
THEOREM NoTraceOfSpam == Spec => []SpamLeavesNoTrace
<1> DEFINE IInv == TypeOK /\ ComparedWithLatestValid /\ TextInv /\ IdsApart /\ FoundInPublished
<1>1. Init => IInv
  <2> SUFFICES ASSUME Init PROVE IdsApart /\ FoundInPublished
    BY InitType, TextInit DEF Init, ComparedWithLatestValid, at_least_one
  <2> QED
    BY DEF Init, IdsApart, FoundInPublished, Published, Range
<1>2. IInv /\ [Next]_vars => IInv'
  BY TypeStep, LatestStep, Keeps, TextStep, IdsStep, FoundStep
<1>3. IInv => SpamLeavesNoTrace
  BY DEF IdsApart, FoundInPublished, SpamLeavesNoTrace
<1> QED
  BY <1>1, <1>2, <1>3, PTL DEF Spec

-----------------------------------------------------------------------------
(* A revision is credited with the tokens it introduced, and shows them.   *)

Born(r) == {w \in DOMAIN words : words[w].origin = r}

AddsMatch ==
  /\ \A r \in DOMAIN revisions : revisions[r].original_adds = Cardinality(Born(r))
  /\ \A r \in DOMAIN revisions :
       Quiescent \/ r # current_revision =>
         Born(r) \subseteq IF r \in Published THEN Shown(r) ELSE {}
  /\ ~Quiescent =>
       \A w \in Born(current_revision) :
         /\ pc \in {"match", "commit"}
         /\ \E s : UnmatchedSentence(s) /\ w \in SentenceWords(s)

LEMMA BornFinite ==
  ASSUME TypeOK, NEW r
  PROVE  IsFiniteSet(Born(r)) /\ Cardinality(Born(r)) \in Nat
<1>1. DOMAIN words = 1 .. Len(words) /\ Len(words) \in Nat
  BY ElementIn DEF TypeOK
<1>2. IsFiniteSet(1 .. Len(words))
  BY <1>1, FS_Interval
<1>3. IsFiniteSet(Born(r))
  BY <1>1, <1>2, FS_Subset DEF Born
<1> QED
  BY <1>3, FS_CardinalityType

\* At the end of its analysis the revision shows the words it introduced.
LEMMA CommitShows ==
  ASSUME TypeOK, Underway, ~Quiescent
  PROVE  \A s : UnmatchedSentence(s) => SentenceWords(s) \subseteq Shown(current_revision)
<1> SUFFICES ASSUME NEW s, UnmatchedSentence(s)
             PROVE  SentenceWords(s) \subseteq Shown(current_revision)
  OBVIOUS
<1>1. PICK p : p \in Range(ParagraphsFound) /\ s \in ParagraphSentences(p)
  BY DEF Underway
<1> QED
  BY <1>1 DEF Shown, ParagraphWords, ParagraphsFound

LEMMA AddsStep ==
  ASSUME TypeOK, TypeOK', TextInv, AddsMatch, Grows, [Next]_vars
  PROVE  AddsMatch'
<1> USE DEF TextInv
<1>1. \A r \in Published : r \in DOMAIN revisions /\ Shown(r)' = Shown(r)
  BY ShownStays
<1>2. current_revision \in DOMAIN revisions
  BY DEF TypeOK
<1>3. CASE AddWord
  <2>1. PICK s :
          /\ AwaitsWord(s)
          /\ Added(words, words', NewWord(PendingToken(s)))
          /\ StoredWord(s, Len(words) + 1)
          /\ DOMAIN revisions' = DOMAIN revisions
          /\ \A r \in DOMAIN revisions :
               revisions'[r].original_adds =
                 revisions[r].original_adds + (IF r = current_revision THEN 1 ELSE 0)
    BY <1>3, AddWordDoes
  <2>2. /\ pc = "match" /\ UNCHANGED <<pc, current_revision, ordered_revisions,
                                     unmatched_sentences_curr>>
    BY <1>3 DEF AddWord
  <2>3. /\ \A w \in DOMAIN words' : w \in DOMAIN words \/ w = Len(words) + 1
        /\ \A w \in DOMAIN words : w \in DOMAIN words' /\ words'[w] = words[w]
        /\ Len(words) + 1 \in DOMAIN words' \ DOMAIN words
        /\ words'[Len(words) + 1].origin = current_revision
    BY <2>1 DEF Added, NewWord
  <2>4. /\ Born(current_revision)' = Born(current_revision) \cup {Len(words) + 1}
        /\ Len(words) + 1 \notin Born(current_revision)
        /\ \A r : r # current_revision => Born(r)' = Born(r)
    BY <2>2, <2>3 DEF Born
  <2>5. Cardinality(Born(current_revision)') = Cardinality(Born(current_revision)) + 1
    BY <2>4, BornFinite, FS_AddElement
  <2>6. \A r \in DOMAIN revisions : revisions[r].original_adds = Cardinality(Born(r))
                                  /\ Cardinality(Born(r)) \in Nat
    BY BornFinite DEF AddsMatch
  <2>7. \A r \in DOMAIN revisions' : revisions'[r].original_adds = Cardinality(Born(r)')
    <3>1. \A r : r = current_revision => Cardinality(Born(r)') = Cardinality(Born(r)) + 1
      BY <2>2, <2>5
    <3>2. \A r : r # current_revision => Cardinality(Born(r)') = Cardinality(Born(r))
      BY <2>4
    <3> QED
      BY <2>1, <2>6, <3>1, <3>2
  <2>8. Len(words) + 1 \in SentenceWords(s)' /\ UnmatchedSentence(s)
    <3>1. sentences[s].words_ordered \in Seq(DOMAIN words)
      BY <2>1, PartsIn DEF AwaitsWord, SentenceType
    <3>2. Range(Append(sentences[s].words_ordered, Len(words) + 1))
            = Range(sentences[s].words_ordered) \cup {Len(words) + 1}
      BY <3>1, RangeOfAppend
    <3> QED
      BY <2>1, <3>2 DEF StoredWord, SentenceWords, AwaitsWord, UnmatchedSentence
  <2>9. \A u : UnmatchedSentence(u) => UnmatchedSentence(u)' /\ SentenceWords(u) \subseteq SentenceWords(u)'
    <3>1. PartsGrow
      BY <1>3, MatchingGrows
    <3> QED
      BY <2>2, <3>1, UnderwayIn DEF PartsGrow, UnmatchedSentence
  <2>10. \A w \in Born(current_revision)' :
           \E u : UnmatchedSentence(u)' /\ w \in SentenceWords(u)'
    BY <2>2, <2>4, <2>8, <2>9 DEF AddsMatch
  <2>11. Published' = Published
    BY <2>2 DEF Published
  <2>12. \A r \in DOMAIN revisions' :
           r # current_revision => Born(r)' \subseteq IF r \in Published' THEN Shown(r)' ELSE {}
    BY <1>1, <2>1, <2>2, <2>4, <2>11 DEF AddsMatch
  <2> QED
    BY <2>2, <2>7, <2>10, <2>12 DEF AddsMatch
<1>4. CASE ~AddWord
  <2>1. \A r : Born(r)' = Born(r)
    <3>1. DOMAIN words' = DOMAIN words
      BY <1>4, CommitDoes, DropWordDoes DEF Next, SkipDeleted, RejectByContent, BeginRevision,
         ReuseParagraph, NewParagraph, EndParagraphs, ReuseSentence, NewSentence, EndSentences,
         RejectDense, StartDiff, KeepWord, EndWords, Discard, EndOfPage, Finished
    <3> QED
      BY <3>1 DEF Born, Grows, ValuesKept
  <2>2. \A r \in DOMAIN revisions' : revisions'[r].original_adds = Cardinality(Born(r)')
    <3>1. ASSUME NEW xml \in XmlRevisions, BeginRevision(xml), NEW r \in DOMAIN revisions'
          PROVE  revisions'[r].original_adds = Cardinality(Born(r))
      <4>1. CASE r \in DOMAIN revisions
        BY <3>1, <4>1, BeginDoes DEF AddsMatch, Added
      <4>2. CASE r \notin DOMAIN revisions
        <5>1. revisions'[r].original_adds = 0
          <6>1. /\ DOMAIN revisions' = 1 .. Len(revisions) + 1
                /\ DOMAIN revisions = 1 .. Len(revisions) /\ Len(revisions) \in Nat
            BY <3>1, BeginDoes DEF Added
          <6>2. r = Len(revisions) + 1
            BY <4>2, <6>1
          <6> QED
            BY <3>1, <6>2, BeginDoes
        <5>2. Born(r) = {}
          BY <4>2, PartsIn DEF Born, WordType
        <5> QED
          BY <5>1, <5>2, FS_EmptySet
      <4> QED
        BY <4>1, <4>2
    <3>2. ASSUME ~\E xml \in XmlRevisions : BeginRevision(xml)
          PROVE  /\ DOMAIN revisions' = DOMAIN revisions
                 /\ \A r \in DOMAIN revisions :
                      revisions'[r].original_adds = revisions[r].original_adds
      <4>1. CASE ReuseParagraph \/ NewParagraph
        BY <1>2, <4>1, ReuseParagraphDoes, NewParagraphDoes DEF StoredParagraph
      <4>2. CASE ~(ReuseParagraph \/ NewParagraph)
        BY <1>4, <3>2, <4>2 DEF Next, SkipDeleted, RejectByContent, EndParagraphs, ReuseSentence,
           NewSentence, EndSentences, RejectDense, StartDiff, KeepWord, DropWord, EndWords,
           Commit, Discard, EndOfPage, Finished
      <4> QED
        BY <4>1, <4>2
    <3> QED
      BY <2>1, <3>1, <3>2 DEF AddsMatch
  <2>3. ASSUME NEW xml \in XmlRevisions, BeginRevision(xml)
        PROVE  AddsMatch'
    <3>1. /\ Quiescent /\ current_revision' \notin DOMAIN revisions /\ Published' = Published
          /\ \A r \in DOMAIN revisions' : r # current_revision' => r \in DOMAIN revisions
      <4>1. /\ DOMAIN revisions' = 1 .. Len(revisions) + 1 /\ current_revision' = Len(revisions) + 1
            /\ DOMAIN revisions = 1 .. Len(revisions) /\ Len(revisions) \in Nat
        BY <2>3, BeginDoes DEF Added
      <4> QED
        BY <2>3, <4>1 DEF BeginRevision, ReadRevision, Published
    <3>2. Born(current_revision)' = {}
      <4>1. \A r : r \notin DOMAIN revisions => Born(r) = {}
        BY PartsIn DEF Born, WordType
      <4> QED
        BY <2>1, <3>1, <4>1
    <3>3. \A r \in DOMAIN revisions' :
            r # current_revision' => Born(r)' \subseteq IF r \in Published' THEN Shown(r)' ELSE {}
      BY <1>1, <2>1, <3>1 DEF AddsMatch
    <3>4. ~Quiescent'
      BY <2>3 DEF BeginRevision
    <3> QED
      BY <2>2, <3>2, <3>3, <3>4 DEF AddsMatch
  <2>4. CASE Commit
    <3>1. /\ ~Quiescent /\ Quiescent' /\ UNCHANGED <<current_revision, revisions, paragraphs, sentences>>
      BY <2>4 DEF Commit
    <3>2. Published' = Published \cup {current_revision}
      BY <2>4, PublishedStep
    <3>3. Shown(current_revision)' = Shown(current_revision)
      BY <3>1 DEF Shown, ParagraphWords, ParagraphSentences, SentenceWords
    <3>4. Born(current_revision) \subseteq Shown(current_revision)
      BY <3>1, CommitShows DEF AddsMatch
    <3>5. \A r \in DOMAIN revisions' : Born(r)' \subseteq IF r \in Published' THEN Shown(r)' ELSE {}
      BY <1>1, <2>1, <3>1, <3>2, <3>3, <3>4 DEF AddsMatch
    <3> QED
      BY <2>2, <3>1, <3>5 DEF AddsMatch
  <2>5. CASE Discard
    <3>1. /\ pc = "spam" /\ Quiescent' /\ UNCHANGED <<revisions, ordered_revisions>>
      BY <2>5 DEF Discard
    <3>2. Published' = Published
      BY <3>1 DEF Published
    <3>3. Born(current_revision) = {}
      BY <3>1 DEF AddsMatch
    <3>4. \A r \in DOMAIN revisions' : Born(r)' \subseteq IF r \in Published' THEN Shown(r)' ELSE {}
      BY <1>1, <2>1, <3>1, <3>2, <3>3 DEF AddsMatch
    <3> QED
      BY <2>2, <3>1, <3>4 DEF AddsMatch
  <2>6. CASE ~(Commit \/ Discard \/ \E xml \in XmlRevisions : BeginRevision(xml))
    <3>1. /\ UNCHANGED <<current_revision, ordered_revisions>> /\ (Quiescent <=> Quiescent')
          /\ pc \in {"match", "commit"} => pc' \in {"match", "commit"}
      BY <1>4, <2>6 DEF Next, SkipDeleted, RejectByContent, ReadRevision, ReuseParagraph,
         NewParagraph, EndParagraphs, ReuseSentence, NewSentence, EndSentences, RejectDense,
         StartDiff, KeepWord, DropWord, EndWords, EndOfPage, Finished
    <3>2. Published' = Published
      BY <3>1 DEF Published
    <3>3. DOMAIN revisions' = DOMAIN revisions
      <4>1. CASE ReuseParagraph \/ NewParagraph
        BY <4>1, ReuseParagraphDoes, NewParagraphDoes DEF StoredParagraph
      <4>2. CASE ~(ReuseParagraph \/ NewParagraph)
        BY <1>4, <2>6, <4>2 DEF Next, SkipDeleted, RejectByContent, EndParagraphs, ReuseSentence,
           NewSentence, EndSentences, RejectDense, StartDiff, KeepWord, DropWord, EndWords,
           EndOfPage, Finished
      <4> QED
        BY <4>1, <4>2
    <3>4. \A r \in DOMAIN revisions' :
            Quiescent' \/ r # current_revision' =>
              Born(r)' \subseteq IF r \in Published' THEN Shown(r)' ELSE {}
      BY <1>1, <2>1, <3>1, <3>2, <3>3 DEF AddsMatch
    <3>5. ASSUME pc \in {"match", "commit"}
          PROVE  \A s : UnmatchedSentence(s) =>
                   UnmatchedSentence(s)' /\ SentenceWords(s) \subseteq SentenceWords(s)'
      <4>1. KeepWord \/ DropWord \/ EndWords \/ UNCHANGED vars
        BY <1>4, <2>6, <3>5 DEF Next, SkipDeleted, RejectByContent, ReadRevision, BeginRevision,
           ReuseParagraph, NewParagraph, EndParagraphs, ReuseSentence, NewSentence,
           EndSentences, RejectDense, StartDiff, EndOfPage, Finished
      <4>2. PartsGrow
        <5>1. CASE KeepWord \/ DropWord
          BY <5>1, MatchingGrows
        <5>2. CASE EndWords \/ UNCHANGED vars
          BY <5>2 DEF EndWords, PartsGrow, ParagraphSentences, SentenceWords
        <5> QED
          BY <4>1, <5>1, <5>2
      <4>3. unmatched_sentences_curr' = unmatched_sentences_curr
        BY <4>1 DEF KeepWord, DropWord, EndWords
      <4> QED
        BY <4>2, <4>3, UnderwayIn DEF PartsGrow, UnmatchedSentence
    <3>6. ASSUME ~Quiescent', NEW w \in Born(current_revision)'
          PROVE  /\ pc' \in {"match", "commit"}
                 /\ \E s : UnmatchedSentence(s)' /\ w \in SentenceWords(s)'
      <4>1. w \in Born(current_revision) /\ ~Quiescent
        BY <2>1, <3>1, <3>6
      <4> QED
        BY <3>1, <3>5, <4>1 DEF AddsMatch
    <3> QED
      BY <2>2, <3>4, <3>6 DEF AddsMatch
  <2> QED
    BY <2>3, <2>4, <2>5, <2>6
<1> QED
  BY <1>3, <1>4

LEMMA AddsInit == Init => AddsMatch
<1> SUFFICES ASSUME Init PROVE AddsMatch
  OBVIOUS
<1>1. /\ pc = "next" /\ revisions = <<Dummy>> /\ words = <<>>
  BY DEF Init
<1>2. \A r : Born(r) = {}
  BY <1>1 DEF Born
<1>3. \A r \in DOMAIN revisions : revisions[r].original_adds = 0
  BY <1>1 DEF Dummy
<1> QED
  BY <1>1, <1>2, <1>3, FS_EmptySet DEF AddsMatch

(***************************************************************************)
(* Every valid revision is credited with exactly the tokens it introduced, *)
(* all of which it shows, and a rejected one with none: the tokens counted *)
(* while a revision is analysed are the ones it keeps when it is valid.    *)
(***************************************************************************)
THEOREM CreditedTokens == Spec => []AddsCounted
<1> DEFINE IInv == TypeOK /\ ComparedWithLatestValid /\ TextInv /\ AddsMatch
<1>1. Init => IInv
  BY InitType, TextInit, AddsInit DEF Init, ComparedWithLatestValid, at_least_one
<1>2. IInv /\ [Next]_vars => IInv'
  BY TypeStep, LatestStep, Keeps, TextStep, AddsStep
<1>3. IInv => AddsCounted
  BY DEF AddsMatch, AddsCounted, Born
<1> QED
  BY <1>1, <1>2, <1>3, PTL DEF Spec

-----------------------------------------------------------------------------
(* No token is shown twice.  The words of the paragraphs found so far are  *)
(* flagged or introduced by this revision, and what is found again is      *)
(* neither: it was introduced by a valid revision and not flagged yet.     *)

SentenceOnce(s) ==
  \A i, j \in DOMAIN sentences[s].words_ordered :
    sentences[s].words_ordered[i] = sentences[s].words_ordered[j] => i = j
ParagraphOnce(p) ==
  \A i, j \in DOMAIN paragraphs[p].sentences_ordered :
    i # j => SentenceWords(paragraphs[p].sentences_ordered[i])
               \cap SentenceWords(paragraphs[p].sentences_ordered[j]) = {}
RevisionOnce(r) ==
  \A i, j \in DOMAIN revisions[r].paragraphs_ordered :
    i # j => ParagraphWords(revisions[r].paragraphs_ordered[i])
               \cap ParagraphWords(revisions[r].paragraphs_ordered[j]) = {}
WordsOnce ==
  /\ \A s \in DOMAIN sentences : SentenceOnce(s)
  /\ \A p \in DOMAIN paragraphs : ParagraphOnce(p)
  /\ \A r \in DOMAIN revisions : RevisionOnce(r)

\* A new entry is at one place of the revision being analysed, and nowhere else.
NewPlaces ==
  ~Quiescent =>
    /\ \A p : Unmatched(p) =>
         \A r \in DOMAIN revisions :
           p \in Range(revisions[r].paragraphs_ordered) => r = current_revision
    /\ \A p : Unmatched(p) =>
         \A i, j \in DOMAIN ParagraphsFound :
           ParagraphsFound[i] = p /\ ParagraphsFound[j] = p => i = j
    /\ \A s : UnmatchedSentence(s) =>
         \A p, q \in DOMAIN paragraphs :
           \A i \in DOMAIN paragraphs[p].sentences_ordered,
              j \in DOMAIN paragraphs[q].sentences_ordered :
             /\ paragraphs[p].sentences_ordered[i] = s
             /\ paragraphs[q].sentences_ordered[j] = s
             => Unmatched(p) /\ p = q /\ i = j

Taken == matchedW \cup Born(current_revision)
TakenWords ==
  ~Quiescent =>
    /\ \A p \in Range(ParagraphsFound) : ParagraphWords(p) \subseteq Taken
    /\ \A w \in matchedW : words[w].origin \in Published
OriginsPublished ==
  \A r \in Published : \A w \in Shown(r) : words[w].origin \in Published

OnceInv == /\ FoundInPublished /\ WordsOnce /\ NewPlaces /\ TakenWords /\ OriginsPublished

\* What is found again belongs to a valid revision, and so do its words.
LEMMA AgainPublished ==
  ASSUME TypeOK, TextInv, OnceInv, ~Quiescent
  PROVE  /\ \A p \in FoundAgain :
              ~Unmatched(p) /\ \A w \in ParagraphWords(p) : words[w].origin \in Published
         /\ \A s \in SentencesAgain :
              ~UnmatchedSentence(s) /\ \A w \in SentenceWords(s) : words[w].origin \in Published
         /\ \A w \in WordsAgain : words[w].origin \in Published
         /\ \A w \in Born(current_revision) : words[w].origin \notin Published
<1> USE DEF OnceInv, TextInv
<1>1. \A p \in Range(PrevParagraphs) :
        \E r \in Published : p \in Range(revisions[r].paragraphs_ordered)
  <2>1. CASE revision_prev = None
    BY <2>1 DEF PrevParagraphs, Range
  <2>2. CASE revision_prev # None
    BY <2>2 DEF PrevParagraphs, PrevPublished
  <2> QED
    BY <2>1, <2>2
<1>2. \A p \in FoundAgain :
        \E r \in Published : p \in Range(revisions[r].paragraphs_ordered)
  BY <1>1 DEF FoundAgain, FoundInPublished
<1>3. \A s \in SentencesAgain :
        \E r \in Published : \E p \in Range(revisions[r].paragraphs_ordered) :
          s \in ParagraphSentences(p)
  BY <1>1 DEF SentencesAgain, FoundInPublished
<1>4. ASSUME NEW r \in Published, NEW p \in Range(revisions[r].paragraphs_ordered)
      PROVE  /\ ~Unmatched(p) /\ p \in DOMAIN paragraphs
             /\ \A w \in ParagraphWords(p) : words[w].origin \in Published
             /\ \A s \in ParagraphSentences(p) :
                  ~UnmatchedSentence(s) /\ \A w \in SentenceWords(s) : words[w].origin \in Published
  <2>1. r \in DOMAIN revisions
    BY ElementIn DEF TypeOK, Published
  <2>2. p \in DOMAIN paragraphs
    BY <2>1, PartsIn, ElementIn DEF RevisionType
  <2>3. ~Unmatched(p)
    BY <2>1 DEF NewPlaces, CurrentUnpublished
  <2>4. \A w \in ParagraphWords(p) : words[w].origin \in Published
    BY DEF OriginsPublished, Shown
  <2>5. \A s \in ParagraphSentences(p) : \A w \in SentenceWords(s) : words[w].origin \in Published
    BY <2>4 DEF ParagraphWords
  <2>6. \A s \in ParagraphSentences(p) : ~UnmatchedSentence(s)
    <3> SUFFICES ASSUME NEW s \in ParagraphSentences(p), UnmatchedSentence(s)
                 PROVE  FALSE
      OBVIOUS
    <3>1. PICK i \in DOMAIN paragraphs[p].sentences_ordered :
            paragraphs[p].sentences_ordered[i] = s
      BY DEF ParagraphSentences, Range
    <3> QED
      BY <2>2, <2>3, <3>1 DEF NewPlaces
  <2> QED
    BY <2>2, <2>3, <2>4, <2>5, <2>6
<1>5. \A p \in FoundAgain :
        ~Unmatched(p) /\ \A w \in ParagraphWords(p) : words[w].origin \in Published
  BY <1>2, <1>4
<1>6. \A s \in SentencesAgain :
        ~UnmatchedSentence(s) /\ \A w \in SentenceWords(s) : words[w].origin \in Published
  BY <1>3, <1>4
<1>7. \A w \in WordsAgain : words[w].origin \in Published
  BY <1>1, <1>4 DEF WordsAgain
<1> QED
  BY <1>5, <1>6, <1>7 DEF Born, CurrentUnpublished

\* A step that stores no paragraph and no sentence.
LEMMA PlacesUnchanged ==
  ASSUME TypeOK, NewPlaces, ~Quiescent,
         UNCHANGED <<paragraphs, current_revision, unmatched_paragraphs_curr,
                     unmatched_sentences_curr>>,
         DOMAIN revisions' = DOMAIN revisions,
         \A r \in DOMAIN revisions :
           revisions'[r].paragraphs_ordered = revisions[r].paragraphs_ordered
  PROVE  NewPlaces'
<1>1. current_revision \in DOMAIN revisions
  BY DEF TypeOK
<1>2. ParagraphsFound' = ParagraphsFound
  BY <1>1 DEF ParagraphsFound
<1> QED
  BY <1>2 DEF NewPlaces, Unmatched, UnmatchedSentence

\* A sentence that is reused or new gets its place in the paragraph p.
LEMMA PlacesSentence ==
  ASSUME TypeOK, NewPlaces, ~Quiescent, NEW p, NEW s, AwaitsSentence(p), StoredSentence(p, s),
         UNCHANGED <<revisions, current_revision, unmatched_paragraphs_curr>>,
         \A u : UnmatchedSentence(u)' => UnmatchedSentence(u) \/ u = s,
         \/ ~UnmatchedSentence(s)'
         \/ s \notin DOMAIN sentences
  PROVE  NewPlaces'
<1>1. /\ ParagraphsFound' = ParagraphsFound /\ \A q : Unmatched(q)' <=> Unmatched(q)
      /\ Unmatched(p) /\ p \in DOMAIN paragraphs
  BY DEF ParagraphsFound, Unmatched, AwaitsSentence
<1>2. \A u : UnmatchedSentence(u)' =>
        \A q1, q2 \in DOMAIN paragraphs' :
          \A i \in DOMAIN paragraphs'[q1].sentences_ordered,
             j \in DOMAIN paragraphs'[q2].sentences_ordered :
            /\ paragraphs'[q1].sentences_ordered[i] = u
            /\ paragraphs'[q2].sentences_ordered[j] = u
            => Unmatched(q1) /\ q1 = q2 /\ i = j
  <2> DEFINE O == paragraphs[p].sentences_ordered
  <2>1. /\ DOMAIN paragraphs' = DOMAIN paragraphs
        /\ paragraphs'[p].sentences_ordered = Append(O, s)
        /\ \A q \in DOMAIN paragraphs : q # p => paragraphs'[q] = paragraphs[q]
    BY DEF StoredSentence
  <2>2. O \in Seq(DOMAIN sentences)
    BY <1>1, PartsIn DEF ParagraphType
  <2>3. /\ DOMAIN O = 1 .. Len(O) /\ Len(O) \in Nat
        /\ Append(O, s)[Len(O) + 1] = s
        /\ \A i \in DOMAIN O : Append(O, s)[i] = O[i]
        /\ \A i \in DOMAIN Append(O, s) : i \in DOMAIN O \/ i = Len(O) + 1
    BY <2>2, Appending
  <2>4. \A q \in DOMAIN paragraphs : \A i \in DOMAIN paragraphs'[q].sentences_ordered :
          \/ /\ i \in DOMAIN paragraphs[q].sentences_ordered
             /\ paragraphs'[q].sentences_ordered[i] = paragraphs[q].sentences_ordered[i]
          \/ q = p /\ i = Len(O) + 1 /\ paragraphs'[q].sentences_ordered[i] = s
    <3> HIDE DEF O
    <3>1. \A i \in DOMAIN paragraphs'[p].sentences_ordered :
            \/ i \in DOMAIN O /\ paragraphs'[p].sentences_ordered[i] = O[i]
            \/ i = Len(O) + 1 /\ paragraphs'[p].sentences_ordered[i] = s
      BY <2>1, <2>3
    <3> QED
      BY <2>1, <3>1 DEF O
  <2>5. \A q \in DOMAIN paragraphs : \A i \in DOMAIN paragraphs[q].sentences_ordered :
          paragraphs[q].sentences_ordered[i] \in DOMAIN sentences
    BY PartsIn, ElementIn DEF ParagraphType
  <2> SUFFICES ASSUME NEW u, UnmatchedSentence(u)',
                      NEW q1 \in DOMAIN paragraphs', NEW q2 \in DOMAIN paragraphs',
                      NEW i \in DOMAIN paragraphs'[q1].sentences_ordered,
                      NEW j \in DOMAIN paragraphs'[q2].sentences_ordered,
                      paragraphs'[q1].sentences_ordered[i] = u,
                      paragraphs'[q2].sentences_ordered[j] = u
               PROVE  Unmatched(q1) /\ q1 = q2 /\ i = j
    OBVIOUS
  <2>6. CASE u = s
    <3>1. s \notin DOMAIN sentences
      BY <2>6
    <3>2. q1 = p /\ i = Len(O) + 1 /\ q2 = p /\ j = Len(O) + 1
      BY <2>1, <2>4, <2>5, <2>6, <3>1
    <3> QED
      BY <1>1, <3>2
  <2>7. CASE u # s
    <3>1. UnmatchedSentence(u)
      BY <2>7
    <3>2. /\ q1 \in DOMAIN paragraphs /\ q2 \in DOMAIN paragraphs
          /\ i \in DOMAIN paragraphs[q1].sentences_ordered
          /\ j \in DOMAIN paragraphs[q2].sentences_ordered
          /\ paragraphs[q1].sentences_ordered[i] = u
          /\ paragraphs[q2].sentences_ordered[j] = u
      BY <2>1, <2>4, <2>7
    <3> QED
      BY <3>1, <3>2 DEF NewPlaces
  <2> QED
    BY <2>6, <2>7
<1> QED
  BY <1>1, <1>2 DEF NewPlaces

\* A paragraph that is reused or new gets its place in the revision.
LEMMA PlacesParagraph ==
  ASSUME TypeOK, TypeOK', NewPlaces, Grows, pc = "paragraphs", NEW p, StoredParagraph(p),
         UNCHANGED <<pc, sentences, current_revision, unmatched_sentences_curr>>,
         \A q : Unmatched(q)' => Unmatched(q) \/ q = p,
         \A q : Unmatched(q) => Unmatched(q)',
         \/ ~Unmatched(p)'
         \/ p \notin DOMAIN paragraphs
  PROVE  NewPlaces'
<1>1. \A q : Unmatched(q)' =>
        \A r \in DOMAIN revisions' :
          q \in Range(revisions'[r].paragraphs_ordered) => r = current_revision
  <2> SUFFICES ASSUME NEW q, Unmatched(q)', NEW r \in DOMAIN revisions', r # current_revision,
                      q \in Range(revisions'[r].paragraphs_ordered)
               PROVE  FALSE
    OBVIOUS
  <2>1. r \in DOMAIN revisions /\ revisions'[r] = revisions[r]
    BY DEF StoredParagraph
  <2>2. q \in DOMAIN paragraphs
    BY <2>1, PartsIn, ElementIn DEF RevisionType
  <2>3. Unmatched(q)
    BY <2>2
  <2> QED
    BY <2>1, <2>3 DEF NewPlaces
<1>2. \A q : Unmatched(q)' =>
        \A i, j \in DOMAIN ParagraphsFound' :
          ParagraphsFound'[i] = q /\ ParagraphsFound'[j] = q => i = j
  <2> DEFINE F == ParagraphsFound
  <2>1. ParagraphsFound' = Append(F, p)
    BY DEF StoredParagraph, ParagraphsFound
  <2>2. F \in Seq(DOMAIN paragraphs)
    BY UnderwayIn
  <2>3. /\ Append(F, p)[Len(F) + 1] = p
        /\ \A i \in DOMAIN F : Append(F, p)[i] = F[i] /\ F[i] \in DOMAIN paragraphs
        /\ \A i \in DOMAIN Append(F, p) : i \in DOMAIN F \/ i = Len(F) + 1
    BY <2>2, Appending, ElementIn
  <2> HIDE DEF F
  <2> SUFFICES ASSUME NEW i \in DOMAIN Append(F, p), NEW j \in DOMAIN Append(F, p), NEW q,
                      Append(F, p)[i] = q, Append(F, p)[j] = q, Unmatched(q)'
               PROVE  i = j
    BY <2>1
  <2>4. CASE q = p
    <3>1. p \notin DOMAIN paragraphs
      BY <2>4
    <3>2. i = Len(F) + 1 /\ j = Len(F) + 1
      BY <2>3, <2>4, <3>1
    <3> QED
      BY <3>2
  <2>5. CASE q # p
    <3>1. i \in DOMAIN F /\ j \in DOMAIN F /\ F[i] = q /\ F[j] = q /\ Unmatched(q)
      BY <2>3, <2>5
    <3> QED
      BY <3>1 DEF F, NewPlaces
  <2> QED
    BY <2>4, <2>5
<1>3. \A s : UnmatchedSentence(s)' =>
        \A q1, q2 \in DOMAIN paragraphs' :
          \A i \in DOMAIN paragraphs'[q1].sentences_ordered,
             j \in DOMAIN paragraphs'[q2].sentences_ordered :
            /\ paragraphs'[q1].sentences_ordered[i] = s
            /\ paragraphs'[q2].sentences_ordered[j] = s
            => Unmatched(q1)' /\ q1 = q2 /\ i = j
  <2>1. \A s : UnmatchedSentence(s)' => UnmatchedSentence(s)
    BY DEF UnmatchedSentence
  <2>2. \A q \in DOMAIN paragraphs' :
          \/ paragraphs'[q].sentences_ordered = <<>>
          \/ /\ q \in DOMAIN paragraphs
             /\ paragraphs'[q].sentences_ordered = paragraphs[q].sentences_ordered
    BY DEF Grows, ParagraphsGrow
  <2>3. \A q \in DOMAIN paragraphs' : \A i \in DOMAIN paragraphs'[q].sentences_ordered :
          /\ q \in DOMAIN paragraphs
          /\ paragraphs'[q].sentences_ordered = paragraphs[q].sentences_ordered
    BY <2>2
  <2> QED
    BY <2>1, <2>3 DEF NewPlaces
<1> QED
  BY <1>1, <1>2, <1>3 DEF NewPlaces

LEMMA PlacesStep ==
  ASSUME TypeOK, TypeOK', TextInv, OnceInv, Grows, [Next]_vars
  PROVE  NewPlaces'
<1>0. NewPlaces
  BY DEF OnceInv
<1>1. CASE ReuseParagraph
  <2>1. PICK p \in FoundAgain : StoredParagraph(p)
    BY <1>1, ReuseParagraphDoes
  <2>2. pc = "paragraphs" /\ UNCHANGED <<pc, sentences, current_revision,
          unmatched_paragraphs_curr, unmatched_sentences_curr>>
    BY <1>1 DEF ReuseParagraph
  <2>3. ~Unmatched(p)'
    BY <2>2, AgainPublished DEF Unmatched
  <2>4. \A q : Unmatched(q)' <=> Unmatched(q)
    BY <2>2 DEF Unmatched
  <2> QED
    BY <1>0, <2>1, <2>2, <2>3, <2>4, PlacesParagraph
<1>2. CASE NewParagraph
  <2>1. PICK p :
          /\ StoredParagraph(p) /\ p \notin DOMAIN paragraphs
          /\ Range(unmatched_paragraphs_curr') = Range(unmatched_paragraphs_curr) \cup {p}
    <3>1. Len(paragraphs) + 1 \notin DOMAIN paragraphs
      BY <1>2, NewParagraphDoes DEF Added
    <3> QED
      BY <1>2, <3>1, NewParagraphDoes
  <2>2. pc = "paragraphs" /\ UNCHANGED <<pc, sentences, current_revision,
          unmatched_sentences_curr>>
    BY <1>2 DEF NewParagraph
  <2>3. \A q : Unmatched(q)' <=> Unmatched(q) \/ q = p
    BY <2>1 DEF Unmatched
  <2> QED
    BY <1>0, <2>1, <2>2, <2>3, PlacesParagraph
<1>3. CASE ReuseSentence
  <2>1. PICK p, s : AwaitsSentence(p) /\ s \in SentencesAgain /\ StoredSentence(p, s)
    BY <1>3, ReuseSentenceDoes
  <2>2. ~Quiescent /\ UNCHANGED <<revisions, current_revision, unmatched_paragraphs_curr,
                                 unmatched_sentences_curr>>
    BY <1>3 DEF ReuseSentence
  <2>3. ~UnmatchedSentence(s)' /\ \A u : UnmatchedSentence(u)' <=> UnmatchedSentence(u)
    BY <2>1, <2>2, AgainPublished DEF UnmatchedSentence
  <2> QED
    BY <1>0, <2>1, <2>2, <2>3, PlacesSentence
<1>4. CASE NewSentence
  <2>1. PICK p, s :
          /\ AwaitsSentence(p) /\ s \notin DOMAIN sentences /\ StoredSentence(p, s)
          /\ Range(unmatched_sentences_curr') = Range(unmatched_sentences_curr) \cup {s}
    <3>1. Len(sentences) + 1 \notin DOMAIN sentences
      <4>1. DOMAIN sentences = 1 .. Len(sentences) /\ Len(sentences) \in Nat
        BY ElementIn DEF TypeOK
      <4> QED
        BY <4>1
    <3> QED
      BY <1>4, <3>1, NewSentenceDoes
  <2>2. ~Quiescent /\ UNCHANGED <<revisions, current_revision, unmatched_paragraphs_curr>>
    BY <1>4 DEF NewSentence
  <2>3. \A u : UnmatchedSentence(u)' <=> UnmatchedSentence(u) \/ u = s
    BY <2>1 DEF UnmatchedSentence
  <2> QED
    BY <1>0, <2>1, <2>2, <2>3, PlacesSentence
<1>5. CASE AddWord
  <2>1. ~Quiescent /\ UNCHANGED <<paragraphs, current_revision, unmatched_paragraphs_curr,
                                 unmatched_sentences_curr>>
    BY <1>5 DEF AddWord
  <2> QED
    BY <1>0, <1>5, <2>1, AddWordDoes, PlacesUnchanged
<1>6. CASE \/ EndParagraphs \/ EndSentences \/ RejectDense \/ StartDiff \/ KeepWord \/ DropWord
           \/ EndWords \/ (UNCHANGED vars /\ ~Quiescent)
  <2>1. ~Quiescent /\ UNCHANGED <<revisions, paragraphs, current_revision,
                                 unmatched_paragraphs_curr, unmatched_sentences_curr>>
    BY <1>6 DEF EndParagraphs, EndSentences, RejectDense, StartDiff, KeepWord, DropWord, EndWords
  <2> QED
    BY <1>0, <2>1, PlacesUnchanged
<1>7. ASSUME NEW xml \in XmlRevisions, BeginRevision(xml)
      PROVE  NewPlaces'
  <2>1. (\A p : ~Unmatched(p)') /\ (\A s : ~UnmatchedSentence(s)')
    BY <1>7 DEF BeginRevision, Unmatched, UnmatchedSentence, Range
  <2> QED
    BY <2>1 DEF NewPlaces
<1>8. CASE \/ \E xml \in XmlRevisions : SkipDeleted(xml) \/ RejectByContent(xml)
           \/ Commit \/ Discard \/ EndOfPage \/ (UNCHANGED vars /\ Quiescent)
  <2>1. Quiescent'
    BY <1>8 DEF SkipDeleted, RejectByContent, ReadRevision, Commit, Discard, EndOfPage
  <2> QED
    BY <2>1 DEF NewPlaces
<1> QED
  BY <1>1, <1>2, <1>3, <1>4, <1>5, <1>6, <1>7, <1>8 DEF Next, Finished

\* A word that is not taken gets its place in the sentence s.
LEMMA OnceWord ==
  ASSUME TypeOK, TypeOK', TextInv, OnceInv, ~Quiescent,
         NEW s, NEW w, AwaitsWord(s), StoredWord(s, w), w \notin Taken,
         UNCHANGED paragraphs, DOMAIN revisions' = DOMAIN revisions,
         \A r \in DOMAIN revisions :
           revisions'[r].paragraphs_ordered = revisions[r].paragraphs_ordered
  PROVE  /\ WordsOnce'
         /\ SentenceWords(s)' = SentenceWords(s) \cup {w}
         /\ \A t \in DOMAIN sentences : t # s => SentenceWords(t)' = SentenceWords(t)
         /\ \A p \in DOMAIN paragraphs : ParagraphWords(p)' \subseteq ParagraphWords(p) \cup {w}
<1> USE DEF TextInv, OnceInv
<1> DEFINE O == sentences[s].words_ordered
<1>1. /\ s \in DOMAIN sentences /\ UnmatchedSentence(s) /\ O \in Seq(DOMAIN words)
      /\ DOMAIN sentences' = DOMAIN sentences
      /\ \A t \in DOMAIN sentences : t # s => sentences'[t] = sentences[t]
      /\ sentences'[s].words_ordered = Append(O, w)
  BY PartsIn DEF AwaitsWord, UnmatchedSentence, StoredWord, SentenceType
<1>2. /\ SentenceWords(s)' = SentenceWords(s) \cup {w}
      /\ \A t \in DOMAIN sentences : t # s => SentenceWords(t)' = SentenceWords(t)
  <2>1. Range(Append(O, w)) = Range(O) \cup {w}
    BY <1>1, RangeOfAppend
  <2> QED
    BY <1>1, <2>1 DEF SentenceWords
<1>3. \A p \in DOMAIN paragraphs : \A i \in DOMAIN paragraphs[p].sentences_ordered :
        /\ paragraphs[p].sentences_ordered[i] \in ParagraphSentences(p)
        /\ paragraphs[p].sentences_ordered[i] \in DOMAIN sentences
  BY PartsIn, ElementIn DEF ParagraphType, ParagraphSentences, Range
<1>4. /\ \A p : ParagraphSentences(p)' = ParagraphSentences(p)
      /\ \A p \in DOMAIN paragraphs : ParagraphSentences(p) \subseteq DOMAIN sentences
  BY PartsIn DEF ParagraphSentences
<1>5. \A p \in DOMAIN paragraphs :
        s \in ParagraphSentences(p) => Unmatched(p) /\ ParagraphWords(p) \subseteq Taken
  <2> SUFFICES ASSUME NEW p \in DOMAIN paragraphs, s \in ParagraphSentences(p)
               PROVE  Unmatched(p) /\ ParagraphWords(p) \subseteq Taken
    OBVIOUS
  <2>1. PICK i \in DOMAIN paragraphs[p].sentences_ordered :
          paragraphs[p].sentences_ordered[i] = s
    BY DEF ParagraphSentences, Range
  <2>2. Unmatched(p)
    BY <1>1, <2>1 DEF NewPlaces
  <2> QED
    BY <2>2 DEF Underway, TakenWords
<1>6. \A p, q \in DOMAIN paragraphs :
        s \in ParagraphSentences(p) /\ s \in ParagraphSentences(q) => p = q
  BY <1>1 DEF NewPlaces, ParagraphSentences, Range
<1>7. \A p \in DOMAIN paragraphs :
        /\ ParagraphWords(p)' \subseteq ParagraphWords(p) \cup {w}
        /\ s \notin ParagraphSentences(p) => ParagraphWords(p)' = ParagraphWords(p)
  BY <1>2, <1>4 DEF ParagraphWords
<1>8. w \notin SentenceWords(s)
  <2>1. PICK p : Unmatched(p) /\ s \in ParagraphSentences(p)
    BY <1>1 DEF Underway
  <2>2. ParagraphWords(p) \subseteq Taken
    BY <1>5, <2>1, UnderwayIn
  <2> QED
    BY <2>1, <2>2 DEF ParagraphWords
<1>9. \A t \in DOMAIN sentences' : SentenceOnce(t)'
  <2>1. /\ Len(O) + 1 \notin DOMAIN O /\ Append(O, w)[Len(O) + 1] = w
        /\ \A i \in DOMAIN O : Append(O, w)[i] = O[i] /\ O[i] # w
        /\ \A i \in DOMAIN Append(O, w) : i \in DOMAIN O \/ i = Len(O) + 1
    BY <1>1, <1>8, Appending DEF SentenceWords, Range
  <2>2. \A i, j \in DOMAIN O : O[i] = O[j] => i = j
    BY <1>1 DEF WordsOnce, SentenceOnce
  <2> HIDE DEF O
  <2>3. \A i, j \in DOMAIN Append(O, w) : Append(O, w)[i] = Append(O, w)[j] => i = j
    BY <2>1, <2>2
  <2> QED
    BY <1>1, <2>3 DEF WordsOnce, SentenceOnce
<1>10. ASSUME NEW p \in DOMAIN paragraphs
       PROVE  ParagraphOnce(p)'
  <2> DEFINE S == paragraphs[p].sentences_ordered
  <2>1. ASSUME NEW i \in DOMAIN S, NEW j \in DOMAIN S, i # j
        PROVE  SentenceWords(S[i])' \cap SentenceWords(S[j])' = {}
    <3>1. SentenceWords(S[i]) \cap SentenceWords(S[j]) = {}
      BY <2>1 DEF WordsOnce, ParagraphOnce
    <3>2. S[i] \in DOMAIN sentences /\ S[j] \in DOMAIN sentences
          /\ S[i] \in ParagraphSentences(p) /\ S[j] \in ParagraphSentences(p)
      BY <1>3
    <3>3. ~(S[i] = s /\ S[j] = s)
      BY <1>1, <2>1 DEF NewPlaces
    <3>4. S[i] = s => w \notin SentenceWords(S[j])
      BY <1>5, <3>2 DEF ParagraphWords
    <3>5. S[j] = s => w \notin SentenceWords(S[i])
      BY <1>5, <3>2 DEF ParagraphWords
    <3> QED
      BY <1>2, <3>1, <3>2, <3>3, <3>4, <3>5
  <2> QED
    BY <2>1 DEF ParagraphOnce
<1>11. ASSUME NEW r \in DOMAIN revisions
       PROVE  RevisionOnce(r)'
  <2> DEFINE P == revisions[r].paragraphs_ordered
  <2>1. ASSUME NEW i \in DOMAIN P, NEW j \in DOMAIN P, i # j
        PROVE  ParagraphWords(P[i])' \cap ParagraphWords(P[j])' = {}
    <3>1. ParagraphWords(P[i]) \cap ParagraphWords(P[j]) = {}
      BY <2>1 DEF WordsOnce, RevisionOnce
    <3>2. P[i] \in DOMAIN paragraphs /\ P[j] \in DOMAIN paragraphs
          /\ P[i] \in Range(P) /\ P[j] \in Range(P)
      BY PartsIn, ElementIn DEF RevisionType, Range
    <3>3. ASSUME s \in ParagraphSentences(P[i]) \/ s \in ParagraphSentences(P[j])
          PROVE  /\ P = ParagraphsFound
                 /\ ParagraphWords(P[i]) \subseteq Taken /\ ParagraphWords(P[j]) \subseteq Taken
      <4>1. r = current_revision
        BY <1>5, <3>2, <3>3 DEF NewPlaces
      <4> QED
        BY <3>2, <4>1 DEF ParagraphsFound, TakenWords
    <3>4. ~(s \in ParagraphSentences(P[i]) /\ s \in ParagraphSentences(P[j]))
      <4> SUFFICES ASSUME s \in ParagraphSentences(P[i]), s \in ParagraphSentences(P[j])
                   PROVE  FALSE
        OBVIOUS
      <4>1. P[i] = P[j] /\ Unmatched(P[i])
        BY <1>5, <1>6, <3>2
      <4> QED
        BY <2>1, <3>3, <4>1 DEF NewPlaces
    <3> QED
      BY <1>7, <3>1, <3>2, <3>3, <3>4
  <2> QED
    BY <2>1 DEF RevisionOnce
<1> QED
  BY <1>2, <1>7, <1>9, <1>10, <1>11 DEF WordsOnce

\* A sentence none of whose words is taken gets its place in the paragraph p.
LEMMA OnceSentence ==
  ASSUME TypeOK, TypeOK', TextInv, OnceInv, ~Quiescent,
         NEW p, NEW s, AwaitsSentence(p), StoredSentence(p, s),
         UNCHANGED revisions, \A t \in DOMAIN sentences : sentences'[t] = sentences[t],
         SentenceWords(s)' \cap Taken = {},
         \A t \in DOMAIN sentences' : SentenceOnce(t)'
  PROVE  /\ WordsOnce'
         /\ ParagraphWords(p)' = ParagraphWords(p) \cup SentenceWords(s)'
         /\ \A q \in DOMAIN paragraphs : q # p => ParagraphWords(q)' = ParagraphWords(q)
<1> USE DEF TextInv, OnceInv
<1> DEFINE O == paragraphs[p].sentences_ordered
<1>1. /\ p \in DOMAIN paragraphs /\ Unmatched(p) /\ O \in Seq(DOMAIN sentences)
      /\ DOMAIN paragraphs' = DOMAIN paragraphs
      /\ \A q \in DOMAIN paragraphs : q # p => paragraphs'[q] = paragraphs[q]
      /\ paragraphs'[p].sentences_ordered = Append(O, s)
  BY PartsIn DEF AwaitsSentence, Unmatched, StoredSentence, ParagraphType
<1>2. \A t \in DOMAIN sentences : SentenceWords(t)' = SentenceWords(t)
  BY DEF SentenceWords
<1>3. /\ ParagraphSentences(p)' = ParagraphSentences(p) \cup {s}
      /\ \A q \in DOMAIN paragraphs : q # p => ParagraphSentences(q)' = ParagraphSentences(q)
      /\ \A q \in DOMAIN paragraphs : ParagraphSentences(q) \subseteq DOMAIN sentences
  <2>1. Range(Append(O, s)) = Range(O) \cup {s}
    BY <1>1, RangeOfAppend
  <2> QED
    BY <1>1, <2>1, PartsIn DEF ParagraphSentences
<1>4. /\ ParagraphWords(p)' = ParagraphWords(p) \cup SentenceWords(s)'
      /\ \A q \in DOMAIN paragraphs : q # p => ParagraphWords(q)' = ParagraphWords(q)
  BY <1>1, <1>2, <1>3 DEF ParagraphWords
<1>5. ParagraphWords(p) \subseteq Taken
  BY <1>1 DEF Underway, TakenWords
<1>6. ASSUME NEW q \in DOMAIN paragraphs
      PROVE  ParagraphOnce(q)'
  <2>1. \A i \in DOMAIN paragraphs[q].sentences_ordered :
          /\ paragraphs[q].sentences_ordered[i] \in ParagraphSentences(q)
          /\ paragraphs[q].sentences_ordered[i] \in DOMAIN sentences
    BY PartsIn, ElementIn DEF ParagraphType, ParagraphSentences, Range
  <2>2. CASE q # p
    BY <1>1, <1>2, <2>1, <2>2 DEF WordsOnce, ParagraphOnce
  <2>3. CASE q = p
    <3>1. /\ Append(O, s)[Len(O) + 1] = s
          /\ \A i \in DOMAIN O : Append(O, s)[i] = O[i]
          /\ \A i \in DOMAIN Append(O, s) : i \in DOMAIN O \/ i = Len(O) + 1
      BY <1>1, Appending
    <3> DEFINE SW(u) == Range(sentences'[u].words_ordered)
    <3>2. \A i \in DOMAIN O : SW(O[i]) = SentenceWords(O[i])
      BY <2>1, <2>3 DEF SentenceWords
    <3>3. \A i \in DOMAIN O : SentenceWords(O[i]) \cap SW(s) = {}
      <4>1. SW(s) \cap Taken = {}
        BY DEF SentenceWords
      <4> QED
        BY <1>5, <2>1, <2>3, <4>1 DEF ParagraphWords
    <3>4. \A i, j \in DOMAIN O : i # j => SentenceWords(O[i]) \cap SentenceWords(O[j]) = {}
      BY <1>1 DEF WordsOnce, ParagraphOnce
    <3> HIDE DEF O, SW
    <3>5. \A i, j \in DOMAIN Append(O, s) :
            i # j => SW(Append(O, s)[i]) \cap SW(Append(O, s)[j]) = {}
      BY <3>1, <3>2, <3>3, <3>4
    <3> QED
      BY <1>1, <2>3, <3>5 DEF ParagraphOnce, SentenceWords, SW
  <2> QED
    BY <2>2, <2>3
<1>7. ASSUME NEW r \in DOMAIN revisions
      PROVE  RevisionOnce(r)'
  <2> DEFINE P == revisions[r].paragraphs_ordered
  <2>1. ASSUME NEW i \in DOMAIN P, NEW j \in DOMAIN P, i # j
        PROVE  ParagraphWords(P[i])' \cap ParagraphWords(P[j])' = {}
    <3>1. ParagraphWords(P[i]) \cap ParagraphWords(P[j]) = {}
      BY <2>1 DEF WordsOnce, RevisionOnce
    <3>2. P[i] \in DOMAIN paragraphs /\ P[j] \in DOMAIN paragraphs
          /\ P[i] \in Range(P) /\ P[j] \in Range(P)
      BY PartsIn, ElementIn DEF RevisionType, Range
    <3>3. ASSUME P[i] = p \/ P[j] = p
          PROVE  /\ P = ParagraphsFound
                 /\ ParagraphWords(P[i]) \subseteq Taken /\ ParagraphWords(P[j]) \subseteq Taken
      <4>1. r = current_revision
        BY <1>1, <3>2, <3>3 DEF NewPlaces
      <4> QED
        BY <3>2, <4>1 DEF ParagraphsFound, TakenWords
    <3>4. ~(P[i] = p /\ P[j] = p)
      BY <1>1, <2>1, <3>3 DEF NewPlaces
    <3> QED
      BY <1>4, <3>1, <3>2, <3>3, <3>4
  <2> QED
    BY <2>1 DEF RevisionOnce
<1> QED
  BY <1>1, <1>4, <1>6, <1>7 DEF WordsOnce

\* A paragraph none of whose words is taken gets its place in the revision.
LEMMA OnceParagraph ==
  ASSUME TypeOK, TypeOK', TextInv, OnceInv, Grows, ~Quiescent, pc = "paragraphs",
         NEW p, StoredParagraph(p),
         UNCHANGED <<current_revision, sentences>>,
         ParagraphWords(p)' \cap Taken = {}
  PROVE  /\ WordsOnce'
         /\ \A q \in DOMAIN paragraphs : ParagraphWords(q)' = ParagraphWords(q)
         /\ Range(ParagraphsFound') = Range(ParagraphsFound) \cup {p}
<1> USE DEF TextInv, OnceInv
<1> DEFINE F == ParagraphsFound
<1>1. /\ F \in Seq(DOMAIN paragraphs) /\ ParagraphsFound' = Append(F, p)
      /\ DOMAIN revisions' = DOMAIN revisions /\ current_revision \in DOMAIN revisions
      /\ \A r \in DOMAIN revisions : r # current_revision => revisions'[r] = revisions[r]
  BY UnderwayIn DEF StoredParagraph, ParagraphsFound, TypeOK
<1>2. \A q \in DOMAIN paragraphs' :
        \/ paragraphs'[q].sentences_ordered = <<>>
        \/ /\ q \in DOMAIN paragraphs
           /\ paragraphs'[q].sentences_ordered = paragraphs[q].sentences_ordered
  BY DEF Grows, ParagraphsGrow
<1>3. \A q \in DOMAIN paragraphs :
        paragraphs'[q].sentences_ordered = paragraphs[q].sentences_ordered
  BY DEF Grows, ParagraphsGrow, ValuesKept
<1>4. \A q \in DOMAIN paragraphs : ParagraphWords(q)' = ParagraphWords(q)
  BY <1>3 DEF ParagraphWords, ParagraphSentences, SentenceWords
<1> DEFINE PW(q) == UNION {Range(sentences'[u].words_ordered) :
                             u \in Range(paragraphs'[q].sentences_ordered)}
<1>5. \A q \in DOMAIN paragraphs : PW(q) = ParagraphWords(q)
  BY <1>3 DEF ParagraphWords, ParagraphSentences, SentenceWords
<1>6. ASSUME NEW q \in DOMAIN paragraphs'
      PROVE  ParagraphOnce(q)'
  <2>1. CASE paragraphs'[q].sentences_ordered = <<>>
    BY <2>1 DEF ParagraphOnce
  <2>2. CASE /\ q \in DOMAIN paragraphs
             /\ paragraphs'[q].sentences_ordered = paragraphs[q].sentences_ordered
    <3>1. ParagraphOnce(q)
      BY <2>2 DEF WordsOnce
    <3> QED
      BY <2>2, <3>1 DEF ParagraphOnce, SentenceWords
  <2> QED
    BY <1>2, <2>1, <2>2
<1>7. ASSUME NEW r \in DOMAIN revisions, r # current_revision
      PROVE  RevisionOnce(r)'
  <2> DEFINE P == revisions[r].paragraphs_ordered
  <2>1. \A i \in DOMAIN P : P[i] \in DOMAIN paragraphs
    BY PartsIn, ElementIn DEF RevisionType
  <2>2. \A i, j \in DOMAIN P : i # j => ParagraphWords(P[i]) \cap ParagraphWords(P[j]) = {}
    BY DEF WordsOnce, RevisionOnce
  <2>3. revisions'[r].paragraphs_ordered = P
    BY <1>1, <1>7
  <2> HIDE DEF P, PW
  <2>4. \A i, j \in DOMAIN P : i # j => PW(P[i]) \cap PW(P[j]) = {}
    BY <1>5, <2>1, <2>2
  <2> QED
    BY <2>3, <2>4 DEF RevisionOnce, ParagraphWords, ParagraphSentences, SentenceWords, PW
<1>8. RevisionOnce(current_revision)'
  <2>1. /\ Append(F, p)[Len(F) + 1] = p
        /\ \A i \in DOMAIN F : Append(F, p)[i] = F[i]
        /\ \A i \in DOMAIN Append(F, p) : i \in DOMAIN F \/ i = Len(F) + 1
    BY <1>1, Appending
  <2>2. \A i \in DOMAIN F : PW(F[i]) = ParagraphWords(F[i])
    BY <1>1, <1>5, ElementIn
  <2>3. \A i \in DOMAIN F : ParagraphWords(F[i]) \cap PW(p) = {}
    <3>1. PW(p) \cap Taken = {}
      BY DEF ParagraphWords, ParagraphSentences, SentenceWords
    <3>2. \A i \in DOMAIN F : F[i] \in Range(F)
      BY DEF Range
    <3> QED
      BY <3>1, <3>2 DEF TakenWords
  <2>4. \A i, j \in DOMAIN F : i # j => ParagraphWords(F[i]) \cap ParagraphWords(F[j]) = {}
    BY <1>1 DEF WordsOnce, RevisionOnce, ParagraphsFound
  <2> HIDE DEF F, PW
  <2>5. \A i, j \in DOMAIN Append(F, p) :
          i # j => PW(Append(F, p)[i]) \cap PW(Append(F, p)[j]) = {}
    BY <2>1, <2>2, <2>3, <2>4
  <2>6. revisions'[current_revision].paragraphs_ordered = Append(F, p)
    BY <1>1 DEF ParagraphsFound
  <2> QED
    BY <2>5, <2>6 DEF RevisionOnce, ParagraphWords, ParagraphSentences, SentenceWords, PW
<1>9. \A t \in DOMAIN sentences' : SentenceOnce(t)'
  BY DEF WordsOnce, SentenceOnce
<1>10. Range(ParagraphsFound') = Range(ParagraphsFound) \cup {p}
  BY <1>1, RangeOfAppend
<1>11. \A r \in DOMAIN revisions' : RevisionOnce(r)'
  BY <1>1, <1>7, <1>8
<1> QED
  BY <1>4, <1>6, <1>9, <1>10, <1>11 DEF WordsOnce

\* The words taken stay taken while a revision is analysed.
LEMMA TakenStays ==
  ASSUME TypeOK, Grows, UNCHANGED <<current_revision, ordered_revisions>>,
         NEW S, matchedW' = matchedW \cup S,
         \A w \in S : w \in DOMAIN words /\ words[w].origin \in Published,
         \A w \in matchedW : words[w].origin \in Published
  PROVE  /\ Taken \cup S \subseteq Taken'
         /\ \A w \in matchedW' : words'[w].origin \in Published'
<1>1. \A w \in DOMAIN words : w \in DOMAIN words' /\ words'[w].origin = words[w].origin
  BY DEF Grows, ValuesKept
<1>2. matchedW \subseteq DOMAIN words /\ Published' = Published
  BY DEF TypeOK, Published
<1> QED
  BY <1>1, <1>2 DEF Taken, Born

\* Nothing is stored in a paragraph, a sentence or the revision r.
LEMMA OnceKept ==
  ASSUME NEW r, RevisionOnce(r), UNCHANGED <<paragraphs, sentences>>,
         revisions'[r].paragraphs_ordered = revisions[r].paragraphs_ordered
  PROVE  RevisionOnce(r)'
<1> DEFINE P == revisions[r].paragraphs_ordered
           PW(q) == UNION {Range(sentences'[u].words_ordered) :
                             u \in Range(paragraphs'[q].sentences_ordered)}
<1>1. \A q : PW(q) = ParagraphWords(q)
  BY DEF ParagraphWords, ParagraphSentences, SentenceWords
<1>2. \A i, j \in DOMAIN P : i # j => PW(P[i]) \cap PW(P[j]) = {}
  <2> HIDE DEF PW
  <2> QED
    BY <1>1 DEF RevisionOnce
<1>3. revisions'[r].paragraphs_ordered = P
  OBVIOUS
<1> HIDE DEF P
<1> QED
  BY <1>2, <1>3 DEF RevisionOnce, ParagraphWords, ParagraphSentences, SentenceWords

\* The paragraphs stage.
LEMMA OnceReuseParagraph ==
  ASSUME TypeOK, TypeOK', TextInv, OnceInv, Grows, ReuseParagraph
  PROVE  WordsOnce' /\ TakenWords'
<1> USE DEF TextInv, OnceInv
<1>1. PICK p \in FoundAgain :
        /\ ParagraphWords(p) \cap matchedW = {} /\ StoredParagraph(p)
        /\ matchedW' = matchedW \cup ParagraphWords(p)
  BY ReuseParagraphDoes
<1>2. /\ pc = "paragraphs" /\ ~Quiescent
      /\ UNCHANGED <<pc, paragraphs, sentences, words, current_revision, ordered_revisions>>
  BY DEF ReuseParagraph
<1>3. /\ \A w \in ParagraphWords(p) : words[w].origin \in Published
      /\ \A w \in Born(current_revision) : words[w].origin \notin Published
  BY <1>2, AgainPublished
<1>4. ParagraphWords(p)' = ParagraphWords(p)
  BY <1>2 DEF ParagraphWords, ParagraphSentences, SentenceWords
<1>5. ParagraphWords(p) \cap Taken = {}
  BY <1>1, <1>3 DEF Taken
<1>6. /\ WordsOnce'
      /\ \A q \in DOMAIN paragraphs : ParagraphWords(q)' = ParagraphWords(q)
      /\ Range(ParagraphsFound') = Range(ParagraphsFound) \cup {p}
  BY <1>1, <1>2, <1>4, <1>5, OnceParagraph
<1>7. ParagraphWords(p) \subseteq DOMAIN words
  <2>1. matchedW' \subseteq DOMAIN words'
    BY DEF TypeOK
  <2> QED
    BY <1>1, <1>2, <2>1
<1>8. /\ Taken \cup ParagraphWords(p) \subseteq Taken'
      /\ \A w \in matchedW' : words'[w].origin \in Published'
  BY <1>1, <1>2, <1>3, <1>7, TakenStays DEF TakenWords
<1>9. \A q \in Range(ParagraphsFound) : q \in DOMAIN paragraphs /\ ParagraphWords(q) \subseteq Taken
  BY <1>2, UnderwayIn DEF TakenWords
<1> QED
  BY <1>4, <1>6, <1>8, <1>9 DEF TakenWords

LEMMA OnceNewParagraph ==
  ASSUME TypeOK, TypeOK', TextInv, OnceInv, Grows, NewParagraph
  PROVE  WordsOnce' /\ TakenWords'
<1> USE DEF TextInv, OnceInv
<1>1. PICK p : StoredParagraph(p) /\ paragraphs'[p].sentences_ordered = <<>>
  BY NewParagraphDoes DEF Added
<1>2. /\ pc = "paragraphs" /\ ~Quiescent
      /\ UNCHANGED <<pc, sentences, words, current_revision, ordered_revisions, matchedW>>
  BY DEF NewParagraph
<1>3. ParagraphWords(p)' = {}
  BY <1>1 DEF ParagraphWords, ParagraphSentences, Range
<1>4. /\ WordsOnce'
      /\ \A q \in DOMAIN paragraphs : ParagraphWords(q)' = ParagraphWords(q)
      /\ Range(ParagraphsFound') = Range(ParagraphsFound) \cup {p}
  BY <1>1, <1>2, <1>3, OnceParagraph
<1>5. Taken' = Taken /\ Published' = Published
  BY <1>2 DEF Taken, Born, Published
<1>6. \A q \in Range(ParagraphsFound) : q \in DOMAIN paragraphs /\ ParagraphWords(q) \subseteq Taken
  BY <1>2, UnderwayIn DEF TakenWords
<1> QED
  BY <1>2, <1>3, <1>4, <1>5, <1>6 DEF TakenWords

\* The sentences stage.
LEMMA OnceReuseSentence ==
  ASSUME TypeOK, TypeOK', TextInv, OnceInv, Grows, ReuseSentence
  PROVE  WordsOnce' /\ TakenWords'
<1> USE DEF TextInv, OnceInv
<1>1. PICK p, s :
        /\ AwaitsSentence(p) /\ s \in SentencesAgain /\ StoredSentence(p, s)
        /\ SentenceWords(s) \cap matchedW = {}
        /\ matchedW' = matchedW \cup SentenceWords(s)
  BY ReuseSentenceDoes
<1>2. /\ ~Quiescent
      /\ UNCHANGED <<pc, revisions, sentences, words, current_revision, ordered_revisions>>
  BY DEF ReuseSentence
<1>3. /\ \A w \in SentenceWords(s) : words[w].origin \in Published
      /\ \A w \in Born(current_revision) : words[w].origin \notin Published
  BY <1>1, <1>2, AgainPublished
<1>4. SentenceWords(s)' = SentenceWords(s)
  BY <1>2 DEF SentenceWords
<1>5. SentenceWords(s) \cap Taken = {}
  BY <1>1, <1>3 DEF Taken
<1>6. \A t \in DOMAIN sentences' : SentenceOnce(t)'
  BY <1>2 DEF WordsOnce, SentenceOnce
<1>7. /\ WordsOnce'
      /\ ParagraphWords(p)' = ParagraphWords(p) \cup SentenceWords(s)'
      /\ \A q \in DOMAIN paragraphs : q # p => ParagraphWords(q)' = ParagraphWords(q)
  BY <1>1, <1>2, <1>4, <1>5, <1>6, OnceSentence
<1>8. SentenceWords(s) \subseteq DOMAIN words
  <2>1. matchedW' \subseteq DOMAIN words'
    BY DEF TypeOK
  <2> QED
    BY <1>1, <1>2, <2>1
<1>9. /\ Taken \cup SentenceWords(s) \subseteq Taken'
      /\ \A w \in matchedW' : words'[w].origin \in Published'
  BY <1>1, <1>2, <1>3, <1>8, TakenStays DEF TakenWords
<1>10. /\ ParagraphsFound' = ParagraphsFound
       /\ \A q \in Range(ParagraphsFound) :
            q \in DOMAIN paragraphs /\ ParagraphWords(q) \subseteq Taken
  BY <1>2, UnderwayIn DEF TakenWords, ParagraphsFound
<1> QED
  BY <1>4, <1>7, <1>9, <1>10 DEF TakenWords

LEMMA OnceNewSentence ==
  ASSUME TypeOK, TypeOK', TextInv, OnceInv, Grows, NewSentence
  PROVE  WordsOnce' /\ TakenWords'
<1> USE DEF TextInv, OnceInv
<1>1. PICK p, s :
        /\ AwaitsSentence(p) /\ StoredSentence(p, s)
        /\ \A t \in DOMAIN sentences : sentences'[t] = sentences[t]
        /\ \A t \in DOMAIN sentences' : t \in DOMAIN sentences \/ t = s
        /\ sentences'[s].words_ordered = <<>>
  <2>1. PICK p :
          LET s == Len(sentences) + 1
          IN /\ AwaitsSentence(p) /\ StoredSentence(p, s)
             /\ Added(sentences, sentences',
                      [value |-> PendingSentenceValue(p), words_ordered |-> <<>>])
    BY NewSentenceDoes
  <2>2. \A t \in DOMAIN sentences' : t \in DOMAIN sentences \/ t = Len(sentences) + 1
    BY <2>1 DEF Added
  <2> QED
    BY <2>1, <2>2 DEF Added
<1>2. /\ ~Quiescent
      /\ UNCHANGED <<pc, revisions, words, current_revision, ordered_revisions, matchedW>>
  BY DEF NewSentence
<1>3. SentenceWords(s)' = {}
  BY <1>1 DEF SentenceWords, Range
<1>4. \A t \in DOMAIN sentences' : SentenceOnce(t)'
  <2>1. \A t \in DOMAIN sentences : SentenceOnce(t)'
    BY <1>1 DEF WordsOnce, SentenceOnce
  <2>2. SentenceOnce(s)'
    BY <1>1 DEF SentenceOnce
  <2> QED
    BY <1>1, <2>1, <2>2
<1>5. /\ WordsOnce'
      /\ ParagraphWords(p)' = ParagraphWords(p) \cup SentenceWords(s)'
      /\ \A q \in DOMAIN paragraphs : q # p => ParagraphWords(q)' = ParagraphWords(q)
  BY <1>1, <1>2, <1>3, <1>4, OnceSentence
<1>6. Taken' = Taken /\ Published' = Published
  BY <1>2 DEF Taken, Born, Published
<1>7. /\ ParagraphsFound' = ParagraphsFound
      /\ \A q \in Range(ParagraphsFound) :
           q \in DOMAIN paragraphs /\ ParagraphWords(q) \subseteq Taken
  BY <1>2, UnderwayIn DEF TakenWords, ParagraphsFound
<1> QED
  BY <1>2, <1>3, <1>5, <1>6, <1>7 DEF TakenWords

\* The words stage.
LEMMA OnceKeepWord ==
  ASSUME TypeOK, TypeOK', TextInv, OnceInv, Grows, KeepWord
  PROVE  WordsOnce' /\ TakenWords'
<1> USE DEF TextInv, OnceInv
<1>1. PICK s, w :
        /\ AwaitsWord(s) /\ w \in WordsAgain \ matchedW /\ w \in DOMAIN words
        /\ StoredWord(s, w) /\ matchedW' = matchedW \cup {w}
  BY KeepWordDoes
<1>2. /\ ~Quiescent
      /\ UNCHANGED <<pc, revisions, paragraphs, words, current_revision, ordered_revisions>>
  BY DEF KeepWord
<1>3. words[w].origin \in Published /\ w \notin Taken
  BY <1>1, <1>2, AgainPublished DEF Taken
<1>4. /\ WordsOnce'
      /\ \A p \in DOMAIN paragraphs : ParagraphWords(p)' \subseteq ParagraphWords(p) \cup {w}
  BY <1>1, <1>2, <1>3, OnceWord
<1>5. /\ Taken \cup {w} \subseteq Taken'
      /\ \A v \in matchedW' : words'[v].origin \in Published'
  <2>1. \A v \in {w} : v \in DOMAIN words /\ words[v].origin \in Published
    BY <1>1, <1>3
  <2>2. \A v \in matchedW : words[v].origin \in Published
    BY <1>2 DEF TakenWords
  <2> QED
    BY <1>1, <1>2, <2>1, <2>2, TakenStays
<1>6. /\ ParagraphsFound' = ParagraphsFound
      /\ \A q \in Range(ParagraphsFound) :
           q \in DOMAIN paragraphs /\ ParagraphWords(q) \subseteq Taken
  BY <1>2, UnderwayIn DEF TakenWords, ParagraphsFound
<1> QED
  BY <1>4, <1>5, <1>6 DEF TakenWords

LEMMA OnceAddWord ==
  ASSUME TypeOK, TypeOK', TextInv, OnceInv, Grows, AddWord
  PROVE  WordsOnce' /\ TakenWords'
<1> USE DEF TextInv, OnceInv
<1>1. PICK s :
        /\ AwaitsWord(s) /\ Added(words, words', NewWord(PendingToken(s)))
        /\ StoredWord(s, Len(words) + 1)
        /\ DOMAIN revisions' = DOMAIN revisions
        /\ \A r \in DOMAIN revisions :
             revisions'[r].paragraphs_ordered = revisions[r].paragraphs_ordered
  BY AddWordDoes
<1>2. /\ ~Quiescent
      /\ UNCHANGED <<pc, paragraphs, current_revision, ordered_revisions, matchedW>>
  BY DEF AddWord
<1>3. PICK w : /\ w = Len(words) + 1 /\ w \notin DOMAIN words /\ w \in DOMAIN words'
               /\ words'[w].origin = current_revision
  BY <1>1 DEF Added, NewWord
<1>4. w \notin Taken
  BY <1>3 DEF Taken, Born, TypeOK
<1>5. /\ WordsOnce'
      /\ \A p \in DOMAIN paragraphs : ParagraphWords(p)' \subseteq ParagraphWords(p) \cup {w}
  BY <1>1, <1>2, <1>3, <1>4, OnceWord
<1>6. /\ Taken \subseteq Taken'
      /\ \A v \in matchedW' : words'[v].origin \in Published'
  <2>1. \A v \in DOMAIN words : v \in DOMAIN words' /\ words'[v].origin = words[v].origin
    BY DEF Grows, ValuesKept
  <2>2. matchedW \subseteq DOMAIN words /\ Published' = Published
    BY <1>2 DEF TypeOK, Published
  <2> QED
    BY <1>2, <2>1, <2>2 DEF TakenWords, Taken, Born
<1>7. w \in Taken'
  BY <1>2, <1>3 DEF Taken, Born
<1>8. /\ ParagraphsFound' = ParagraphsFound
      /\ \A q \in Range(ParagraphsFound) :
           q \in DOMAIN paragraphs /\ ParagraphWords(q) \subseteq Taken
  <2>1. current_revision \in DOMAIN revisions
    BY DEF TypeOK
  <2> QED
    BY <1>1, <1>2, <2>1, UnderwayIn DEF TakenWords, ParagraphsFound
<1> QED
  BY <1>5, <1>6, <1>7, <1>8 DEF TakenWords

LEMMA OnceStep ==
  ASSUME TypeOK, TypeOK', TextInv, OnceInv, FlagsClear, Grows, [Next]_vars
  PROVE  WordsOnce' /\ TakenWords'
<1> USE DEF TextInv, OnceInv
<1>1. CASE ReuseParagraph \/ NewParagraph
  BY <1>1, OnceReuseParagraph, OnceNewParagraph
<1>2. CASE ReuseSentence \/ NewSentence
  BY <1>2, OnceReuseSentence, OnceNewSentence
<1>3. CASE KeepWord \/ AddWord
  BY <1>3, OnceKeepWord, OnceAddWord
<1>4. ASSUME NEW xml \in XmlRevisions, BeginRevision(xml)
      PROVE  WordsOnce' /\ TakenWords'
  <2>1. /\ UNCHANGED <<paragraphs, sentences>> /\ matchedW' = {}
        /\ ParagraphsFound' = <<>>
        /\ \A r \in DOMAIN revisions' :
             \/ r \in DOMAIN revisions /\ revisions'[r] = revisions[r]
             \/ revisions'[r].paragraphs_ordered = <<>>
    <3>1. /\ \A r \in DOMAIN revisions : revisions'[r] = revisions[r]
          /\ \A r \in DOMAIN revisions' : r \in DOMAIN revisions \/ r = Len(revisions) + 1
          /\ revisions'[Len(revisions) + 1].paragraphs_ordered = <<>>
          /\ current_revision' = Len(revisions) + 1
      BY <1>4, BeginDoes DEF Added
    <3>2. ParagraphsFound' = revisions'[current_revision'].paragraphs_ordered
      BY DEF ParagraphsFound
    <3>3. UNCHANGED <<paragraphs, sentences>> /\ matchedW' = {}
      BY <1>4 DEF BeginRevision, ReadRevision, FlagsClear
    <3> QED
      BY <3>1, <3>2, <3>3
  <2>2. WordsOnce'
    <3>1. \A s \in DOMAIN sentences' : SentenceOnce(s)'
      BY <2>1 DEF WordsOnce, SentenceOnce
    <3>2. \A p \in DOMAIN paragraphs' : ParagraphOnce(p)'
      BY <2>1 DEF WordsOnce, ParagraphOnce, SentenceWords
    <3>3. ASSUME NEW r \in DOMAIN revisions'
          PROVE  RevisionOnce(r)'
      <4>1. CASE revisions'[r].paragraphs_ordered = <<>>
        BY <4>1 DEF RevisionOnce
      <4>2. CASE r \in DOMAIN revisions /\ revisions'[r] = revisions[r]
        <5>1. RevisionOnce(r)
          BY <4>2 DEF WordsOnce
        <5> QED
          BY <2>1, <4>2, <5>1, OnceKept
      <4> QED
        BY <2>1, <4>1, <4>2
    <3> QED
      BY <3>1, <3>2, <3>3 DEF WordsOnce
  <2>3. TakenWords'
    <3>1. Range(ParagraphsFound') = {}
      BY <2>1 DEF Range
    <3> QED
      BY <2>1, <3>1 DEF TakenWords
  <2> QED
    BY <2>2, <2>3
<1>5. CASE UNCHANGED <<revisions, paragraphs, sentences>>
  <2>1. WordsOnce'
    <3>1. \A s \in DOMAIN sentences' : SentenceOnce(s)'
      BY <1>5 DEF WordsOnce, SentenceOnce
    <3>2. \A p \in DOMAIN paragraphs' : ParagraphOnce(p)'
      BY <1>5 DEF WordsOnce, ParagraphOnce, SentenceWords
    <3>3. \A r \in DOMAIN revisions' : RevisionOnce(r)'
      BY <1>5, OnceKept DEF WordsOnce
    <3> QED
      BY <3>1, <3>2, <3>3 DEF WordsOnce
  <2>2. CASE Quiescent'
    BY <2>1, <2>2 DEF TakenWords
  <2>3. CASE DropWord
    <3>1. PICK w : /\ w \in WordsAgain \ matchedW /\ w \in DOMAIN words
                   /\ matchedW' = matchedW \cup {w}
      BY <2>3, DropWordDoes
    <3>2. ~Quiescent /\ UNCHANGED <<current_revision, ordered_revisions>>
      BY <2>3 DEF DropWord
    <3>3. \A v \in {w} : v \in DOMAIN words /\ words[v].origin \in Published
      BY <3>1, <3>2, AgainPublished
    <3>4. \A v \in matchedW : words[v].origin \in Published
      BY <3>2 DEF TakenWords
    <3>5. Taken \subseteq Taken' /\ \A v \in matchedW' : words'[v].origin \in Published'
      BY <3>1, <3>2, <3>3, <3>4, TakenStays
    <3>6. \A p \in Range(ParagraphsFound)' : ParagraphWords(p)' \subseteq Taken
      BY <1>5, <3>2 DEF TakenWords, ParagraphsFound, ParagraphWords, ParagraphSentences, SentenceWords
    <3> QED
      BY <2>1, <3>5, <3>6 DEF TakenWords
  <2>4. CASE /\ ~Quiescent
             /\ UNCHANGED <<words, current_revision, ordered_revisions, matchedW>>
    BY <1>5, <2>1, <2>4 DEF TakenWords, Taken, Born, Published, ParagraphsFound, ParagraphWords,
                            ParagraphSentences, SentenceWords
  <2>5. \/ Quiescent' \/ DropWord
        \/ ReuseParagraph \/ NewParagraph \/ ReuseSentence \/ NewSentence \/ KeepWord \/ AddWord
        \/ \E xml \in XmlRevisions : BeginRevision(xml)
        \/ /\ ~Quiescent
           /\ UNCHANGED <<words, current_revision, ordered_revisions, matchedW>>
    BY DEF Next, SkipDeleted, RejectByContent, ReadRevision, EndParagraphs, EndSentences,
       RejectDense, StartDiff, EndWords, Commit, Discard, EndOfPage, Finished
  <2> QED
    BY <1>1, <1>2, <1>3, <1>4, <2>1, <2>2, <2>3, <2>4, <2>5
<1>6. \/ ReuseParagraph \/ NewParagraph \/ ReuseSentence \/ NewSentence \/ KeepWord \/ AddWord
      \/ \E xml \in XmlRevisions : BeginRevision(xml)
      \/ UNCHANGED <<revisions, paragraphs, sentences>>
  BY DEF Next, SkipDeleted, RejectByContent, EndParagraphs, EndSentences, RejectDense, StartDiff,
     DropWord, EndWords, Commit, Discard, EndOfPage, Finished
<1> QED
  BY <1>1, <1>2, <1>3, <1>4, <1>5, <1>6

\* A revision shows words it introduced or found in valid revisions.
LEMMA OriginsStep ==
  ASSUME TypeOK, TypeOK', TextInv, OnceInv, Grows, [Next]_vars
  PROVE  OriginsPublished'
<1> USE DEF TextInv, OnceInv
<1>1. \A r \in Published : r \in DOMAIN revisions /\ Shown(r)' = Shown(r)
  BY ShownStays
<1>2. \A w \in DOMAIN words : words'[w].origin = words[w].origin
  BY DEF Grows, ValuesKept
<1>3. \A r \in Published : Shown(r) \subseteq DOMAIN words
  <2>1. \A r \in Published : \A p \in Range(revisions[r].paragraphs_ordered) :
          ParagraphWords(p) \subseteq DOMAIN words
    BY ShownStays, PartsIn
  <2> QED
    BY <2>1 DEF Shown
<1>4. CASE Commit
  <2>1. ~Quiescent /\ UNCHANGED <<revisions, paragraphs, sentences, current_revision>>
    BY <1>4 DEF Commit
  <2>2. Published' = Published \cup {current_revision}
    BY <1>4, PublishedStep
  <2>3. Shown(current_revision)' = Shown(current_revision)
    BY <2>1 DEF Shown, ParagraphWords, ParagraphSentences, SentenceWords
  <2>4. Shown(current_revision) \subseteq Taken
    BY <2>1 DEF Shown, TakenWords, ParagraphsFound
  <2>5. Taken \subseteq DOMAIN words
    BY DEF Taken, Born, TypeOK
  <2>6. \A w \in Taken : words[w].origin \in Published \cup {current_revision}
    BY <2>1 DEF Taken, Born, TakenWords
  <2>7. \A w \in Shown(current_revision)' : words'[w].origin \in Published'
    BY <1>2, <2>2, <2>3, <2>4, <2>5, <2>6
  <2>8. \A r \in Published : \A w \in Shown(r)' : words'[w].origin \in Published'
    BY <1>1, <1>2, <1>3, <2>2 DEF OriginsPublished
  <2>9. \A r \in Published' : r \in Published \/ r = current_revision
    BY <2>2
  <2> QED
    BY <2>1, <2>7, <2>8, <2>9 DEF OriginsPublished
<1>5. CASE ~Commit
  <2>1. Published' = Published
    BY <1>5, PublishedStep
  <2> QED
    BY <1>1, <1>2, <1>3, <2>1 DEF OriginsPublished
<1> QED
  BY <1>4, <1>5

\* A revision has as many places as it shows words.
LEMMA PlacesCounted ==
  ASSUME TypeOK, WordsOnce, NEW r \in DOMAIN revisions
  PROVE  Cardinality(Places(r)) = Cardinality(Shown(r))
<1> DEFINE P == revisions[r].paragraphs_ordered
           S(i) == paragraphs[P[i]].sentences_ordered
           W(i, j) == sentences[S(i)[j]].words_ordered
           wordAt == [x \in Places(r) |-> W(x[1], x[2])[x[3]]]
<1>1. \A x : x \in Places(r) <=>
        \E i \in DOMAIN P : \E j \in DOMAIN S(i) : \E k \in DOMAIN W(i, j) : x = <<i, j, k>>
  BY DEF Places
<1>2. \A w : w \in Shown(r) <=>
        \E i \in DOMAIN P : \E j \in DOMAIN S(i) : \E k \in DOMAIN W(i, j) : w = W(i, j)[k]
  <2>1. \A w : w \in Shown(r) <=> \E i \in DOMAIN P : w \in ParagraphWords(P[i])
    <3>1. \A w : w \in Shown(r) <=> \E p \in Range(P) : w \in ParagraphWords(p)
      BY DEF Shown
    <3>2. \A p : p \in Range(P) <=> \E i \in DOMAIN P : p = P[i]
      BY DEF Range
    <3> QED
      BY <3>1, <3>2
  <2>2. \A p, w : w \in ParagraphWords(p) <=>
          \E j \in DOMAIN paragraphs[p].sentences_ordered :
            w \in SentenceWords(paragraphs[p].sentences_ordered[j])
    BY DEF ParagraphWords, ParagraphSentences, Range
  <2>3. \A s, w : w \in SentenceWords(s) <=>
          \E k \in DOMAIN sentences[s].words_ordered : w = sentences[s].words_ordered[k]
    BY DEF SentenceWords, Range
  <2>4. \A i, w : w \in ParagraphWords(P[i]) <=>
          \E j \in DOMAIN S(i) : \E k \in DOMAIN W(i, j) : w = W(i, j)[k]
    BY <2>2, <2>3
  <2> HIDE DEF P, S, W
  <2> TAKE w
  <2>5. ASSUME NEW i \in DOMAIN P
        PROVE  w \in ParagraphWords(P[i])
                 <=> \E j \in DOMAIN S(i) : \E k \in DOMAIN W(i, j) : w = W(i, j)[k]
    BY <2>4
  <2> QED
    BY <2>1, <2>5
<1>3. /\ \A i \in DOMAIN P : P[i] \in DOMAIN paragraphs
      /\ \A i \in DOMAIN P : \A j \in DOMAIN S(i) : S(i)[j] \in DOMAIN sentences
  <2>1. \A i \in DOMAIN P : P[i] \in DOMAIN paragraphs
    BY PartsIn, ElementIn DEF RevisionType
  <2> QED
    BY <2>1, PartsIn, ElementIn DEF ParagraphType
<1>4. ASSUME NEW i \in DOMAIN P, NEW j \in DOMAIN S(i), NEW k \in DOMAIN W(i, j),
             NEW ii \in DOMAIN P, NEW jj \in DOMAIN S(ii), NEW kk \in DOMAIN W(ii, jj),
             W(i, j)[k] = W(ii, jj)[kk]
      PROVE  i = ii /\ j = jj /\ k = kk
  <2>1. /\ W(i, j)[k] \in SentenceWords(S(i)[j])
        /\ W(i, j)[k] \in SentenceWords(S(ii)[jj])
    BY <1>4 DEF SentenceWords, Range
  <2>2. /\ W(i, j)[k] \in ParagraphWords(P[i])
        /\ W(i, j)[k] \in ParagraphWords(P[ii])
    BY <2>1 DEF ParagraphWords, ParagraphSentences, Range
  <2>3. i = ii
    BY <2>2 DEF WordsOnce, RevisionOnce
  <2>4. j = jj
    BY <1>3, <2>1, <2>3 DEF WordsOnce, ParagraphOnce
  <2>5. k = kk
    BY <1>3, <1>4, <2>3, <2>4 DEF WordsOnce, SentenceOnce
  <2> QED
    BY <2>3, <2>4, <2>5, SMTT(30)
<1> HIDE DEF P, S, W
<1>5. \A x \in Places(r) : \E i \in DOMAIN P : \E j \in DOMAIN S(i) : \E k \in DOMAIN W(i, j) :
        x = <<i, j, k>> /\ wordAt[x] = W(i, j)[k]
  BY <1>1
<1>6. wordAt \in [Places(r) -> Shown(r)]
  <2>1. \A x \in Places(r) : wordAt[x] \in Shown(r)
    BY <1>2, <1>5
  <2> QED
    BY <2>1
<1>7. \A x, y \in Places(r) : wordAt[x] = wordAt[y] => x = y
  <2> SUFFICES ASSUME NEW x \in Places(r), NEW y \in Places(r), wordAt[x] = wordAt[y]
               PROVE  x = y
    OBVIOUS
  <2>1. PICK i \in DOMAIN P : \E j \in DOMAIN S(i) : \E k \in DOMAIN W(i, j) :
          x = <<i, j, k>> /\ wordAt[x] = W(i, j)[k]
    BY <1>5
  <2>2. PICK j \in DOMAIN S(i) : \E k \in DOMAIN W(i, j) :
          x = <<i, j, k>> /\ wordAt[x] = W(i, j)[k]
    BY <2>1
  <2>3. PICK k \in DOMAIN W(i, j) : x = <<i, j, k>> /\ wordAt[x] = W(i, j)[k]
    BY <2>2
  <2>4. PICK ii \in DOMAIN P : \E jj \in DOMAIN S(ii) : \E kk \in DOMAIN W(ii, jj) :
          y = <<ii, jj, kk>> /\ wordAt[y] = W(ii, jj)[kk]
    BY <1>5
  <2>5. PICK jj \in DOMAIN S(ii) : \E kk \in DOMAIN W(ii, jj) :
          y = <<ii, jj, kk>> /\ wordAt[y] = W(ii, jj)[kk]
    BY <2>4
  <2>6. PICK kk \in DOMAIN W(ii, jj) : y = <<ii, jj, kk>> /\ wordAt[y] = W(ii, jj)[kk]
    BY <2>5
  <2>7. W(i, j)[k] = W(ii, jj)[kk]
    BY <2>3, <2>6
  <2>8. i = ii /\ j = jj /\ k = kk
    BY <1>4, <2>7
  <2> QED
    BY <2>3, <2>6, <2>8
<1>8. \A w \in Shown(r) : \E x \in Places(r) : wordAt[x] = w
  <2> SUFFICES ASSUME NEW w \in Shown(r)
               PROVE  \E x \in Places(r) : wordAt[x] = w
    OBVIOUS
  <2>1. PICK i \in DOMAIN P : \E j \in DOMAIN S(i) : \E k \in DOMAIN W(i, j) : w = W(i, j)[k]
    BY <1>2
  <2>2. PICK j \in DOMAIN S(i) : \E k \in DOMAIN W(i, j) : w = W(i, j)[k]
    BY <2>1
  <2>3. PICK k \in DOMAIN W(i, j) : w = W(i, j)[k]
    BY <2>2
  <2>4. <<i, j, k>> \in Places(r)
    BY <1>1
  <2> QED
    BY <2>3, <2>4
<1>9. IsFiniteSet(Shown(r))
  <2>1. DOMAIN words = 1 .. Len(words) /\ Len(words) \in Nat
    BY ElementIn DEF TypeOK
  <2>2. IsFiniteSet(1 .. Len(words))
    BY <2>1, FS_Interval
  <2>3. Shown(r) \subseteq DOMAIN words
    <3>1. \A p \in Range(revisions[r].paragraphs_ordered) : p \in DOMAIN paragraphs
      BY <1>3 DEF P, Range
    <3> QED
      BY <3>1, PartsIn DEF Shown
  <2> QED
    BY <2>1, <2>2, <2>3, FS_Subset
<1> HIDE DEF wordAt
<1>10. wordAt \in Injection(Places(r), Shown(r)) /\ wordAt \in Surjection(Places(r), Shown(r))
  BY <1>6, <1>7, <1>8 DEF Injection, IsInjective, Surjection
<1> QED
  BY <1>9, <1>10, FS_Injection

LEMMA OnceInit ==
  ASSUME Init
  PROVE  OnceInv /\ MatchesListed
<1>1. /\ pc = "next" /\ revisions = <<Dummy>> /\ paragraphs = <<>> /\ sentences = <<>>
      /\ paragraphs_ht = <<>> /\ sentences_ht = <<>> /\ ordered_revisions = <<>>
  BY DEF Init
<1>2. WordsOnce
  BY <1>1 DEF WordsOnce, RevisionOnce, Dummy
<1>3. NewPlaces /\ TakenWords /\ FoundInPublished /\ OriginsPublished
  BY <1>1 DEF NewPlaces, TakenWords, FoundInPublished, OriginsPublished, Published, Range
<1>4. MatchesListed
  BY DEF Init, MatchesListed
<1> QED
  BY <1>2, <1>3, <1>4 DEF OnceInv

LEMMA OnceInvStep ==
  ASSUME TypeOK, TypeOK', TextInv, MatchesListed, OnceInv, Grows, [Next]_vars
  PROVE  OnceInv'
<1>1. FlagsClear
  BY DEF MatchesListed, FlagsClear
<1>2. FoundInPublished'
  BY FoundStep DEF OnceInv
<1>3. WordsOnce' /\ TakenWords' /\ NewPlaces' /\ OriginsPublished'
  BY <1>1, OnceStep, PlacesStep, OriginsStep
<1> QED
  BY <1>2, <1>3 DEF OnceInv

(***************************************************************************)
(* A valid revision never shows one token at two places, whatever          *)
(* paragraphs and sentences of whatever age compete for its tokens, and    *)
(* whatever the diff pairs.                                                *)
(***************************************************************************)
THEOREM TokensOnce == Spec => []NoTokenTwice
<1> DEFINE IInv == TypeOK /\ ComparedWithLatestValid /\ MatchesListed /\ TextInv /\ OnceInv
<1>1. Init => IInv
  BY InitType, TextInit, OnceInit DEF Init, ComparedWithLatestValid, at_least_one
<1>2. IInv /\ [Next]_vars => IInv'
  BY TypeStep, LatestStep, MatchesStep, Keeps, TextStep, OnceInvStep
<1>3. IInv => NoTokenTwice
  <2>1. TypeOK => Published \subseteq DOMAIN revisions
    BY ElementIn DEF TypeOK, Published
  <2> QED
    BY <2>1, PlacesCounted DEF OnceInv, NoTokenTwice
<1> QED
  BY <1>1, <1>2, <1>3, PTL DEF Spec

-----------------------------------------------------------------------------
(* An edit that changes nothing keeps every token.  As long as every       *)
(* paragraph was found at its old place, the next one of the previous      *)
(* revision is the first candidate, and it is free: no paragraph before it *)
(* has one of its words, and the paragraph itself is at one place only.    *)

\* A revision lists a paragraph once, and those it found are flagged or new.
FoundOnce ==
  /\ \A r \in DOMAIN revisions : \A i, j \in DOMAIN revisions[r].paragraphs_ordered :
       revisions[r].paragraphs_ordered[i] = revisions[r].paragraphs_ordered[j] => i = j
  /\ ~Quiescent => \A p \in Range(ParagraphsFound) : p \in matchedP \/ Unmatched(p)

\* The revision being analysed has the text of the latest valid one.
SameText ==
  /\ ~Quiescent /\ revision_prev # None
  /\ revisions[current_revision].text = revisions[revision_prev].text

KeptSoFar ==
  SameText =>
    /\ pc \in {"paragraphs", "commit"}
    /\ revisions[current_revision].original_adds = 0
    /\ unmatched_paragraphs_curr = <<>>
    /\ \A i \in DOMAIN ParagraphsFound : ParagraphsFound[i] = PrevParagraphs[i]
    /\ matchedP = Range(ParagraphsFound)
    /\ matchedW = UNION {ParagraphWords(p) : p \in Range(ParagraphsFound)}

KeptPublished ==
  \A n \in 2 .. Len(ordered_revisions) :
    LET prev == revisions[ordered_revisions[n - 1]]
        curr == revisions[ordered_revisions[n]]
    IN curr.text = prev.text =>
         /\ curr.paragraphs_ordered = prev.paragraphs_ordered
         /\ curr.original_adds = 0

\* The order of the places where a paragraph is looked for.
LEMMA PlaceOrder ==
  /\ \A i, j \in Nat : Precedes(<<0, i, 0>>, <<0, j, 0>>) <=> i < j
  /\ \A i, k \in Nat : /\ Precedes(<<0, i, 0>>, <<1, k, 0>>)
                       /\ ~Precedes(<<1, k, 0>>, <<0, i, 0>>)
<1>1. ASSUME NEW i \in Nat, NEW j \in Nat
      PROVE  Precedes(<<0, i, 0>>, <<0, j, 0>>) <=> i < j
  <2> DEFINE a == <<0, i, 0>>
             b == <<0, j, 0>>
  <2>1. /\ DOMAIN a = 1 .. 3 /\ a[1] = 0 /\ a[2] = i /\ a[3] = 0
        /\ b[1] = 0 /\ b[2] = j /\ b[3] = 0
    OBVIOUS
  <2> HIDE DEF a, b
  <2>2. ASSUME i < j
        PROVE  Precedes(a, b)
    <3>1. \A m \in 1 .. 2 - 1 : a[m] = b[m]
      BY <2>1
    <3> QED
      BY <2>1, <2>2, <3>1 DEF Precedes
  <2>3. ASSUME Precedes(a, b)
        PROVE  i < j
    <3>1. PICK n \in 1 .. 3 : a[n] < b[n] /\ \A m \in 1 .. n - 1 : a[m] = b[m]
      BY <2>1, <2>3 DEF Precedes
    <3>2. n = 1 \/ n = 2 \/ n = 3
      OBVIOUS
    <3> QED
      BY <2>1, <3>1, <3>2
  <2> QED
    BY <2>2, <2>3 DEF a, b
<1>2. ASSUME NEW i \in Nat, NEW k \in Nat
      PROVE  Precedes(<<0, i, 0>>, <<1, k, 0>>) /\ ~Precedes(<<1, k, 0>>, <<0, i, 0>>)
  <2> DEFINE a == <<0, i, 0>>
             b == <<1, k, 0>>
  <2>1. /\ DOMAIN a = 1 .. 3 /\ a[1] = 0 /\ a[2] = i /\ a[3] = 0
        /\ DOMAIN b = 1 .. 3 /\ b[1] = 1 /\ b[2] = k /\ b[3] = 0
    OBVIOUS
  <2> HIDE DEF a, b
  <2>2. Precedes(a, b)
    BY <2>1 DEF Precedes
  <2>3. ASSUME Precedes(b, a)
        PROVE  FALSE
    <3>1. PICK n \in 1 .. 3 : b[n] < a[n] /\ \A m \in 1 .. n - 1 : b[m] = a[m]
      BY <2>1, <2>3 DEF Precedes
    <3>2. n # 1
      BY <2>1, <3>1
    <3>3. 1 \in 1 .. n - 1
      BY <3>2
    <3> QED
      BY <2>1, <3>1, <3>3
  <2> QED
    BY <2>2, <2>3 DEF a, b
<1> QED
  BY <1>1, <1>2

\* The paragraph at the same place of the previous revision is found.
LEMMA NextKept ==
  ASSUME TypeOK, TextInv, WordsOnce, FoundOnce, KeptSoFar, SameText,
         Len(ParagraphsFound) < Len(revisions[current_revision].text)
  PROVE  LET n == Len(ParagraphsFound) + 1
             C == ParagraphCandidates(PendingValue)
         IN /\ n \in DOMAIN PrevParagraphs
            /\ FindMatching(C, matchedP, WordsOfParagraphs)
                 = {[at |-> <<0, n, 0>>, id |-> PrevParagraphs[n]]}
            /\ Exhausted(C, matchedP, WordsOfParagraphs) = {}
<1> USE DEF TextInv
<1> DEFINE n == Len(ParagraphsFound) + 1
           V == PendingValue
           C == ParagraphCandidates(V)
           U == Usable(C, matchedP, WordsOfParagraphs)
           c0 == [at |-> <<0, n, 0>>, id |-> PrevParagraphs[n]]
<1>1. /\ revision_prev \in DOMAIN revisions /\ FullRevision(revision_prev)
      /\ PrevParagraphs = revisions[revision_prev].paragraphs_ordered
      /\ revisions[current_revision].text = revisions[revision_prev].text
  BY ElementIn DEF SameText, PrevPublished, OfferedFull, Published, TypeOK, PrevParagraphs
<1>2. /\ DOMAIN ParagraphsFound = 1 .. Len(ParagraphsFound) /\ Len(ParagraphsFound) \in Nat
      /\ DOMAIN PrevParagraphs = 1 .. Len(PrevParagraphs) /\ Len(PrevParagraphs) \in Nat
      /\ \A i \in DOMAIN PrevParagraphs : PrevParagraphs[i] \in DOMAIN paragraphs
  BY UnderwayIn, PartsIn, ElementIn
<1>3. /\ n \in DOMAIN PrevParagraphs /\ n \in Nat
      /\ \A i \in Nat : i \in DOMAIN ParagraphsFound <=> 0 < i /\ i < n
  <2>1. Len(PrevParagraphs) = Len(revisions[current_revision].text)
    BY <1>1 DEF FullRevision
  <2> QED
    BY <1>2, <2>1
<1>4. paragraphs[PrevParagraphs[n]].value = V
  BY <1>1, <1>3 DEF Spelled, RevisionsSpelled, PendingValue
<1>5. \A i, j \in DOMAIN PrevParagraphs : i # j =>
        /\ PrevParagraphs[i] # PrevParagraphs[j]
        /\ ParagraphWords(PrevParagraphs[i]) \cap ParagraphWords(PrevParagraphs[j]) = {}
  BY <1>1 DEF FoundOnce, WordsOnce, RevisionOnce
<1>6. \A p : p \in matchedP <=>
        \E i \in DOMAIN PrevParagraphs : i < n /\ p = PrevParagraphs[i]
  <2>1. \A i \in DOMAIN ParagraphsFound : i \in DOMAIN PrevParagraphs
    BY <1>2, <1>3
  <2>2. \A i \in DOMAIN PrevParagraphs : i \in Nat /\ 0 < i
    BY <1>2
  <2>3. \A p : p \in matchedP <=> \E i \in DOMAIN ParagraphsFound : p = ParagraphsFound[i]
    BY DEF KeptSoFar, Range
  <2>4. \A i \in DOMAIN ParagraphsFound : ParagraphsFound[i] = PrevParagraphs[i]
    BY DEF KeptSoFar
  <2> HIDE DEF n
  <2> QED
    BY <1>2, <1>3, <2>1, <2>2, <2>3, <2>4
<1>7. /\ PrevParagraphs[n] \notin matchedP
      /\ ParagraphWords(PrevParagraphs[n]) \cap matchedW = {}
  <2>1. PrevParagraphs[n] \notin matchedP
    BY <1>2, <1>3, <1>5, <1>6
  <2>2. \A p \in matchedP : ParagraphWords(PrevParagraphs[n]) \cap ParagraphWords(p) = {}
    BY <1>2, <1>3, <1>5, <1>6
  <2>3. matchedW = UNION {ParagraphWords(p) : p \in matchedP}
    BY DEF KeptSoFar
  <2> QED
    BY <2>1, <2>2, <2>3
<1> HIDE DEF n, V
<1>8. c0 \in C
  BY <1>3, <1>4 DEF ParagraphCandidates
<1>9. c0 \in U
  <2>1. WordsOfParagraphs[PrevParagraphs[n]] = ParagraphWords(PrevParagraphs[n])
    BY <1>2, <1>3 DEF WordsOfParagraphs
  <2> QED
    BY <1>7, <1>8, <2>1 DEF Usable
<1>10. ASSUME NEW d \in C, d.id \notin matchedP, d # c0
       PROVE  Precedes(c0.at, d.at) /\ ~Precedes(d.at, c0.at)
  <2>1. CASE \E i \in DOMAIN PrevParagraphs : d = [at |-> <<0, i, 0>>, id |-> PrevParagraphs[i]]
    <3>1. PICK i \in DOMAIN PrevParagraphs : d = [at |-> <<0, i, 0>>, id |-> PrevParagraphs[i]]
      BY <2>1
    <3>2. i \in Nat /\ ~(i < n) /\ i # n
      BY <1>2, <1>6, <1>10, <3>1
    <3>3. n < i /\ ~(i < n)
      BY <1>3, <3>2
    <3> QED
      BY <1>3, <3>1, <3>2, <3>3, PlaceOrder
  <2>2. CASE \E k \in DOMAIN paragraphs_ht : d = [at |-> <<1, k, 0>>, id |-> paragraphs_ht[k]]
    <3>1. \A k \in DOMAIN paragraphs_ht : k \in Nat
      BY ElementIn DEF TypeOK
    <3> QED
      BY <1>3, <2>2, <3>1, PlaceOrder
  <2> QED
    BY <2>1, <2>2 DEF ParagraphCandidates
<1> HIDE DEF C, c0
<1>11. \A u \in U : u \in C /\ u.id \notin matchedP
  BY DEF Usable
<1>12. FindMatching(C, matchedP, WordsOfParagraphs) = {c0}
  BY <1>9, <1>10, <1>11 DEF FindMatching, Earliest
<1>13. ~Precedes(c0.at, c0.at)
  <2>1. c0.at = <<0, n, 0>>
    BY DEF c0
  <2> QED
    BY <1>3, <2>1, PlaceOrder
<1>14. Exhausted(C, matchedP, WordsOfParagraphs) = {}
  BY <1>9, <1>10, <1>13 DEF Exhausted
<1> QED
  BY <1>3, <1>12, <1>14 DEF n, V, C, c0

\* A paragraph is found only if it is neither flagged nor new.
LEMMA FoundOnceStep ==
  ASSUME TypeOK, TypeOK', TextInv, OnceInv, FoundOnce, Grows, [Next]_vars
  PROVE  FoundOnce'
<1> USE DEF TextInv, OnceInv
<1> DEFINE F == ParagraphsFound
<1>1. ASSUME NEW p, StoredParagraph(p), p \notin Range(F), current_revision' = current_revision,
             pc = "paragraphs", matchedP \subseteq matchedP',
             \A q : Unmatched(q) => Unmatched(q)', p \in matchedP' \/ Unmatched(p)'
      PROVE  FoundOnce'
  <2>1. /\ F \in Seq(DOMAIN paragraphs) /\ ParagraphsFound' = Append(F, p)
        /\ current_revision \in DOMAIN revisions /\ DOMAIN revisions' = DOMAIN revisions
        /\ revisions'[current_revision].paragraphs_ordered = Append(F, p)
        /\ \A r \in DOMAIN revisions : r # current_revision => revisions'[r] = revisions[r]
    BY <1>1, UnderwayIn DEF StoredParagraph, ParagraphsFound, TypeOK
  <2>2. /\ Append(F, p)[Len(F) + 1] = p
        /\ \A i \in DOMAIN F : Append(F, p)[i] = F[i] /\ F[i] # p
        /\ \A i \in DOMAIN Append(F, p) : i \in DOMAIN F \/ i = Len(F) + 1
    BY <1>1, <2>1, Appending DEF Range
  <2>3. \A i, j \in DOMAIN F : F[i] = F[j] => i = j
    BY <2>1 DEF FoundOnce, ParagraphsFound
  <2>4. Range(ParagraphsFound') = Range(F) \cup {p}
    BY <2>1, RangeOfAppend
  <2>5. \A q \in Range(F) : q \in matchedP' \/ Unmatched(q)'
    BY <1>1 DEF FoundOnce
  <2> HIDE DEF F
  <2>6. \A i, j \in DOMAIN Append(F, p) : Append(F, p)[i] = Append(F, p)[j] => i = j
    BY <2>2, <2>3
  <2>7. \A r \in DOMAIN revisions' : \A i, j \in DOMAIN revisions'[r].paragraphs_ordered :
          revisions'[r].paragraphs_ordered[i] = revisions'[r].paragraphs_ordered[j] => i = j
    BY <2>1, <2>6 DEF FoundOnce
  <2>8. \A q \in Range(ParagraphsFound') : q \in matchedP' \/ Unmatched(q)'
    BY <1>1, <2>4, <2>5
  <2> QED
    BY <2>7, <2>8 DEF FoundOnce
<1>2. CASE ReuseParagraph
  <2>1. PICK p \in FoundAgain : p \notin matchedP /\ StoredParagraph(p) /\ p \in matchedP'
    BY <1>2, ReuseParagraphDoes
  <2>2. /\ pc = "paragraphs" /\ ~Quiescent /\ matchedP \subseteq matchedP'
        /\ UNCHANGED <<current_revision, unmatched_paragraphs_curr>>
    BY <1>2 DEF ReuseParagraph, MarkParagraphs
  <2>3. p \notin Range(F)
    BY <2>1, <2>2, AgainPublished DEF FoundOnce
  <2>4. \A q : Unmatched(q) => Unmatched(q)'
    BY <2>2 DEF Unmatched
  <2> QED
    BY <1>1, <2>1, <2>2, <2>3, <2>4
<1>3. CASE NewParagraph
  <2>1. PICK p : /\ StoredParagraph(p) /\ p \notin DOMAIN paragraphs
                 /\ Range(unmatched_paragraphs_curr') = Range(unmatched_paragraphs_curr) \cup {p}
    <3>1. Len(paragraphs) + 1 \notin DOMAIN paragraphs
      BY <1>3, NewParagraphDoes DEF Added
    <3> QED
      BY <1>3, <3>1, NewParagraphDoes
  <2>2. /\ pc = "paragraphs" /\ matchedP \subseteq matchedP'
        /\ UNCHANGED current_revision
    BY <1>3 DEF NewParagraph, MarkParagraphs
  <2>3. p \notin Range(F)
    BY <2>1, UnderwayIn
  <2>4. Unmatched(p)' /\ \A q : Unmatched(q) => Unmatched(q)'
    BY <2>1 DEF Unmatched
  <2> QED
    BY <1>1, <2>1, <2>2, <2>3, <2>4
<1>4. ASSUME NEW xml \in XmlRevisions, BeginRevision(xml)
      PROVE  FoundOnce'
  <2>1. /\ \A r \in DOMAIN revisions : revisions'[r] = revisions[r]
        /\ \A r \in DOMAIN revisions' : r \in DOMAIN revisions \/ r = Len(revisions) + 1
        /\ revisions'[Len(revisions) + 1].paragraphs_ordered = <<>>
        /\ current_revision' = Len(revisions) + 1
    BY <1>4, BeginDoes DEF Added
  <2>2. ParagraphsFound' = <<>>
    <3>1. ParagraphsFound' = revisions'[current_revision'].paragraphs_ordered
      BY DEF ParagraphsFound
    <3> QED
      BY <2>1, <3>1
  <2>3. Range(ParagraphsFound') = {}
    BY <2>2 DEF Range
  <2> QED
    BY <2>1, <2>3 DEF FoundOnce
<1>5. CASE ~(ReuseParagraph \/ NewParagraph \/ \E xml \in XmlRevisions : BeginRevision(xml))
  <2>1. /\ DOMAIN revisions' = DOMAIN revisions
        /\ \A r \in DOMAIN revisions :
             revisions'[r].paragraphs_ordered = revisions[r].paragraphs_ordered
    <3>1. CASE AddWord
      BY <3>1, AddWordDoes
    <3>2. CASE ~AddWord
      BY <1>5, <3>2 DEF Next, SkipDeleted, RejectByContent, EndParagraphs, ReuseSentence,
         NewSentence, EndSentences, RejectDense, StartDiff, KeepWord, DropWord, EndWords,
         Commit, Discard, EndOfPage, Finished
    <3> QED
      BY <3>1, <3>2
  <2>2. \/ Quiescent'
        \/ ~Quiescent /\ UNCHANGED <<matchedP, current_revision, unmatched_paragraphs_curr>>
    BY <1>5 DEF Next, SkipDeleted, RejectByContent, ReadRevision, EndParagraphs, ReuseSentence,
       NewSentence, EndSentences, RejectDense, StartDiff, KeepWord, DropWord, AddWord, EndWords,
       Commit, Discard, EndOfPage, Finished
  <2>3. current_revision \in DOMAIN revisions
    BY DEF TypeOK
  <2>4. ASSUME ~Quiescent'
        PROVE  \A p \in Range(ParagraphsFound') : p \in matchedP' \/ Unmatched(p)'
    BY <2>1, <2>2, <2>3, <2>4 DEF FoundOnce, ParagraphsFound, Unmatched
  <2> QED
    BY <2>1, <2>4 DEF FoundOnce
<1> QED
  BY <1>2, <1>3, <1>4, <1>5

\* While the text is the old one, every step finds the next old paragraph.
LEMMA KeptStep ==
  ASSUME TypeOK, TypeOK', TextInv, OnceInv, FoundOnce, KeptSoFar, FlagsClear, Grows, [Next]_vars
  PROVE  KeptSoFar'
<1> USE DEF TextInv, OnceInv
<1> SUFFICES ASSUME SameText'
             PROVE  /\ pc' \in {"paragraphs", "commit"}
                    /\ revisions'[current_revision'].original_adds = 0
                    /\ unmatched_paragraphs_curr' = <<>>
                    /\ \A i \in DOMAIN ParagraphsFound' : ParagraphsFound'[i] = PrevParagraphs'[i]
                    /\ matchedP' = Range(ParagraphsFound')
                    /\ matchedW' = (UNION {ParagraphWords(p) : p \in Range(ParagraphsFound)})'
  BY DEF KeptSoFar
<1>1. CASE \E xml \in XmlRevisions : BeginRevision(xml)
  <2>1. PICK xml \in XmlRevisions : BeginRevision(xml)
    BY <1>1
  <2>2. /\ revisions'[current_revision'].paragraphs_ordered = <<>>
        /\ revisions'[current_revision'].original_adds = 0
    BY <2>1, BeginDoes
  <2>3. ParagraphsFound' = <<>> /\ Range(ParagraphsFound') = {}
    BY <2>2 DEF ParagraphsFound, Range
  <2>4. pc' = "paragraphs" /\ unmatched_paragraphs_curr' = <<>> /\ matchedP' = {} /\ matchedW' = {}
    BY <2>1 DEF BeginRevision, ReadRevision, FlagsClear
  <2> QED
    BY <2>2, <2>3, <2>4
<1>2. CASE ~\E xml \in XmlRevisions : BeginRevision(xml)
  <2>1. /\ ~Quiescent /\ ~Quiescent'
        /\ UNCHANGED <<current_revision, revision_prev>>
    BY <1>2 DEF SameText, Next, SkipDeleted, RejectByContent, ReadRevision, ReuseParagraph,
       NewParagraph, EndParagraphs, ReuseSentence, NewSentence, EndSentences, RejectDense,
       StartDiff, KeepWord, DropWord, AddWord, EndWords, Commit, Discard, EndOfPage, Finished
  <2>2. SameText
    <3>1. revision_prev' = revision_prev /\ revision_prev # None
      BY <2>1 DEF SameText
    <3>2. revision_prev \in DOMAIN revisions /\ current_revision \in DOMAIN revisions
      BY <3>1 DEF TypeOK
    <3> QED
      BY <2>1, <3>1, <3>2 DEF SameText, Grows, ValuesKept
  <2>3. /\ pc \in {"paragraphs", "commit"}
        /\ revisions[current_revision].original_adds = 0
        /\ unmatched_paragraphs_curr = <<>>
        /\ \A i \in DOMAIN ParagraphsFound : ParagraphsFound[i] = PrevParagraphs[i]
        /\ matchedP = Range(ParagraphsFound)
        /\ matchedW = UNION {ParagraphWords(p) : p \in Range(ParagraphsFound)}
    BY <2>2 DEF KeptSoFar
  <2>4. CASE ReuseParagraph
    <3> DEFINE n == Len(ParagraphsFound) + 1
               C == ParagraphCandidates(PendingValue)
    <3>1. /\ n \in DOMAIN PrevParagraphs
          /\ FindMatching(C, matchedP, WordsOfParagraphs)
               = {[at |-> <<0, n, 0>>, id |-> PrevParagraphs[n]]}
          /\ Exhausted(C, matchedP, WordsOfParagraphs) = {}
      <4>1. Len(ParagraphsFound) < Len(revisions[current_revision].text)
        BY <2>4 DEF ReuseParagraph
      <4> QED
        BY <2>2, <4>1, NextKept
    <3>2. PICK p : p = PrevParagraphs[n]
      OBVIOUS
    <3>3. \E c \in FindMatching(C, matchedP, WordsOfParagraphs) :
            /\ MarkParagraphs({c.id} \cup Exhausted(C, matchedP, WordsOfParagraphs))
            /\ matchedW' = matchedW \cup ParagraphWords(c.id)
            /\ StoreParagraph(c.id)
      BY <2>4 DEF ReuseParagraph
    <3>4. /\ matchedP' = matchedP \cup {p} /\ matchedW' = matchedW \cup ParagraphWords(p)
          /\ StoreParagraph(p)
      BY <3>1, <3>2, <3>3 DEF MarkParagraphs
    <3>5. /\ UNCHANGED <<pc, paragraphs, sentences, unmatched_paragraphs_curr, current_revision,
                         revision_prev>>
      BY <2>4 DEF ReuseParagraph
    <3>6. /\ StoredParagraph(p) /\ ParagraphsFound' = Append(ParagraphsFound, p)
          /\ ParagraphsFound \in Seq(DOMAIN paragraphs)
          /\ revisions'[current_revision].original_adds = 0
      BY <2>3, <3>4, <3>5, Storing, UnderwayIn DEF StoredParagraph, ParagraphsFound
    <3>7. Range(ParagraphsFound') = Range(ParagraphsFound) \cup {p}
      BY <3>6, RangeOfAppend
    <3>8. PrevParagraphs' = PrevParagraphs
      <4>1. revision_prev # current_revision /\ revision_prev \in DOMAIN revisions
        BY <2>2 DEF SameText, PrevPublished, CurrentUnpublished, TypeOK
      <4> QED
        BY <3>5, <3>6, <4>1 DEF StoredParagraph, PrevParagraphs
    <3>9. \A i \in DOMAIN ParagraphsFound' : ParagraphsFound'[i] = PrevParagraphs[i]
      <4>1. /\ Append(ParagraphsFound, p)[n] = p
            /\ \A i \in DOMAIN ParagraphsFound :
                 Append(ParagraphsFound, p)[i] = ParagraphsFound[i]
            /\ \A i \in DOMAIN Append(ParagraphsFound, p) : i \in DOMAIN ParagraphsFound \/ i = n
        BY <3>6, Appending
      <4> HIDE DEF n
      <4> QED
        BY <2>3, <3>2, <3>6, <4>1
    <3>10. \A q : ParagraphWords(q)' = ParagraphWords(q)
      BY <3>5 DEF ParagraphWords, ParagraphSentences, SentenceWords
    <3>11. matchedW' = UNION {ParagraphWords(q) : q \in Range(ParagraphsFound) \cup {p}}
      BY <2>3, <3>4
    <3>12. matchedW' = (UNION {ParagraphWords(q) : q \in Range(ParagraphsFound)})'
      BY <3>7, <3>10, <3>11
    <3> QED
      BY <2>3, <3>4, <3>5, <3>6, <3>7, <3>8, <3>9, <3>12
  <2>5. ~NewParagraph
    <3> SUFFICES ASSUME NewParagraph PROVE FALSE
      OBVIOUS
    <3>1. Len(ParagraphsFound) < Len(revisions[current_revision].text)
      BY DEF NewParagraph
    <3> QED
      BY <2>2, <3>1, NextKept DEF NewParagraph
  <2>6. CASE EndParagraphs \/ UNCHANGED vars
    <3>1. /\ UNCHANGED <<revisions, paragraphs, sentences, current_revision, revision_prev,
                         unmatched_paragraphs_curr, matchedP, matchedW>>
          /\ pc' \in {"paragraphs", "commit"}
      BY <2>3, <2>6 DEF EndParagraphs
    <3> QED
      BY <2>3, <3>1 DEF ParagraphsFound, PrevParagraphs, ParagraphWords, ParagraphSentences,
                        SentenceWords
  <2> QED
    BY <1>2, <2>1, <2>3, <2>4, <2>5, <2>6 DEF Next, SkipDeleted, RejectByContent, ReadRevision,
       ReuseSentence, NewSentence, EndSentences, RejectDense, StartDiff, KeepWord, DropWord,
       AddWord, EndWords, Commit, Discard, EndOfPage, Finished
<1> QED
  BY <1>1, <1>2

\* What is said of a valid revision does not change, its successor is the next.
LEMMA KeptPublishedStep ==
  ASSUME TypeOK, TypeOK', ComparedWithLatestValid, TextInv, KeptSoFar, KeptPublished, Grows,
         [Next]_vars
  PROVE  KeptPublished'
<1> USE DEF TextInv
<1>1. ASSUME NEW r \in Published
      PROVE  /\ revisions'[r].text = revisions[r].text
             /\ revisions'[r].paragraphs_ordered = revisions[r].paragraphs_ordered
             /\ revisions'[r].original_adds = revisions[r].original_adds
  <2>1. /\ r \in DOMAIN revisions
        /\ revisions'[r].paragraphs_ordered = revisions[r].paragraphs_ordered
        /\ revisions'[r].text = revisions[r].text
    BY ShownStays DEF Grows, ValuesKept
  <2>2. CASE AddWord
    <3>1. r # current_revision
      BY <2>2 DEF CurrentUnpublished, AddWord
    <3>2. revisions[r] \in RevisionType(DOMAIN paragraphs)
      BY <2>1, PartsIn
    <3> QED
      BY <2>1, <2>2, <3>1, <3>2, AddWordDoes DEF RevisionType
  <2>3. CASE \E xml \in XmlRevisions : BeginRevision(xml)
    BY <2>1, <2>3, BeginDoes DEF Added
  <2>4. CASE ReuseParagraph \/ NewParagraph
    BY <2>1, <2>4, ReuseParagraphDoes, NewParagraphDoes DEF StoredParagraph
  <2>5. CASE UNCHANGED revisions
    BY <2>1, <2>5
  <2> QED
    BY <2>2, <2>3, <2>4, <2>5 DEF Next, SkipDeleted, RejectByContent, EndParagraphs,
       ReuseSentence, NewSentence, EndSentences, RejectDense, StartDiff, KeepWord, DropWord,
       EndWords, Commit, Discard, EndOfPage, Finished
<1>2. /\ DOMAIN ordered_revisions = 1 .. Len(ordered_revisions)
      /\ Len(ordered_revisions) \in Nat
      /\ \A n \in DOMAIN ordered_revisions : /\ ordered_revisions[n] \in Published
                                            /\ ordered_revisions[n] \in DOMAIN revisions
  BY ElementIn DEF TypeOK, Published, Range
<1>3. \A n \in 2 .. Len(ordered_revisions) :
        n \in DOMAIN ordered_revisions /\ n - 1 \in DOMAIN ordered_revisions
  BY <1>2
<1>4. \A n \in 2 .. Len(ordered_revisions) :
        LET prev == revisions'[ordered_revisions[n - 1]]
            curr == revisions'[ordered_revisions[n]]
        IN curr.text = prev.text =>
             /\ curr.paragraphs_ordered = prev.paragraphs_ordered
             /\ curr.original_adds = 0
  BY <1>1, <1>2, <1>3 DEF KeptPublished
<1>5. CASE ~Commit
  <2>1. ordered_revisions' = ordered_revisions
    BY <1>5, PublishedStep
  <2> QED
    BY <1>4, <2>1 DEF KeptPublished
<1>6. CASE Commit
  <2> DEFINE L == Len(ordered_revisions)
             c == current_revision
  <2>1. /\ ordered_revisions' = Append(ordered_revisions, c)
        /\ pc = "commit" /\ ~Quiescent /\ UNCHANGED revisions
    BY <1>6 DEF Commit
  <2>2. /\ Len(Append(ordered_revisions, c)) = L + 1
        /\ Append(ordered_revisions, c)[L + 1] = c
        /\ \A n \in DOMAIN ordered_revisions :
             Append(ordered_revisions, c)[n] = ordered_revisions[n]
    BY Appending DEF TypeOK
  <2>3. ASSUME L + 1 \in 2 .. L + 1,
               revisions[c].text = revisions[ordered_revisions[L]].text
        PROVE  /\ revisions[c].paragraphs_ordered
                    = revisions[ordered_revisions[L]].paragraphs_ordered
               /\ revisions[c].original_adds = 0
    <3>1. L \in DOMAIN ordered_revisions /\ revision_prev = ordered_revisions[L]
      <4>1. L > 0 /\ L \in DOMAIN ordered_revisions
        BY <1>2, <2>3
      <4>2. at_least_one
        BY <4>1 DEF at_least_one
      <4>3. LastIs(ordered_revisions, revision_prev)
        BY <2>1, <4>2 DEF ComparedWithLatestValid
      <4> QED
        BY <4>1, <4>3 DEF LastIs
    <3>2. revision_prev \in Published /\ revision_prev \in DOMAIN revisions /\ revision_prev # None
      <4>1. DOMAIN revisions = 1 .. Len(revisions) /\ Len(revisions) \in Nat
        BY ElementIn DEF TypeOK
      <4> QED
        BY <1>2, <3>1, <4>1
    <3>3. SameText
      BY <2>1, <2>3, <3>1, <3>2 DEF SameText
    <3>4. /\ revisions[c].original_adds = 0
          /\ \A i \in DOMAIN ParagraphsFound : ParagraphsFound[i] = PrevParagraphs[i]
      BY <3>3 DEF KeptSoFar
    <3>5. PrevParagraphs = revisions[ordered_revisions[L]].paragraphs_ordered
          /\ ParagraphsFound = revisions[c].paragraphs_ordered
      BY <3>1, <3>2 DEF PrevParagraphs, ParagraphsFound
    <3>6. Len(ParagraphsFound) = Len(PrevParagraphs)
      BY <2>1, <2>3, <3>1, <3>2, <3>5 DEF Underway, OfferedFull, FullRevision
    <3>7. ParagraphsFound \in Seq(DOMAIN paragraphs) /\ PrevParagraphs \in Seq(DOMAIN paragraphs)
      BY UnderwayIn, PartsIn
    <3>8. ParagraphsFound = PrevParagraphs
      BY <3>4, <3>6, <3>7, ByElements
    <3> QED
      BY <3>4, <3>5, <3>8
  <2>4. \A n \in 2 .. L + 1 : n \in 2 .. L \/ n = L + 1
    BY <1>2
  <2>5. ASSUME NEW n \in 2 .. L + 1
        PROVE  LET prev == revisions'[ordered_revisions'[n - 1]]
                   curr == revisions'[ordered_revisions'[n]]
               IN curr.text = prev.text =>
                    /\ curr.paragraphs_ordered = prev.paragraphs_ordered
                    /\ curr.original_adds = 0
    <3>1. CASE n \in 2 .. L
      BY <1>3, <1>4, <2>1, <2>2, <3>1, SMTT(30)
    <3>2. CASE n = L + 1
      <4>1. n - 1 = L /\ L \in DOMAIN ordered_revisions
        BY <1>2, <3>2
      <4> QED
        BY <2>1, <2>2, <2>3, <3>2, <4>1
    <3> QED
      BY <2>4, <3>1, <3>2
  <2> QED
    BY <2>1, <2>2, <2>5 DEF KeptPublished
<1> QED
  BY <1>5, <1>6

(***************************************************************************)
(* A revision with the text of the latest valid one before it, however     *)
(* many were rejected in between, keeps all of its paragraphs, in order,   *)
(* and with them every token, and is credited with none.                   *)
(***************************************************************************)
THEOREM TokensKept == Spec => []UnchangedTextKeepsTokens
<1> DEFINE IInv == /\ TypeOK /\ ComparedWithLatestValid /\ MatchesListed /\ TextInv /\ OnceInv
                   /\ FoundOnce /\ KeptSoFar /\ KeptPublished
<1>1. Init => IInv
  <2> SUFFICES ASSUME Init PROVE IInv
    OBVIOUS
  <2>1. OnceInv /\ MatchesListed
    BY OnceInit
  <2>2. FoundOnce /\ KeptSoFar /\ KeptPublished
    BY DEF Init, Dummy, FoundOnce, KeptSoFar, SameText, KeptPublished
  <2> QED
    BY <2>1, <2>2, InitType, TextInit DEF Init, ComparedWithLatestValid, at_least_one
<1>2. IInv /\ [Next]_vars => IInv'
  <2> SUFFICES ASSUME IInv, [Next]_vars PROVE IInv'
    OBVIOUS
  <2>1. TypeOK' /\ ComparedWithLatestValid' /\ MatchesListed' /\ Grows
    BY TypeStep, LatestStep, MatchesStep, Keeps
  <2>2. TextInv' /\ OnceInv'
    BY <2>1, TextStep, OnceInvStep
  <2>3. FoundOnce' /\ KeptPublished'
    BY <2>1, FoundOnceStep, KeptPublishedStep
  <2>4. KeptSoFar'
    BY <2>1, KeptStep DEF MatchesListed, FlagsClear
  <2> QED
    BY <2>1, <2>2, <2>3, <2>4
<1>3. IInv => UnchangedTextKeepsTokens
  BY DEF KeptPublished, UnchangedTextKeepsTokens
<1> QED
  BY <1>1, <1>2, <1>3, PTL DEF Spec

-----------------------------------------------------------------------------
(* The first one of a set of places                                        *)

\* Smallest numbers exist because < is well founded.
LEMMA Smallest ==
  ASSUME NEW S \in SUBSET Nat, S # {}
  PROVE  \E x \in S : \A y \in S : x <= y
<1>1. \E x \in S : \A y \in S : ~(<<y, x>> \in OpToRel(<, Nat))
  <2>1. S \subseteq Nat
    OBVIOUS
  <2> QED
    BY <2>1, NatLessThanWellFounded, WFMin, Zenon
<1>2. PICK x \in S : \A y \in S : ~(<<y, x>> \in OpToRel(<, Nat))
  BY <1>1
<1>3. ASSUME NEW y \in S
      PROVE  x <= y
  <2>1. x \in Nat /\ y \in Nat
    OBVIOUS
  <2>2. ~(y < x)
    BY <1>2, <2>1, Zenon DEF OpToRel
  <2> QED
    BY <2>1, <2>2
<1> QED
  BY <1>3

\* Those of S whose n-th number is least.
Least(S, n) == {x \in S : \A y \in S : x.at[n] <= y.at[n]}

LEMMA LeastOnes ==
  ASSUME NEW S, S # {}, NEW n, \A x \in S : x.at[n] \in Nat
  PROVE  Least(S, n) # {}
<1> DEFINE N == {x.at[n] : x \in S}
<1>1. N \in SUBSET Nat /\ N # {}
  OBVIOUS
<1>2. PICK k \in N : \A l \in N : k <= l
  BY <1>1, Smallest
<1>3. PICK x \in S : x.at[n] = k
  BY <1>2
<1> QED
  BY <1>2, <1>3 DEF Least

Places5(S) ==
  /\ \A x \in S : DOMAIN x.at = 1 .. 5 /\ \A n \in 1 .. 5 : x.at[n] \in Nat
  /\ \A x, y \in S : (\A n \in 1 .. 5 : x.at[n] = y.at[n]) => x = y

\* A set of places that are told apart by five numbers has a first one.
LEMMA EarliestExists ==
  ASSUME NEW S, S # {}, Places5(S)
  PROVE  Earliest(S) # {}
<1> DEFINE A == Least(S, 1)
           B == Least(A, 2)
           C == Least(B, 3)
           D == Least(C, 4)
           E == Least(D, 5)
<1>1. A \subseteq S /\ B \subseteq A /\ C \subseteq B /\ D \subseteq C /\ E \subseteq D
  BY DEF Least
<1>2. \A x \in S : \A n \in 1 .. 5 : x.at[n] \in Nat
  BY DEF Places5
<1>3. A # {}
  <2>1. \A x \in S : x.at[1] \in Nat
    BY <1>2
  <2> QED
    BY <2>1, LeastOnes
<1>4. B # {}
  <2>1. \A x \in A : x.at[2] \in Nat
    BY <1>1, <1>2
  <2> HIDE DEF A
  <2> QED
    BY <1>3, <2>1, LeastOnes
<1>5. C # {}
  <2>1. \A x \in B : x.at[3] \in Nat
    BY <1>1, <1>2
  <2> HIDE DEF B
  <2> QED
    BY <1>4, <2>1, LeastOnes
<1>6. D # {}
  <2>1. \A x \in C : x.at[4] \in Nat
    BY <1>1, <1>2
  <2> HIDE DEF C
  <2> QED
    BY <1>5, <2>1, LeastOnes
<1>7. E # {}
  <2>1. \A x \in D : x.at[5] \in Nat
    BY <1>1, <1>2
  <2> HIDE DEF D
  <2> QED
    BY <1>6, <2>1, LeastOnes
<1>8. PICK x : x \in E
  BY <1>7
<1>9. x \in S /\ x \in A /\ x \in B /\ x \in C /\ x \in D
  BY <1>1, <1>8
<1>10. ASSUME NEW y \in S, y # x
       PROVE  Precedes(x.at, y.at)
  <2>1. /\ x.at[1] \in Nat /\ x.at[2] \in Nat /\ x.at[3] \in Nat /\ x.at[4] \in Nat /\ x.at[5] \in Nat
        /\ y.at[1] \in Nat /\ y.at[2] \in Nat /\ y.at[3] \in Nat /\ y.at[4] \in Nat /\ y.at[5] \in Nat
        /\ DOMAIN x.at = 1 .. 5
    BY <1>2, <1>9 DEF Places5
  <2>2. /\ x.at[1] <= y.at[1]
        /\ x.at[1] = y.at[1] => y \in A /\ x.at[2] <= y.at[2]
    <3>1. \A z \in S : x.at[1] <= z.at[1]
      BY <1>9 DEF Least
    <3>2. x.at[1] = y.at[1] => y \in A
      BY <3>1 DEF Least
    <3>3. \A z \in A : x.at[2] <= z.at[2]
      BY <1>9 DEF Least
    <3> QED
      BY <3>1, <3>2, <3>3
  <2>3. y \in A /\ x.at[2] = y.at[2] => y \in B /\ x.at[3] <= y.at[3]
    <3> HIDE DEF A
    <3>1. \A z \in A : x.at[2] <= z.at[2]
      BY <1>9 DEF Least
    <3>2. \A z \in B : x.at[3] <= z.at[3]
      BY <1>9 DEF Least
    <3> QED
      BY <3>1, <3>2 DEF Least
  <2>4. y \in B /\ x.at[3] = y.at[3] => y \in C /\ x.at[4] <= y.at[4]
    <3> HIDE DEF B
    <3>1. \A z \in B : x.at[3] <= z.at[3]
      BY <1>9 DEF Least
    <3>2. \A z \in C : x.at[4] <= z.at[4]
      BY <1>9 DEF Least
    <3> QED
      BY <3>1, <3>2 DEF Least
  <2>5. y \in C /\ x.at[4] = y.at[4] => y \in D /\ x.at[5] <= y.at[5]
    <3> HIDE DEF C
    <3>1. \A z \in C : x.at[4] <= z.at[4]
      BY <1>9 DEF Least
    <3>2. \A z \in D : x.at[5] <= z.at[5]
      BY <1>8 DEF Least
    <3> QED
      BY <3>1, <3>2 DEF Least
  <2>6. \E n \in 1 .. 5 : x.at[n] # y.at[n]
    BY <1>9, <1>10 DEF Places5
  <2> HIDE DEF A, B, C, D, E
  <2>7. CASE x.at[1] # y.at[1]
    <3>1. x.at[1] < y.at[1]
      BY <2>1, <2>2, <2>7
    <3>2. 1 \in DOMAIN x.at /\ \A m \in 1 .. 1 - 1 : x.at[m] = y.at[m]
      BY <2>1
    <3> QED
      BY <3>1, <3>2 DEF Precedes
  <2>8. CASE x.at[1] = y.at[1] /\ x.at[2] # y.at[2]
    <3>1. x.at[2] < y.at[2]
      BY <2>1, <2>2, <2>8
    <3>2. 2 \in DOMAIN x.at /\ \A m \in 1 .. 2 - 1 : x.at[m] = y.at[m]
      BY <2>1, <2>8
    <3> QED
      BY <3>1, <3>2 DEF Precedes
  <2>9. CASE x.at[1] = y.at[1] /\ x.at[2] = y.at[2] /\ x.at[3] # y.at[3]
    <3>1. x.at[3] < y.at[3]
      BY <2>1, <2>2, <2>3, <2>9
    <3>2. 3 \in DOMAIN x.at /\ \A m \in 1 .. 3 - 1 : m = 1 \/ m = 2
      BY <2>1
    <3>3. \A m \in 1 .. 3 - 1 : x.at[m] = y.at[m]
      BY <2>9, <3>2
    <3> QED
      BY <3>1, <3>2, <3>3 DEF Precedes
  <2>10. CASE x.at[1] = y.at[1] /\ x.at[2] = y.at[2] /\ x.at[3] = y.at[3] /\ x.at[4] # y.at[4]
    <3>1. x.at[4] < y.at[4]
      BY <2>1, <2>2, <2>3, <2>4, <2>10
    <3>2. 4 \in DOMAIN x.at /\ \A m \in 1 .. 4 - 1 : m = 1 \/ m = 2 \/ m = 3
      BY <2>1
    <3>3. \A m \in 1 .. 4 - 1 : x.at[m] = y.at[m]
      BY <2>10, <3>2
    <3> QED
      BY <3>1, <3>2, <3>3 DEF Precedes
  <2>11. CASE /\ x.at[1] = y.at[1] /\ x.at[2] = y.at[2] /\ x.at[3] = y.at[3]
              /\ x.at[4] = y.at[4] /\ x.at[5] # y.at[5]
    <3>1. x.at[5] < y.at[5]
      BY <2>1, <2>2, <2>3, <2>4, <2>5, <2>11
    <3>2. 5 \in DOMAIN x.at /\ \A m \in 1 .. 5 - 1 : m = 1 \/ m = 2 \/ m = 3 \/ m = 4
      BY <2>1
    <3>3. \A m \in 1 .. 5 - 1 : x.at[m] = y.at[m]
      BY <2>11, <3>2
    <3> QED
      BY <3>1, <3>2, <3>3 DEF Precedes
  <2>12. \A n \in 1 .. 5 : n = 1 \/ n = 2 \/ n = 3 \/ n = 4 \/ n = 5
    OBVIOUS
  <2> QED
    BY <2>6, <2>7, <2>8, <2>9, <2>10, <2>11, <2>12
<1> QED
  BY <1>9, <1>10 DEF Earliest

-----------------------------------------------------------------------------
(* What an edit script holds of each token                                 *)

\* Tokens at places of three numbers, told apart by them.
Placed(S) ==
  /\ IsFiniteSet(S)
  /\ \A t \in S : \E i, j, k \in Nat : t = [at |-> <<i, j, k>>, tok |-> t.tok]
  /\ \A t, u \in S : t.at = u.at => t = u

Prior(M, side, t) == Cardinality({p \in M : Precedes(p[side].at, t.at)})
Deletion(M, t) == [tag |-> "Delete", tok |-> t.tok, at |-> <<Prior(M, 1, t), 0>> \o t.at]
Insertion(M, t) == [tag |-> "Insert", tok |-> t.tok, at |-> <<Prior(M, 2, t), 1>> \o t.at]
Equality(M, t) == [tag |-> "Equal", tok |-> t.tok, at |-> <<Prior(M, 2, t), 2>> \o t.at]

LEMMA ScriptIs ==
  ASSUME NEW old, NEW new, NEW M
  PROVE  Script(old, new, M) = {Deletion(M, t) : t \in old \ {p[1] : p \in M}}
                               \cup {Insertion(M, t) : t \in new \ {p[2] : p \in M}}
                               \cup {Equality(M, p[2]) : p \in M}
BY DEF Script, Deletion, Insertion, Equality, Prior

\* Joining two numbers and three.
LEMMA JoinedLengths ==
  \A x, y \in Seq(Nat) :
    /\ x \o y \in Seq(Nat) /\ Len(x \o y) = Len(x) + Len(y)
    /\ \A n \in 1 .. Len(x) + Len(y) : (x \o y)[n] = (IF n <= Len(x) THEN x[n] ELSE y[n - Len(x)])
BY ConcatProperties

LEMMA Joined5 ==
  ASSUME NEW x \in Seq(Nat), NEW y \in Seq(Nat), Len(x) = 2, Len(y) = 3
  PROVE  /\ DOMAIN (x \o y) = 1 .. 5
         /\ (x \o y)[1] = x[1] /\ (x \o y)[2] = x[2]
         /\ (x \o y)[3] = y[1] /\ (x \o y)[4] = y[2] /\ (x \o y)[5] = y[3]
<1>1. /\ x \o y \in Seq(Nat) /\ Len(x \o y) = Len(x) + Len(y)
      /\ \A n \in 1 .. Len(x) + Len(y) : (x \o y)[n] = (IF n <= Len(x) THEN x[n] ELSE y[n - Len(x)])
  BY JoinedLengths
<1>2. x \o y \in Seq(Nat) /\ Len(x \o y) = 2 + 3
  BY <1>1, Zenon
<1>3. \A n \in 1 .. 2 + 3 : (x \o y)[n] = IF n <= 2 THEN x[n] ELSE y[n - 2]
  BY <1>1, Zenon
<1> DEFINE z == x \o y
<1> HIDE DEF z
<1>4. DOMAIN z = 1 .. 5
  <2>1. z \in Seq(Nat) /\ Len(z) = 2 + 3
    BY <1>2 DEF z
  <2> QED
    BY <2>1
<1>5. \A n \in 1 .. 2 + 3 : z[n] = IF n <= 2 THEN x[n] ELSE y[n - 2]
  BY <1>3 DEF z
<1>6. z[1] = x[1] /\ z[2] = x[2] /\ z[3] = y[1] /\ z[4] = y[2] /\ z[5] = y[3]
  BY <1>5
<1> QED
  BY <1>4, <1>6 DEF z

LEMMA Places5Are ==
  ASSUME NEW g \in Nat, NEW r \in Nat, NEW i \in Nat, NEW j \in Nat, NEW k \in Nat
  PROVE  LET at == <<g, r>> \o <<i, j, k>>
         IN /\ DOMAIN at = 1 .. 5
            /\ at[1] = g /\ at[2] = r /\ at[3] = i /\ at[4] = j /\ at[5] = k
<1>1. /\ <<g, r>> \in Seq(Nat) /\ Len(<<g, r>>) = 2 /\ <<i, j, k>> \in Seq(Nat) /\ Len(<<i, j, k>>) = 3
      /\ <<g, r>>[1] = g /\ <<g, r>>[2] = r
      /\ <<i, j, k>>[1] = i /\ <<i, j, k>>[2] = j /\ <<i, j, k>>[3] = k
  OBVIOUS
<1> DEFINE x == <<g, r>>
           y == <<i, j, k>>
<1>2. x \in Seq(Nat) /\ y \in Seq(Nat) /\ Len(x) = 2 /\ Len(y) = 3
  BY <1>1
<1>3. /\ x[1] = g /\ x[2] = r /\ y[1] = i /\ y[2] = j /\ y[3] = k
  BY <1>1
<1> HIDE DEF x, y
<1>4. /\ DOMAIN (x \o y) = 1 .. 5
      /\ (x \o y)[1] = x[1] /\ (x \o y)[2] = x[2]
      /\ (x \o y)[3] = y[1] /\ (x \o y)[4] = y[2] /\ (x \o y)[5] = y[3]
  BY <1>2, Joined5, Zenon
<1>5. /\ DOMAIN (x \o y) = 1 .. 5
      /\ (x \o y)[1] = g /\ (x \o y)[2] = r /\ (x \o y)[3] = i /\ (x \o y)[4] = j /\ (x \o y)[5] = k
  BY <1>3, <1>4
<1> QED
  BY <1>5 DEF x, y

LEMMA FiniteImage ==
  ASSUME NEW S, IsFiniteSet(S), NEW f
  PROVE  IsFiniteSet({f[x] : x \in S})
<1> DEFINE T == {f[x] : x \in S}
           g == [x \in S |-> f[x]]
<1>1. g \in Surjection(S, T)
  BY DEF Surjection
<1> HIDE DEF g, T
<1>2. IsFiniteSet(T)
  BY <1>1, FS_Surjection
<1> QED
  BY <1>2 DEF T

LEMMA PlacedAt ==
  ASSUME NEW S, Placed(S), NEW t \in S
  PROVE  \E i, j, k \in Nat : t.at = <<i, j, k>>
<1>1. PICK i, j, k \in Nat : t = [at |-> <<i, j, k>>, tok |-> t.tok]
  BY DEF Placed
<1>2. t.at = <<i, j, k>>
  BY <1>1
<1> QED
  BY <1>2

\* The place of an operation is that of its token, behind the gap and the kind.
OpPlace(at, t, g, r) ==
  /\ DOMAIN at = 1 .. 5 /\ \A n \in 1 .. 5 : at[n] \in Nat
  /\ at[1] = g /\ at[2] = r
  /\ t.at = <<at[3], at[4], at[5]>>

LEMMA PlaceOfOp ==
  ASSUME NEW S, Placed(S), NEW t \in S, NEW g \in Nat, NEW r \in Nat,
         NEW at, at = <<g, r>> \o t.at
  PROVE  OpPlace(at, t, g, r)
<1>1. PICK i, j, k \in Nat : t.at = <<i, j, k>>
  BY PlacedAt
<1>2. /\ DOMAIN at = 1 .. 5
      /\ at[1] = g /\ at[2] = r /\ at[3] = i /\ at[4] = j /\ at[5] = k
  BY <1>1, Places5Are
<1>3. \A n \in 1 .. 5 : n = 1 \/ n = 2 \/ n = 3 \/ n = 4 \/ n = 5
  OBVIOUS
<1>4. \A n \in 1 .. 5 : at[n] \in Nat
  BY <1>2, <1>3
<1> QED
  BY <1>1, <1>2, <1>4 DEF OpPlace

\* No two pairs share a token.
LEMMA PairsApart ==
  ASSUME NEW old, NEW new, Placed(old), Placed(new), NEW M \in Pairings(old, new)
  PROVE  /\ IsFiniteSet(M)
         /\ \A p \in M : p[1] \in old /\ p[2] \in new /\ p[1].tok = p[2].tok
         /\ \A p, q \in M : p[1] = q[1] \/ p[2] = q[2] => p = q
<1>1. M \subseteq old \X new /\ \A p \in M : p[1].tok = p[2].tok
  BY DEF Pairings
<1>2. IsFiniteSet(M)
  BY <1>1, FS_Product, FS_Subset DEF Placed
<1>3. ASSUME NEW S, Placed(S), NEW t \in S
      PROVE  ~Precedes(t.at, t.at)
  <2>1. PICK i, j, k \in Nat : t = [at |-> <<i, j, k>>, tok |-> t.tok]
    BY <1>3 DEF Placed
  <2>2. \A n \in DOMAIN t.at : t.at[n] \in Nat
    BY <2>1
  <2> QED
    BY <2>2 DEF Precedes
<1>4. \A p, q \in M : \/ p = q
                      \/ Precedes(p[1].at, q[1].at) /\ Precedes(p[2].at, q[2].at)
                      \/ Precedes(q[1].at, p[1].at) /\ Precedes(q[2].at, p[2].at)
  BY DEF Pairings
<1>5. \A p \in M : p[1] \in old /\ p[2] \in new
  BY <1>1
<1> QED
  BY <1>1, <1>2, <1>3, <1>4, <1>5

OfToken(S, tok) == {t \in S : t.tok = tok}

LEMMA ScriptApart ==
  ASSUME NEW old, NEW new, Placed(old), Placed(new), NEW M \in Pairings(old, new)
  PROVE  LET d == Script(old, new, M)
         IN IsFiniteSet(d) /\ Places5(d) /\ \A c \in d : c.tag \in {"Delete", "Insert", "Equal"}
<1> DEFINE d == Script(old, new, M)
           X == {Deletion(M, t) : t \in old \ {p[1] : p \in M}}
           Y == {Insertion(M, t) : t \in new \ {p[2] : p \in M}}
           Z == {Equality(M, p[2]) : p \in M}
<1>1. d = X \cup Y \cup Z
  BY ScriptIs
<1>2. IsFiniteSet(old) /\ IsFiniteSet(new) /\ IsFiniteSet(M)
  BY PairsApart DEF Placed
<1>3. IsFiniteSet(d)
  <2>1. IsFiniteSet(old \ {p[1] : p \in M}) /\ IsFiniteSet(new \ {p[2] : p \in M})
    BY <1>2, FS_Subset
  <2>2. IsFiniteSet(X)
    <3> DEFINE R == old \ {p[1] : p \in M}
               f == [t \in R |-> Deletion(M, t)]
    <3>1. X = {f[t] : t \in R}
      OBVIOUS
    <3> HIDE DEF f, R
    <3> QED
      BY <2>1, <3>1, FiniteImage DEF R
  <2>3. IsFiniteSet(Y)
    <3> DEFINE R == new \ {p[2] : p \in M}
               f == [t \in R |-> Insertion(M, t)]
    <3>1. Y = {f[t] : t \in R}
      OBVIOUS
    <3> HIDE DEF f, R
    <3> QED
      BY <2>1, <3>1, FiniteImage DEF R
  <2>4. IsFiniteSet(Z)
    <3> DEFINE f == [p \in M |-> Equality(M, p[2])]
    <3>1. Z = {f[p] : p \in M}
      OBVIOUS
    <3> HIDE DEF f
    <3> QED
      BY <1>2, <3>1, FiniteImage
  <2> HIDE DEF X, Y, Z, d
  <2> QED
    BY <1>1, <2>2, <2>3, <2>4, FS_Union
<1>4. ASSUME NEW side, NEW t
      PROVE  Prior(M, side, t) \in Nat
  <2>1. {p \in M : Precedes(p[side].at, t.at)} \subseteq M
    OBVIOUS
  <2>2. IsFiniteSet({p \in M : Precedes(p[side].at, t.at)})
    BY <1>2, <2>1, FS_Subset, Zenon
  <2> QED
    BY <2>2, FS_CardinalityType, Zenon DEF Prior
<1>5. \A c \in X : \E t \in old, g \in Nat : c = [tag |-> "Delete", tok |-> t.tok, at |-> <<g, 0>> \o t.at]
  BY <1>4 DEF Deletion
<1>6. \A c \in Y : \E t \in new, g \in Nat : c = [tag |-> "Insert", tok |-> t.tok, at |-> <<g, 1>> \o t.at]
  BY <1>4 DEF Insertion
<1>7. \A c \in Z : \E t \in new, g \in Nat : c = [tag |-> "Equal", tok |-> t.tok, at |-> <<g, 2>> \o t.at]
  <2>1. \A p \in M : p[2] \in new
    BY PairsApart
  <2>2. \A p \in M : Prior(M, 2, p[2]) \in Nat
    BY <1>4
  <2>3. ASSUME NEW p \in M
        PROVE  \E t \in new, g \in Nat :
                 Equality(M, p[2]) = [tag |-> "Equal", tok |-> t.tok, at |-> <<g, 2>> \o t.at]
    BY <2>1, <2>2, Zenon DEF Equality
  <2> QED
    BY <2>3
<1> HIDE DEF X, Y, Z, d
<1>8. \A c \in d :
        \/ \E t \in old, g \in Nat : c = [tag |-> "Delete", tok |-> t.tok, at |-> <<g, 0>> \o t.at]
        \/ \E t \in new, g \in Nat : c = [tag |-> "Insert", tok |-> t.tok, at |-> <<g, 1>> \o t.at]
        \/ \E t \in new, g \in Nat : c = [tag |-> "Equal", tok |-> t.tok, at |-> <<g, 2>> \o t.at]
  BY <1>1, <1>5, <1>6, <1>7
<1>9. ASSUME NEW c \in d
      PROVE  \E S, t, g : /\ Placed(S) /\ t \in S /\ g \in Nat /\ c.tok = t.tok
                          /\ \/ S = old /\ c.tag = "Delete" /\ c.at = <<g, 0>> \o t.at
                             \/ S = new /\ c.tag = "Insert" /\ c.at = <<g, 1>> \o t.at
                             \/ S = new /\ c.tag = "Equal" /\ c.at = <<g, 2>> \o t.at
                          /\ c = [tag |-> c.tag, tok |-> t.tok, at |-> c.at]
  <2>1. CASE \E t \in old, g \in Nat : c = [tag |-> "Delete", tok |-> t.tok, at |-> <<g, 0>> \o t.at]
    <3>1. PICK t \in old, g \in Nat : c = [tag |-> "Delete", tok |-> t.tok, at |-> <<g, 0>> \o t.at]
      BY <2>1
    <3>2. c.tok = t.tok /\ c.tag = "Delete" /\ c.at = <<g, 0>> \o t.at
      BY <3>1
    <3>3. c = [tag |-> c.tag, tok |-> t.tok, at |-> c.at]
      BY <3>1, <3>2
    <3> QED
      BY <3>2, <3>3, Zenon
  <2>2. CASE \E t \in new, g \in Nat : c = [tag |-> "Insert", tok |-> t.tok, at |-> <<g, 1>> \o t.at]
    <3>1. PICK t \in new, g \in Nat : c = [tag |-> "Insert", tok |-> t.tok, at |-> <<g, 1>> \o t.at]
      BY <2>2
    <3>2. c.tok = t.tok /\ c.tag = "Insert" /\ c.at = <<g, 1>> \o t.at
      BY <3>1
    <3>3. c = [tag |-> c.tag, tok |-> t.tok, at |-> c.at]
      BY <3>1, <3>2
    <3> QED
      BY <3>2, <3>3, Zenon
  <2>3. CASE \E t \in new, g \in Nat : c = [tag |-> "Equal", tok |-> t.tok, at |-> <<g, 2>> \o t.at]
    <3>1. PICK t \in new, g \in Nat : c = [tag |-> "Equal", tok |-> t.tok, at |-> <<g, 2>> \o t.at]
      BY <2>3
    <3>2. c.tok = t.tok /\ c.tag = "Equal" /\ c.at = <<g, 2>> \o t.at
      BY <3>1
    <3>3. c = [tag |-> c.tag, tok |-> t.tok, at |-> c.at]
      BY <3>1, <3>2
    <3> QED
      BY <3>2, <3>3, Zenon
  <2> QED
    BY <1>8, <2>1, <2>2, <2>3
<1>10. ASSUME NEW c \in d
       PROVE  \E S, t : /\ Placed(S) /\ t \in S
                        /\ DOMAIN c.at = 1 .. 5 /\ \A n \in 1 .. 5 : c.at[n] \in Nat
                        /\ t.at = <<c.at[3], c.at[4], c.at[5]>>
                        /\ c.at = <<c.at[1], c.at[2]>> \o t.at
                        /\ \/ S = old /\ c.tag = "Delete" /\ c.at[2] = 0
                           \/ S = new /\ c.tag = "Insert" /\ c.at[2] = 1
                           \/ S = new /\ c.tag = "Equal" /\ c.at[2] = 2
                        /\ c = [tag |-> c.tag, tok |-> t.tok, at |-> c.at]
  <2>1. PICK S, t, g : /\ Placed(S) /\ t \in S /\ g \in Nat /\ c.tok = t.tok
                       /\ \/ S = old /\ c.tag = "Delete" /\ c.at = <<g, 0>> \o t.at
                          \/ S = new /\ c.tag = "Insert" /\ c.at = <<g, 1>> \o t.at
                          \/ S = new /\ c.tag = "Equal" /\ c.at = <<g, 2>> \o t.at
                       /\ c = [tag |-> c.tag, tok |-> t.tok, at |-> c.at]
    BY <1>9
  <2>2. ASSUME NEW r \in Nat, c.at = <<g, r>> \o t.at
        PROVE  /\ DOMAIN c.at = 1 .. 5 /\ \A n \in 1 .. 5 : c.at[n] \in Nat
               /\ c.at[2] = r
               /\ c.at = <<c.at[1], c.at[2]>> \o t.at
               /\ t.at = <<c.at[3], c.at[4], c.at[5]>>
    <3> DEFINE at == c.at
    <3> HIDE DEF at
    <3>1. at = <<g, r>> \o t.at
      BY <2>2, Zenon DEF at
    <3>2. OpPlace(at, t, g, r)
      <4>1. Placed(S)
        BY <2>1
      <4>2. t \in S
        BY <2>1
      <4>3. g \in Nat
        BY <2>1
      <4> QED
        BY <2>2, <3>1, <4>1, <4>2, <4>3, PlaceOfOp
    <3>3. at = <<at[1], at[2]>> \o t.at
      <4>1. at[1] = g /\ at[2] = r
        BY <3>2 DEF OpPlace
      <4> QED
        BY <3>1, <4>1, Zenon
    <3> QED
      BY <3>2, <3>3, Zenon DEF at, OpPlace
  <2>3. 0 \in Nat /\ 1 \in Nat /\ 2 \in Nat
    OBVIOUS
  <2> QED
    BY <2>1, <2>2, <2>3
<1>11. ASSUME NEW c \in d, NEW e \in d, \A n \in 1 .. 5 : c.at[n] = e.at[n]
       PROVE  c = e
  <2>1. PICK S, t : /\ Placed(S) /\ t \in S
                    /\ c.at = <<c.at[1], c.at[2]>> \o t.at
                    /\ t.at = <<c.at[3], c.at[4], c.at[5]>>
                    /\ \/ S = old /\ c.tag = "Delete" /\ c.at[2] = 0
                       \/ S = new /\ c.tag = "Insert" /\ c.at[2] = 1
                       \/ S = new /\ c.tag = "Equal" /\ c.at[2] = 2
                    /\ c = [tag |-> c.tag, tok |-> t.tok, at |-> c.at]
    BY <1>10
  <2>2. PICK R, u : /\ Placed(R) /\ u \in R
                    /\ e.at = <<e.at[1], e.at[2]>> \o u.at
                    /\ u.at = <<e.at[3], e.at[4], e.at[5]>>
                    /\ \/ R = old /\ e.tag = "Delete" /\ e.at[2] = 0
                       \/ R = new /\ e.tag = "Insert" /\ e.at[2] = 1
                       \/ R = new /\ e.tag = "Equal" /\ e.at[2] = 2
                    /\ e = [tag |-> e.tag, tok |-> u.tok, at |-> e.at]
    BY <1>10
  <2>3. c.at[1] = e.at[1] /\ c.at[2] = e.at[2] /\ c.at[3] = e.at[3] /\ c.at[4] = e.at[4] /\ c.at[5] = e.at[5]
    BY <1>11
  <2>4. c.tag = e.tag /\ S = R
    BY <2>1, <2>2, <2>3
  <2>5. t = u
    BY <2>1, <2>2, <2>3, <2>4 DEF Placed
  <2>6. c.at = e.at
    BY <2>1, <2>2, <2>3, <2>5, Zenon
  <2> QED
    BY <2>1, <2>2, <2>4, <2>5, <2>6
<1>12. Places5(d)
  BY <1>10, <1>11 DEF Places5
<1> QED
  BY <1>3, <1>10, <1>12 DEF d

\* The script has as many insertions and equalities of a token as the new text
\* has places for it, as many deletions and equalities as the old one.
LEMMA ScriptCounts ==
  ASSUME NEW old, NEW new, Placed(old), Placed(new), NEW M \in Pairings(old, new), NEW tok
  PROVE  LET d == Script(old, new, M)
             F == {c \in d : c.tok = tok /\ c.tag # "Delete"}
             B == {c \in d : c.tok = tok /\ c.tag # "Insert"}
         IN /\ ExistsBijection(OfToken(new, tok), F) /\ ExistsBijection(OfToken(old, tok), B)
<1> DEFINE d == Script(old, new, M)
           F == {c \in d : c.tok = tok /\ c.tag # "Delete"}
           B == {c \in d : c.tok = tok /\ c.tag # "Insert"}
           P1 == {p[1] : p \in M}
           P2 == {p[2] : p \in M}
           partner(t) == (CHOOSE p \in M : p[1] = t)[2]
           f == [t \in OfToken(new, tok) |-> IF t \in P2 THEN Equality(M, t) ELSE Insertion(M, t)]
           b == [t \in OfToken(old, tok) |->
                   IF t \in P1 THEN Equality(M, partner(t)) ELSE Deletion(M, t)]
<1>1. d = {Deletion(M, t) : t \in old \ P1} \cup {Insertion(M, t) : t \in new \ P2}
            \cup {Equality(M, p[2]) : p \in M}
  BY ScriptIs
<1>2. /\ IsFiniteSet(M)
      /\ \A p \in M : p[1] \in old /\ p[2] \in new /\ p[1].tok = p[2].tok
      /\ \A p, q \in M : p[1] = q[1] \/ p[2] = q[2] => p = q
  BY PairsApart
<1>3. ASSUME NEW side, NEW t
      PROVE  Prior(M, side, t) \in Nat
  <2>1. {p \in M : Precedes(p[side].at, t.at)} \subseteq M
    OBVIOUS
  <2>2. IsFiniteSet({p \in M : Precedes(p[side].at, t.at)})
    BY <1>2, <2>1, FS_Subset, Zenon
  <2> QED
    BY <2>2, FS_CardinalityType, Zenon DEF Prior
<1>4. /\ \A t : Deletion(M, t).tag = "Delete" /\ Deletion(M, t).tok = t.tok
      /\ \A t : Insertion(M, t).tag = "Insert" /\ Insertion(M, t).tok = t.tok
      /\ \A t : Equality(M, t).tag = "Equal" /\ Equality(M, t).tok = t.tok
      /\ \A t : Deletion(M, t).at = <<Prior(M, 1, t), 0>> \o t.at
      /\ \A t : Insertion(M, t).at = <<Prior(M, 2, t), 1>> \o t.at
      /\ \A t : Equality(M, t).at = <<Prior(M, 2, t), 2>> \o t.at
  BY DEF Deletion, Insertion, Equality
<1>5. /\ \A t, u \in old : Deletion(M, t) = Deletion(M, u) => t = u
      /\ \A t, u \in new : Insertion(M, t) = Insertion(M, u) => t = u
      /\ \A t, u \in new : Equality(M, t) = Equality(M, u) => t = u
  <2>1. 0 \in Nat /\ 1 \in Nat /\ 2 \in Nat
    OBVIOUS
  <2>2. ASSUME NEW t \in old, NEW u \in old, Deletion(M, t) = Deletion(M, u)
        PROVE  t = u
    <3> DEFINE at == Deletion(M, t).at
    <3> HIDE DEF at
    <3>1. at = <<Prior(M, 1, t), 0>> \o t.at /\ at = <<Prior(M, 1, u), 0>> \o u.at
      BY <1>4, <2>2, Zenon DEF at
    <3>2. PICK g \in Nat : g = Prior(M, 1, t)
      BY <1>3
    <3>3. PICK h \in Nat : h = Prior(M, 1, u)
      BY <1>3
    <3>4. at = <<g, 0>> \o t.at
      BY <3>1, <3>2, Zenon
    <3>5. at = <<h, 0>> \o u.at
      BY <3>1, <3>3, Zenon
    <3>6. OpPlace(at, t, g, 0)
      BY <2>1, <3>4, PlaceOfOp
    <3>7. OpPlace(at, u, h, 0)
      BY <2>1, <3>5, PlaceOfOp
    <3> QED
      BY <3>6, <3>7 DEF OpPlace, Placed
  <2>3. ASSUME NEW t \in new, NEW u \in new, Insertion(M, t) = Insertion(M, u)
        PROVE  t = u
    <3> DEFINE at == Insertion(M, t).at
    <3> HIDE DEF at
    <3>1. at = <<Prior(M, 2, t), 1>> \o t.at /\ at = <<Prior(M, 2, u), 1>> \o u.at
      BY <1>4, <2>3, Zenon DEF at
    <3>2. PICK g \in Nat : g = Prior(M, 2, t)
      BY <1>3
    <3>3. PICK h \in Nat : h = Prior(M, 2, u)
      BY <1>3
    <3>4. at = <<g, 1>> \o t.at
      BY <3>1, <3>2, Zenon
    <3>5. at = <<h, 1>> \o u.at
      BY <3>1, <3>3, Zenon
    <3>6. OpPlace(at, t, g, 1)
      BY <2>1, <3>4, PlaceOfOp
    <3>7. OpPlace(at, u, h, 1)
      BY <2>1, <3>5, PlaceOfOp
    <3> QED
      BY <3>6, <3>7 DEF OpPlace, Placed
  <2>4. ASSUME NEW t \in new, NEW u \in new, Equality(M, t) = Equality(M, u)
        PROVE  t = u
    <3> DEFINE at == Equality(M, t).at
    <3> HIDE DEF at
    <3>1. at = <<Prior(M, 2, t), 2>> \o t.at /\ at = <<Prior(M, 2, u), 2>> \o u.at
      BY <1>4, <2>4, Zenon DEF at
    <3>2. PICK g \in Nat : g = Prior(M, 2, t)
      BY <1>3
    <3>3. PICK h \in Nat : h = Prior(M, 2, u)
      BY <1>3
    <3>4. at = <<g, 2>> \o t.at
      BY <3>1, <3>2, Zenon
    <3>5. at = <<h, 2>> \o u.at
      BY <3>1, <3>3, Zenon
    <3>6. OpPlace(at, t, g, 2)
      BY <2>1, <3>4, PlaceOfOp
    <3>7. OpPlace(at, u, h, 2)
      BY <2>1, <3>5, PlaceOfOp
    <3> QED
      BY <3>6, <3>7 DEF OpPlace, Placed
  <2> QED
    BY <2>2, <2>3, <2>4
<1>6. \A p \in M : partner(p[1]) = p[2]
  <2> SUFFICES ASSUME NEW p \in M
               PROVE  partner(p[1]) = p[2]
    OBVIOUS
  <2> DEFINE q == CHOOSE q \in M : q[1] = p[1]
  <2>1. q \in M /\ q[1] = p[1]
    BY Zenon
  <2>2. q = p
    BY <1>2, <2>1, Zenon
  <2> QED
    BY <2>2
<1> HIDE DEF d, partner
<1>7. ExistsBijection(OfToken(new, tok), F)
  <2>1. \A t \in OfToken(new, tok) : f[t] \in F
    <3> SUFFICES ASSUME NEW t \in OfToken(new, tok)
                 PROVE  f[t] \in F
      OBVIOUS
    <3>1. t \in new /\ t.tok = tok
      BY DEF OfToken
    <3>2. CASE t \in P2
      <4>1. Equality(M, t) \in d
        BY <1>1, <3>2
      <4> QED
        BY <1>4, <3>1, <3>2, <4>1
    <3>3. CASE t \notin P2
      <4>1. Insertion(M, t) \in d
        BY <1>1, <3>1, <3>3
      <4> QED
        BY <1>4, <3>1, <3>3, <4>1
    <3> QED
      BY <3>2, <3>3
  <2>2. ASSUME NEW t \in OfToken(new, tok), NEW u \in OfToken(new, tok), f[t] = f[u]
        PROVE  t = u
    <3>1. t \in new /\ u \in new
      BY DEF OfToken
    <3>2. t \in P2 <=> u \in P2
      BY <1>4, <2>2
    <3> QED
      BY <1>5, <2>2, <3>1, <3>2
  <2>3. \A c \in F : \E t \in OfToken(new, tok) : f[t] = c
    <3> SUFFICES ASSUME NEW c \in F
                 PROVE  \E t \in OfToken(new, tok) : f[t] = c
      OBVIOUS
    <3>1. CASE \E t \in new \ P2 : c = Insertion(M, t)
      BY <1>4, <3>1 DEF OfToken
    <3>2. CASE \E p \in M : c = Equality(M, p[2])
      <4>1. PICK p \in M : c = Equality(M, p[2])
        BY <3>2
      <4>2. p[2] \in OfToken(new, tok) /\ p[2] \in P2
        BY <1>2, <1>4, <4>1 DEF OfToken
      <4> QED
        BY <4>1, <4>2
    <3>3. \A t : c # Deletion(M, t)
      BY <1>4
    <3> QED
      BY <1>1, <3>1, <3>2, <3>3
  <2> HIDE DEF f, F
  <2>4. f \in [OfToken(new, tok) -> F]
    BY <2>1 DEF f
  <2> QED
    BY <2>2, <2>3, <2>4 DEF ExistsBijection, Bijection, Injection, IsInjective, Surjection
<1>8. ExistsBijection(OfToken(old, tok), B)
  <2>1. ASSUME NEW t \in OfToken(old, tok), t \in P1
        PROVE  \E p \in M : t = p[1] /\ partner(t) = p[2] /\ b[t] = Equality(M, p[2])
    <3>1. PICK p \in M : t = p[1]
      BY <2>1
    <3>2. b[t] = Equality(M, partner(t))
      BY <2>1
    <3> QED
      BY <1>6, <3>1, <3>2
  <2>2. \A t \in OfToken(old, tok) : t \notin P1 => b[t] = Deletion(M, t)
    OBVIOUS
  <2>3. \A t \in OfToken(old, tok) : t \in old /\ t.tok = tok
    BY DEF OfToken
  <2> HIDE DEF b
  <2>4. \A t \in OfToken(old, tok) : b[t] \in B
    <3> SUFFICES ASSUME NEW t \in OfToken(old, tok)
                 PROVE  b[t] \in B
      OBVIOUS
    <3>1. CASE t \in P1
      <4>1. PICK p \in M : t = p[1] /\ b[t] = Equality(M, p[2])
        BY <2>1, <3>1
      <4>2. Equality(M, p[2]) \in d
        BY <1>1
      <4> QED
        BY <1>2, <1>4, <2>3, <4>1, <4>2
    <3>2. CASE t \notin P1
      <4>1. Deletion(M, t) \in d
        BY <1>1, <2>3, <3>2
      <4> QED
        BY <1>4, <2>2, <2>3, <3>2, <4>1
    <3> QED
      BY <3>1, <3>2
  <2>5. ASSUME NEW t \in OfToken(old, tok), NEW u \in OfToken(old, tok), b[t] = b[u]
        PROVE  t = u
    <3>1. CASE t \in P1 /\ u \in P1
      <4>1. PICK p \in M : t = p[1] /\ b[t] = Equality(M, p[2])
        BY <2>1, <3>1
      <4>2. PICK q \in M : u = q[1] /\ b[u] = Equality(M, q[2])
        BY <2>1, <3>1
      <4>3. p[2] = q[2]
        BY <1>2, <1>5, <2>5, <4>1, <4>2
      <4> QED
        BY <1>2, <4>1, <4>2, <4>3
    <3>2. CASE t \notin P1 /\ u \notin P1
      BY <1>5, <2>2, <2>3, <2>5, <3>2
    <3>3. ASSUME NEW x \in OfToken(old, tok), NEW y \in OfToken(old, tok), x \in P1, y \notin P1
          PROVE  b[x] # b[y]
      <4>1. b[x].tag = "Equal"
        BY <1>4, <2>1, <3>3
      <4>2. b[y].tag = "Delete"
        BY <1>4, <2>2, <3>3
      <4> QED
        BY <4>1, <4>2
    <3> QED
      BY <2>5, <3>1, <3>2, <3>3
  <2>6. \A c \in B : \E t \in OfToken(old, tok) : b[t] = c
    <3> SUFFICES ASSUME NEW c \in B
                 PROVE  \E t \in OfToken(old, tok) : b[t] = c
      OBVIOUS
    <3>1. CASE \E t \in old \ P1 : c = Deletion(M, t)
      BY <1>4, <2>2, <3>1 DEF OfToken
    <3>2. CASE \E p \in M : c = Equality(M, p[2])
      <4>1. PICK p \in M : c = Equality(M, p[2])
        BY <3>2
      <4>2. p[1] \in OfToken(old, tok) /\ p[1] \in P1
        BY <1>2, <1>4, <4>1 DEF OfToken
      <4>3. PICK q \in M : p[1] = q[1] /\ b[p[1]] = Equality(M, q[2])
        BY <2>1, <4>2
      <4>4. q = p
        BY <1>2, <4>3
      <4> QED
        BY <4>1, <4>2, <4>3, <4>4
    <3>3. \A t : c # Insertion(M, t)
      BY <1>4
    <3> QED
      BY <1>1, <3>1, <3>2, <3>3
  <2> HIDE DEF B
  <2>7. b \in [OfToken(old, tok) -> B]
    BY <2>4 DEF b
  <2> QED
    BY <2>5, <2>6, <2>7 DEF ExistsBijection, Bijection, Injection, IsInjective, Surjection
<1> QED
  BY <1>7, <1>8 DEF d

-----------------------------------------------------------------------------
(* The unmatched words of the previous revision and the tokens still       *)
(* awaited                                                                 *)

PrevWord(i, j, k) == sentences[paragraphs[PrevParagraphs[i]].sentences_ordered[j]].words_ordered[k]

LEMMA UnmatchedWordIs ==
  ASSUME TypeOK, NEW w \in UnmatchedWordsPrev
  PROVE  \E i \in DOMAIN PrevParagraphs :
         \E j \in DOMAIN paragraphs[PrevParagraphs[i]].sentences_ordered :
         \E k \in DOMAIN sentences[paragraphs[PrevParagraphs[i]].sentences_ordered[j]].words_ordered :
           w = [at |-> <<i, j, k>>, id |-> PrevWord(i, j, k)]
<1> DEFINE S(i) == paragraphs[PrevParagraphs[i]].sentences_ordered
<1>1. PICK c \in SentencesPrev :
        \E k \in DOMAIN sentences[c.id].words_ordered :
          w = [at |-> <<c.at[2], c.at[3], k>>, id |-> sentences[c.id].words_ordered[k]]
  BY DEF UnmatchedWordsPrev
<1>2. PICK k \in DOMAIN sentences[c.id].words_ordered :
        w = [at |-> <<c.at[2], c.at[3], k>>, id |-> sentences[c.id].words_ordered[k]]
  BY <1>1
<1>3. PICK i \in UnmatchedParagraphsPrev : \E j \in DOMAIN S(i) : c = [at |-> <<0, i, j>>, id |-> S(i)[j]]
  BY DEF SentencesPrev
<1>4. PICK j \in DOMAIN S(i) : c = [at |-> <<0, i, j>>, id |-> S(i)[j]]
  BY <1>3
<1>5. i \in DOMAIN PrevParagraphs
  BY DEF UnmatchedParagraphsPrev
<1>6. c.id = S(i)[j] /\ c.at[2] = i /\ c.at[3] = j
  BY <1>4
<1>7. w = [at |-> <<i, j, k>>, id |-> PrevWord(i, j, k)]
  BY <1>2, <1>6 DEF PrevWord
<1> QED
  BY <1>2, <1>5, <1>6, <1>7

LEMMA UnmatchedWordsApart ==
  ASSUME TypeOK, WordsOnce
  PROVE  /\ IsFiniteSet(UnmatchedWordsPrev)
         /\ \A w \in UnmatchedWordsPrev : \E i, j, k \in Nat : w.at = <<i, j, k>>
         /\ \A v, w \in UnmatchedWordsPrev : v.at = w.at \/ v.id = w.id => v = w
<1> DEFINE S(i) == paragraphs[PrevParagraphs[i]].sentences_ordered
           W(i, j) == sentences[S(i)[j]].words_ordered
<1>1. PrevParagraphs \in Seq(DOMAIN paragraphs)
  BY PartsIn
<1>2. ASSUME NEW i \in DOMAIN PrevParagraphs
      PROVE  i \in Nat /\ PrevParagraphs[i] \in DOMAIN paragraphs /\ S(i) \in Seq(DOMAIN sentences)
  <2>1. i \in Nat /\ PrevParagraphs[i] \in DOMAIN paragraphs
    BY <1>1, ElementIn
  <2> QED
    BY <2>1, PartsIn DEF ParagraphType
<1>3. ASSUME NEW i \in DOMAIN PrevParagraphs, NEW j \in DOMAIN S(i)
      PROVE  j \in Nat /\ S(i)[j] \in DOMAIN sentences /\ W(i, j) \in Seq(DOMAIN words)
  <2>1. j \in Nat /\ S(i)[j] \in DOMAIN sentences
    BY <1>2, ElementIn
  <2> QED
    BY <2>1, PartsIn DEF SentenceType
<1>4. ASSUME NEW i \in DOMAIN PrevParagraphs, NEW j \in DOMAIN S(i), NEW k \in DOMAIN W(i, j)
      PROVE  k \in Nat /\ W(i, j)[k] \in DOMAIN words
  BY <1>3, ElementIn
<1>5. ASSUME NEW i \in DOMAIN PrevParagraphs, NEW j \in DOMAIN S(i), NEW k \in DOMAIN W(i, j),
             NEW ii \in DOMAIN PrevParagraphs, NEW jj \in DOMAIN S(ii), NEW kk \in DOMAIN W(ii, jj),
             W(i, j)[k] = W(ii, jj)[kk]
      PROVE  i = ii /\ j = jj /\ k = kk
  <2>1. /\ W(i, j)[k] \in SentenceWords(S(i)[j])
        /\ W(i, j)[k] \in SentenceWords(S(ii)[jj])
    BY <1>5 DEF SentenceWords, Range
  <2>2. /\ W(i, j)[k] \in ParagraphWords(PrevParagraphs[i])
        /\ W(i, j)[k] \in ParagraphWords(PrevParagraphs[ii])
    BY <2>1 DEF ParagraphWords, ParagraphSentences, Range
  <2>3. i = ii
    <3>1. revision_prev # None
      BY DEF PrevParagraphs
    <3>2. revision_prev \in DOMAIN revisions
      BY <3>1 DEF TypeOK
    <3> QED
      BY <2>2, <3>1, <3>2 DEF WordsOnce, RevisionOnce, PrevParagraphs
  <2>4. j = jj
    BY <1>2, <2>1, <2>3 DEF WordsOnce, ParagraphOnce
  <2>5. k = kk
    BY <1>3, <1>5, <2>3, <2>4 DEF WordsOnce, SentenceOnce
  <2> QED
    BY <2>3, <2>4, <2>5, SMTT(30)
<1>6. ASSUME NEW w \in UnmatchedWordsPrev
      PROVE  \E i \in DOMAIN PrevParagraphs : \E j \in DOMAIN S(i) : \E k \in DOMAIN W(i, j) :
               w = [at |-> <<i, j, k>>, id |-> W(i, j)[k]]
  BY UnmatchedWordIs DEF PrevWord
<1> HIDE DEF S, W
<1>7. ASSUME NEW w \in UnmatchedWordsPrev
      PROVE  \E i, j, k \in Nat : w.at = <<i, j, k>>
  <2>1. PICK i \in DOMAIN PrevParagraphs : \E j \in DOMAIN S(i) : \E k \in DOMAIN W(i, j) :
               w = [at |-> <<i, j, k>>, id |-> W(i, j)[k]]
    BY <1>6
  <2>2. PICK j \in DOMAIN S(i) : \E k \in DOMAIN W(i, j) : w = [at |-> <<i, j, k>>, id |-> W(i, j)[k]]
    BY <2>1
  <2>3. PICK k \in DOMAIN W(i, j) : w = [at |-> <<i, j, k>>, id |-> W(i, j)[k]]
    BY <2>2
  <2>4. i \in Nat /\ j \in Nat /\ k \in Nat
    BY <1>2, <1>3, <1>4
  <2>5. w.at = <<i, j, k>>
    BY <2>3
  <2> QED
    BY <2>4, <2>5
<1>8. ASSUME NEW v \in UnmatchedWordsPrev, NEW w \in UnmatchedWordsPrev, v.at = w.at \/ v.id = w.id
      PROVE  v = w
  <2>1. PICK i \in DOMAIN PrevParagraphs : \E j \in DOMAIN S(i) : \E k \in DOMAIN W(i, j) :
               v = [at |-> <<i, j, k>>, id |-> W(i, j)[k]]
    BY <1>6
  <2>2. PICK j \in DOMAIN S(i) : \E k \in DOMAIN W(i, j) : v = [at |-> <<i, j, k>>, id |-> W(i, j)[k]]
    BY <2>1
  <2>3. PICK k \in DOMAIN W(i, j) : v = [at |-> <<i, j, k>>, id |-> W(i, j)[k]]
    BY <2>2
  <2>4. PICK ii \in DOMAIN PrevParagraphs : \E jj \in DOMAIN S(ii) : \E kk \in DOMAIN W(ii, jj) :
               w = [at |-> <<ii, jj, kk>>, id |-> W(ii, jj)[kk]]
    BY <1>6
  <2>5. PICK jj \in DOMAIN S(ii) : \E kk \in DOMAIN W(ii, jj) :
               w = [at |-> <<ii, jj, kk>>, id |-> W(ii, jj)[kk]]
    BY <2>4
  <2>6. PICK kk \in DOMAIN W(ii, jj) : w = [at |-> <<ii, jj, kk>>, id |-> W(ii, jj)[kk]]
    BY <2>5
  <2>7. v.at = <<i, j, k>> /\ v.id = W(i, j)[k] /\ w.at = <<ii, jj, kk>> /\ w.id = W(ii, jj)[kk]
    BY <2>3, <2>6
  <2>8. CASE v.at = w.at
    <3>1. i = ii /\ j = jj /\ k = kk
      BY <2>7, <2>8
    <3> QED
      BY <2>3, <2>6, <3>1
  <2>9. CASE v.id = w.id
    <3>1. i = ii /\ j = jj /\ k = kk
      <4>1. W(i, j)[k] = W(ii, jj)[kk]
        BY <2>7, <2>9, Zenon
      <4> QED
        BY <1>5, <4>1
    <3> QED
      BY <2>3, <2>6, <3>1
  <2> QED
    BY <1>8, <2>8, <2>9
<1>9. IsFiniteSet(UnmatchedWordsPrev)
  <2> DEFINE f == [w \in UnmatchedWordsPrev |-> w.id]
  <2>1. \A w \in UnmatchedWordsPrev : w.id \in DOMAIN words
    BY CandidatesIn
  <2>2. f \in Injection(UnmatchedWordsPrev, DOMAIN words)
    BY <1>8, <2>1 DEF Injection, IsInjective
  <2>3. IsFiniteSet(DOMAIN words)
    <3>1. DOMAIN words = 1 .. Len(words) /\ Len(words) \in Nat
      BY ElementIn DEF TypeOK
    <3> QED
      BY <3>1, FS_Interval
  <2> HIDE DEF f
  <2> QED
    BY <2>2, <2>3, FS_Injection
<1> QED
  BY <1>7, <1>8, <1>9

\* Every unmatched previous word is a token of the old text, in its place.
LEMMA TextPrevIs ==
  ASSUME TypeOK, WordsOnce
  PROVE  /\ Placed(TextPrev)
         /\ \A tok : ExistsBijection(Free(tok), OfToken(TextPrev, tok)) /\ IsFiniteSet(Free(tok))
<1> DEFINE token == [w \in UnmatchedWordsPrev |-> [at |-> w.at, tok |-> words[w.id].value]]
<1>1. TextPrev = {token[w] : w \in UnmatchedWordsPrev}
  BY DEF TextPrev
<1>2. /\ IsFiniteSet(UnmatchedWordsPrev)
      /\ \A w \in UnmatchedWordsPrev : \E i, j, k \in Nat : w.at = <<i, j, k>>
      /\ \A v, w \in UnmatchedWordsPrev : v.at = w.at \/ v.id = w.id => v = w
  BY UnmatchedWordsApart
<1>3. \A w \in UnmatchedWordsPrev :
        /\ token[w] = [at |-> w.at, tok |-> token[w].tok]
        /\ token[w].at = w.at /\ token[w].tok = words[w.id].value
  OBVIOUS
<1> HIDE DEF token
<1>4. IsFiniteSet(TextPrev)
  BY <1>1, <1>2, FiniteImage
<1>5. ASSUME NEW t \in TextPrev
      PROVE  \E i, j, k \in Nat : t = [at |-> <<i, j, k>>, tok |-> t.tok]
  <2>1. PICK w \in UnmatchedWordsPrev : t = token[w]
    BY <1>1
  <2>2. PICK i, j, k \in Nat : w.at = <<i, j, k>>
    BY <1>2
  <2>3. t = [at |-> w.at, tok |-> t.tok]
    BY <1>3, <2>1
  <2> QED
    BY <2>2, <2>3
<1>6. ASSUME NEW t \in TextPrev, NEW u \in TextPrev, t.at = u.at
      PROVE  t = u
  <2>1. PICK v \in UnmatchedWordsPrev : t = token[v]
    BY <1>1
  <2>2. PICK w \in UnmatchedWordsPrev : u = token[w]
    BY <1>1
  <2>3. v.at = w.at
    BY <1>3, <1>6, <2>1, <2>2
  <2> QED
    BY <1>2, <2>1, <2>2, <2>3
<1>7. Placed(TextPrev)
  BY <1>4, <1>5, <1>6 DEF Placed
<1>8. ASSUME NEW tok
      PROVE  ExistsBijection(Free(tok), OfToken(TextPrev, tok)) /\ IsFiniteSet(Free(tok))
  <2> DEFINE f == [w \in Free(tok) |-> token[w]]
  <2>1. Free(tok) \subseteq UnmatchedWordsPrev /\ \A w \in Free(tok) : words[w.id].value = tok
    BY DEF Free
  <2>2. \A w \in Free(tok) : f[w] \in OfToken(TextPrev, tok)
    BY <1>1, <1>3, <2>1 DEF OfToken
  <2>3. ASSUME NEW v \in Free(tok), NEW w \in Free(tok), f[v] = f[w]
        PROVE  v = w
    <3>1. v.at = w.at
      BY <1>3, <2>1, <2>3
    <3> QED
      BY <1>2, <2>1, <3>1
  <2>4. \A t \in OfToken(TextPrev, tok) : \E w \in Free(tok) : f[w] = t
    <3> SUFFICES ASSUME NEW t \in OfToken(TextPrev, tok)
                 PROVE  \E w \in Free(tok) : f[w] = t
      OBVIOUS
    <3>1. t \in TextPrev /\ t.tok = tok
      BY DEF OfToken
    <3>2. PICK w \in UnmatchedWordsPrev : t = token[w]
      BY <1>1, <3>1
    <3>3. w \in Free(tok)
      BY <1>3, <3>1, <3>2 DEF Free
    <3> QED
      BY <3>2, <3>3
  <2> HIDE DEF f
  <2>5. f \in [Free(tok) -> OfToken(TextPrev, tok)]
    BY <2>2 DEF f
  <2>6. IsFiniteSet(Free(tok))
    BY <1>2, <2>1, FS_Subset
  <2> QED
    BY <2>3, <2>4, <2>5, <2>6 DEF ExistsBijection, Bijection, Injection, IsInjective, Surjection
<1> QED
  BY <1>7, <1>8

\* The places of a token that new sentences still await.
Awaited(tok) ==
  {x \in Range(unmatched_sentences_curr) \X Nat :
     /\ Len(sentences[x[1]].words_ordered) < x[2] /\ x[2] <= Len(sentences[x[1]].value)
     /\ sentences[x[1]].value[x[2]] = tok}

NewSentencesOnce ==
  \A m, n \in DOMAIN unmatched_sentences_curr :
    unmatched_sentences_curr[m] = unmatched_sentences_curr[n] => m = n

\* Before the diff, the new text is what the new sentences await.
LEMMA TextCurrIs ==
  ASSUME TypeOK, NewSentencesOnce,
         \A s \in Range(unmatched_sentences_curr) : sentences[s].words_ordered = <<>>
  PROVE  /\ Placed(TextCurr)
         /\ \A tok : ExistsBijection(OfToken(TextCurr, tok), Awaited(tok))
<1> DEFINE U == unmatched_sentences_curr
           V(n) == sentences[U[n]].value
           at(n, k) == [at |-> <<n, k, 0>>, tok |-> V(n)[k]]
           part(n) == {at(n, k) : k \in DOMAIN V(n)}
<1>1. /\ U \in Seq(DOMAIN sentences)
      /\ \A n \in DOMAIN U : n \in Nat /\ U[n] \in DOMAIN sentences /\ U[n] \in Range(U)
      /\ \A s \in Range(U) : \E n \in DOMAIN U : s = U[n]
  BY ElementIn DEF TypeOK, Range
<1>2. \A n \in DOMAIN U : V(n) \in Sentence
  BY <1>1, PartsIn DEF SentenceType
<1>3. \A n \in DOMAIN U : Len(V(n)) \in Nat /\ DOMAIN V(n) = 1 .. Len(V(n))
  BY <1>2 DEF Sentence
<1>4. \A t : t \in TextCurr <=> \E n \in DOMAIN U : \E k \in DOMAIN V(n) : t = at(n, k)
  BY DEF TextCurr
<1>5. IsFiniteSet(TextCurr)
  <2> DEFINE parts == [n \in DOMAIN U |-> part(n)]
             all == {parts[n] : n \in DOMAIN U}
  <2>1. ASSUME NEW n \in DOMAIN U
        PROVE  IsFiniteSet(part(n))
    <3> DEFINE f == [k \in DOMAIN V(n) |-> at(n, k)]
    <3>1. part(n) = {f[k] : k \in DOMAIN V(n)}
      OBVIOUS
    <3>2. IsFiniteSet(DOMAIN V(n))
      BY <1>3, FS_Interval
    <3> HIDE DEF f, part, V
    <3> QED
      BY <3>1, <3>2, FiniteImage
  <2>2. TextCurr = UNION all
    BY DEF TextCurr
  <2>3. IsFiniteSet(DOMAIN U)
    <3>1. DOMAIN U = 1 .. Len(U) /\ Len(U) \in Nat
      BY <1>1
    <3> QED
      BY <3>1, FS_Interval
  <2>4. \A T \in all : IsFiniteSet(T)
    BY <2>1
  <2> HIDE DEF parts, part, U
  <2>5. IsFiniteSet(all)
    BY <2>3, FiniteImage
  <2> HIDE DEF all
  <2> QED
    BY <2>2, <2>4, <2>5, FS_UNION
<1>6. \A n \in DOMAIN U : \A k \in DOMAIN V(n) :
        /\ n \in Nat /\ k \in Nat
        /\ at(n, k).at = <<n, k, 0>> /\ at(n, k).tok = V(n)[k]
        /\ at(n, k).at[1] = n /\ at(n, k).at[2] = k
        /\ at(n, k) = [at |-> <<n, k, 0>>, tok |-> at(n, k).tok]
  BY <1>1, <1>3
<1> HIDE DEF U, V, at, part
<1>7. ASSUME NEW t \in TextCurr
      PROVE  \E i, j, k \in Nat : t = [at |-> <<i, j, k>>, tok |-> t.tok]
  <2>1. PICK n \in DOMAIN U : \E k \in DOMAIN V(n) : t = at(n, k)
    BY <1>4
  <2>2. PICK k \in DOMAIN V(n) : t = at(n, k)
    BY <2>1
  <2>3. n \in Nat /\ k \in Nat /\ 0 \in Nat /\ t = [at |-> <<n, k, 0>>, tok |-> t.tok]
    BY <1>6, <2>2
  <2> QED
    BY <2>3
<1>8. ASSUME NEW t \in TextCurr, NEW u \in TextCurr, t.at[1] = u.at[1], t.at[2] = u.at[2]
      PROVE  t = u
  <2>1. PICK n \in DOMAIN U : \E k \in DOMAIN V(n) : t = at(n, k)
    BY <1>4
  <2>2. PICK k \in DOMAIN V(n) : t = at(n, k)
    BY <2>1
  <2>3. PICK m \in DOMAIN U : \E l \in DOMAIN V(m) : u = at(m, l)
    BY <1>4
  <2>4. PICK l \in DOMAIN V(m) : u = at(m, l)
    BY <2>3
  <2>5. n = m /\ k = l
    BY <1>6, <1>8, <2>2, <2>4
  <2> QED
    BY <2>2, <2>4, <2>5
<1>9. Placed(TextCurr)
  <2>1. \A t, u \in TextCurr : t.at = u.at => t = u
    BY <1>8
  <2> QED
    BY <1>5, <1>7, <2>1 DEF Placed
<1>10. ASSUME NEW tok
       PROVE  ExistsBijection(OfToken(TextCurr, tok), Awaited(tok))
  <2> DEFINE f == [t \in OfToken(TextCurr, tok) |-> <<U[t.at[1]], t.at[2]>>]
  <2>1. \A x : x \in Awaited(tok) <=> \E n \in DOMAIN U : \E k \in DOMAIN V(n) :
                                         x = <<U[n], k>> /\ V(n)[k] = tok
    <3>1. ASSUME NEW n \in DOMAIN U, NEW k \in DOMAIN V(n), V(n)[k] = tok
          PROVE  <<U[n], k>> \in Awaited(tok)
      <4>1. U[n] \in Range(U) /\ sentences[U[n]].words_ordered = <<>> /\ k \in Nat /\ 0 < k
            /\ k <= Len(sentences[U[n]].value) /\ sentences[U[n]].value[k] = tok
        BY <1>1, <1>3, <3>1 DEF U, V
      <4> QED
        BY <4>1 DEF Awaited, U
    <3>2. ASSUME NEW x \in Awaited(tok)
          PROVE  \E n \in DOMAIN U : \E k \in DOMAIN V(n) : x = <<U[n], k>> /\ V(n)[k] = tok
      <4>1. /\ x[1] \in Range(U) /\ x[2] \in Nat /\ x = <<x[1], x[2]>>
            /\ Len(sentences[x[1]].words_ordered) < x[2] /\ x[2] <= Len(sentences[x[1]].value)
            /\ sentences[x[1]].value[x[2]] = tok
        BY DEF Awaited, U
      <4>2. PICK n \in DOMAIN U : x[1] = U[n]
        BY <1>1, <4>1
      <4>3. Len(sentences[x[1]].words_ordered) = 0
        BY <4>1 DEF U
      <4>4. x[2] \in DOMAIN V(n)
        BY <1>3, <4>1, <4>2, <4>3 DEF V
      <4> QED
        BY <4>1, <4>2, <4>4 DEF V
    <3> QED
      BY <3>1, <3>2
  <2>2. ASSUME NEW t \in OfToken(TextCurr, tok)
        PROVE  \E n \in DOMAIN U : \E k \in DOMAIN V(n) :
                 /\ V(n)[k] = tok /\ t = at(n, k)
                 /\ t.at[1] = n /\ t.at[2] = k /\ f[t] = <<U[n], k>>
    <3>1. t \in TextCurr /\ t.tok = tok
      BY DEF OfToken
    <3>2. PICK n \in DOMAIN U : \E k \in DOMAIN V(n) : t = at(n, k)
      BY <1>4, <3>1
    <3>3. PICK k \in DOMAIN V(n) : t = at(n, k)
      BY <3>2
    <3>4. V(n)[k] = tok /\ t.at[1] = n /\ t.at[2] = k
      BY <1>6, <3>1, <3>3
    <3>5. f[t] = <<U[t.at[1]], t.at[2]>>
      OBVIOUS
    <3> HIDE DEF f
    <3>6. f[t] = <<U[n], k>>
      BY <3>4, <3>5
    <3> QED
      BY <3>3, <3>4, <3>6
  <2> HIDE DEF f
  <2>3. ASSUME NEW t \in OfToken(TextCurr, tok)
        PROVE  f[t] \in Awaited(tok)
    <3>1. PICK n \in DOMAIN U : \E k \in DOMAIN V(n) : V(n)[k] = tok /\ f[t] = <<U[n], k>>
      BY <2>2
    <3>2. PICK k \in DOMAIN V(n) : V(n)[k] = tok /\ f[t] = <<U[n], k>>
      BY <3>1
    <3> QED
      BY <2>1, <3>2
  <2>4. ASSUME NEW t \in OfToken(TextCurr, tok), NEW u \in OfToken(TextCurr, tok), f[t] = f[u]
        PROVE  t = u
    <3>1. PICK n \in DOMAIN U : \E k \in DOMAIN V(n) :
                 t.at[1] = n /\ t.at[2] = k /\ f[t] = <<U[n], k>>
      BY <2>2
    <3>2. PICK m \in DOMAIN U : \E l \in DOMAIN V(m) :
                 u.at[1] = m /\ u.at[2] = l /\ f[u] = <<U[m], l>>
      BY <2>2
    <3>3. U[n] = U[m] /\ t.at[2] = u.at[2]
      <4>1. PICK k : t.at[2] = k /\ f[t] = <<U[n], k>>
        BY <3>1
      <4>2. PICK l : u.at[2] = l /\ f[u] = <<U[m], l>>
        BY <3>2
      <4>3. <<U[n], k>> = <<U[m], l>>
        BY <2>4, <4>1, <4>2, Zenon
      <4>4. U[n] = U[m] /\ k = l
        BY <4>3, Zenon
      <4> QED
        BY <4>1, <4>2, <4>4
    <3>4. n = m
      BY <3>3 DEF NewSentencesOnce, U
    <3> QED
      BY <1>8, <3>1, <3>2, <3>3, <3>4 DEF OfToken
  <2>5. \A x \in Awaited(tok) : \E t \in OfToken(TextCurr, tok) : f[t] = x
    <3> SUFFICES ASSUME NEW x \in Awaited(tok)
                 PROVE  \E t \in OfToken(TextCurr, tok) : f[t] = x
      OBVIOUS
    <3>1. PICK n \in DOMAIN U : \E k \in DOMAIN V(n) : x = <<U[n], k>> /\ V(n)[k] = tok
      BY <2>1
    <3>2. PICK k \in DOMAIN V(n) : x = <<U[n], k>> /\ V(n)[k] = tok
      BY <3>1
    <3>3. at(n, k) \in OfToken(TextCurr, tok)
      BY <1>4, <1>6, <3>2 DEF OfToken
    <3>4. f[at(n, k)] = <<U[n], k>>
      <4>1. at(n, k).at[1] = n /\ at(n, k).at[2] = k
        BY <1>6
      <4>2. \A t \in OfToken(TextCurr, tok) : f[t] = <<U[t.at[1]], t.at[2]>>
        BY DEF f
      <4> QED
        BY <3>3, <4>1, <4>2
    <3> QED
      BY <3>2, <3>3, <3>4
  <2>6. f \in [OfToken(TextCurr, tok) -> Awaited(tok)]
    BY <2>3 DEF f
  <2> QED
    BY <2>4, <2>5, <2>6 DEF ExistsBijection, Bijection, Injection, IsInjective, Surjection
<1> QED
  BY <1>9, <1>10

-----------------------------------------------------------------------------
(* The diff provides for every awaited token                               *)

Fresh(tok) == {c \in diff : c.tok = tok /\ c.tag # "Delete"}
Stale(tok) == {c \in diff : c.tok = tok /\ c.tag # "Insert"}

\* As many insertions and equalities as places awaiting the token, as many
\* deletions and equalities as previous words that are free for it.
Balanced ==
  /\ IsFiniteSet(diff) /\ Places5(diff)
  /\ \A c \in diff : c.tag \in {"Delete", "Insert", "Equal"}
  /\ \A tok : /\ IsFiniteSet(Awaited(tok)) /\ IsFiniteSet(Free(tok))
              /\ Cardinality(Fresh(tok)) = Cardinality(Awaited(tok))
              /\ Cardinality(Stale(tok)) = Cardinality(Free(tok))

Provided ==
  /\ NewSentencesOnce
  /\ pc \in {"paragraphs", "sentences", "words"} =>
       \A s \in Range(unmatched_sentences_curr) : sentences[s].words_ordered = <<>>
  /\ pc # "match" => \A c \in diff : c.tag = "Delete"
  /\ pc = "match" => Balanced

LEMMA StartBalanced ==
  ASSUME TypeOK, WordsOnce, Provided, StartDiff
  PROVE  Balanced'
<1>1. PICK M \in Pairings(TextPrev, TextCurr) : diff' = Script(TextPrev, TextCurr, M)
  BY DEF StartDiff, EditScripts
<1>2. pc = "words"
  BY DEF StartDiff
<1>3. /\ Placed(TextPrev)
      /\ \A tok : ExistsBijection(Free(tok), OfToken(TextPrev, tok)) /\ IsFiniteSet(Free(tok))
  BY TextPrevIs
<1>4. /\ Placed(TextCurr)
      /\ \A tok : ExistsBijection(OfToken(TextCurr, tok), Awaited(tok))
  BY <1>2, TextCurrIs DEF Provided
<1>5. /\ IsFiniteSet(diff') /\ Places5(diff')
      /\ \A c \in diff' : c.tag \in {"Delete", "Insert", "Equal"}
  BY <1>1, <1>3, <1>4, ScriptApart
<1>6. ASSUME NEW tok
      PROVE  /\ IsFiniteSet(Awaited(tok)) /\ IsFiniteSet(Free(tok))
             /\ Cardinality(Fresh(tok)') = Cardinality(Awaited(tok))
             /\ Cardinality(Stale(tok)') = Cardinality(Free(tok))
  <2>1. /\ ExistsBijection(OfToken(TextCurr, tok), Fresh(tok)')
        /\ ExistsBijection(OfToken(TextPrev, tok), Stale(tok)')
    BY <1>1, <1>3, <1>4, ScriptCounts DEF Fresh, Stale
  <2>2. IsFiniteSet(OfToken(TextCurr, tok)) /\ IsFiniteSet(OfToken(TextPrev, tok))
    BY <1>3, <1>4, FS_Subset DEF Placed, OfToken
  <2>3. /\ IsFiniteSet(Awaited(tok))
        /\ Cardinality(Awaited(tok)) = Cardinality(OfToken(TextCurr, tok))
    BY <1>4, <2>2, FS_Bijection
  <2>4. Cardinality(Fresh(tok)') = Cardinality(OfToken(TextCurr, tok))
    BY <2>1, <2>2, FS_Bijection
  <2>5. Cardinality(Stale(tok)') = Cardinality(OfToken(TextPrev, tok))
    BY <2>1, <2>2, FS_Bijection
  <2>6. Cardinality(OfToken(TextPrev, tok)) = Cardinality(Free(tok)) /\ IsFiniteSet(Free(tok))
    BY <1>3, FS_Bijection
  <2> QED
    BY <2>3, <2>4, <2>5, <2>6
<1>7. \A tok : Awaited(tok)' = Awaited(tok) /\ Free(tok)' = Free(tok)
  <2>1. UnmatchedWordsPrev' = UnmatchedWordsPrev
    BY DEF StartDiff, UnmatchedWordsPrev, SentencesPrev, UnmatchedParagraphsPrev, PrevParagraphs
  <2>2. \A tok : Free(tok)' = Free(tok)
    BY <2>1 DEF StartDiff, Free
  <2>3. \A tok : Awaited(tok)' = Awaited(tok)
    BY DEF StartDiff, Awaited
  <2> QED
    BY <2>2, <2>3
<1> QED
  BY <1>5, <1>6, <1>7 DEF Balanced

\* The awaited token has a change, which is an insertion or has a free word.
LEMMA ChangeExists ==
  ASSUME TypeOK, Balanced, NEW s, AwaitsWord(s)
  PROVE  NextChange(PendingToken(s)) # {}
<1> DEFINE tok == PendingToken(s)
           k == Len(sentences[s].words_ordered) + 1
           C == {c \in diff : c.tok = tok /\ (c.tag = "Insert" \/ Free(tok) # {})}
<1>1. /\ k \in Nat /\ k <= Len(sentences[s].value)
      /\ Len(sentences[s].words_ordered) < k
  <2>1. sentences[s] \in SentenceType(DOMAIN words)
    BY PartsIn DEF AwaitsWord
  <2>2. Len(sentences[s].words_ordered) \in Nat /\ Len(sentences[s].value) \in Nat
    BY <2>1 DEF SentenceType, Sentence
  <2> QED
    BY <2>2 DEF AwaitsWord
<1>2. <<s, k>> \in Awaited(tok)
  BY <1>1 DEF Awaited, AwaitsWord, PendingToken
<1> HIDE DEF k, tok
<1>3. Fresh(tok) # {}
  <2>1. Awaited(tok) # {} /\ IsFiniteSet(Awaited(tok)) /\ Cardinality(Fresh(tok)) = Cardinality(Awaited(tok))
    BY <1>2 DEF Balanced
  <2>2. Cardinality(Awaited(tok)) # 0
    BY <2>1, FS_EmptySet
  <2> QED
    BY <2>1, <2>2, FS_EmptySet
<1>4. PICK c \in Fresh(tok) : TRUE
  BY <1>3
<1>5. c \in diff /\ c.tok = tok /\ (c.tag = "Insert" \/ c.tag = "Equal")
  BY <1>4 DEF Fresh, Balanced
<1>6. c.tag = "Equal" => Free(tok) # {}
  <2> SUFFICES ASSUME c.tag = "Equal"
               PROVE  Free(tok) # {}
    OBVIOUS
  <2>1. c \in Stale(tok) /\ IsFiniteSet(Stale(tok))
    <3>1. Stale(tok) \subseteq diff
      BY DEF Stale
    <3> QED
      BY <1>5, <3>1, FS_Subset DEF Stale, Balanced
  <2>2. Cardinality(Stale(tok)) # 0
    BY <2>1, FS_EmptySet
  <2>3. Cardinality(Stale(tok)) = Cardinality(Free(tok))
    BY DEF Balanced
  <2> QED
    BY <2>2, <2>3, FS_EmptySet
<1>7. C # {} /\ C \subseteq diff
  BY <1>5, <1>6
<1> HIDE DEF C
<1>8. Places5(C)
  BY <1>7 DEF Balanced, Places5
<1>9. Earliest(C) # {}
  BY <1>7, <1>8, EarliestExists
<1> QED
  BY <1>9 DEF C, tok, NextChange

\* The unmatched words of the previous revision after a step of the words stage.
LEMMA UnmatchedWordsStep ==
  ASSUME TypeOK, TextInv, UNCHANGED <<paragraphs, matchedP, unmatched_sentences_prev>>,
         PrevParagraphs' = PrevParagraphs, NEW X, matchedW' = matchedW \cup X,
         \A t \in SentencesAgain : sentences'[t].words_ordered = sentences[t].words_ordered
  PROVE  UnmatchedWordsPrev' = {w \in UnmatchedWordsPrev : w.id \notin X}
<1>1. SentencesPrev' = SentencesPrev
  BY DEF SentencesPrev, UnmatchedParagraphsPrev
<1>2. \A c \in SentencesPrev : sentences'[c.id].words_ordered = sentences[c.id].words_ordered
  BY AgainIn
<1> DEFINE D == {d \in SentencesPrev : d.id \in unmatched_sentences_prev}
           W(c) == sentences[c.id].words_ordered
           at(c, k) == [at |-> <<c.at[2], c.at[3], k>>, id |-> W(c)[k]]
<1>3. \A w : w \in UnmatchedWordsPrev <=>
        \E c \in D : \E k \in DOMAIN W(c) : W(c)[k] \notin matchedW /\ w = at(c, k)
  BY DEF UnmatchedWordsPrev
<1>4. \A w : w \in UnmatchedWordsPrev' <=>
        \E c \in D' : \E k \in DOMAIN W(c)' : W(c)'[k] \notin matchedW'
          /\ w = [at |-> <<c.at[2], c.at[3], k>>, id |-> W(c)'[k]]
  BY DEF UnmatchedWordsPrev
<1>5. D' = D /\ \A c \in D : W(c)' = W(c)
  BY <1>1, <1>2
<1>6. \A w : w \in UnmatchedWordsPrev' <=>
        \E c \in D : \E k \in DOMAIN W(c) : W(c)[k] \notin matchedW' /\ w = at(c, k)
  BY <1>4, <1>5
<1>7. \A c, k : at(c, k).id = W(c)[k]
  OBVIOUS
<1> HIDE DEF D, W, at
<1> QED
  BY <1>3, <1>6, <1>7

\* The places still awaited when a sentence has got its next word.
LEMMA AwaitedStep ==
  ASSUME TypeOK, UNCHANGED unmatched_sentences_curr, NEW s, NEW w, AwaitsWord(s), StoredWord(s, w)
  PROVE  \A tok :
           /\ Awaited(tok)' = Awaited(tok) \ {<<s, Len(sentences[s].words_ordered) + 1>>}
           /\ <<s, Len(sentences[s].words_ordered) + 1>> \in Awaited(tok) <=> tok = PendingToken(s)
<1> DEFINE n == Len(sentences[s].words_ordered)
<1>1. /\ n \in Nat /\ n < Len(sentences[s].value) /\ Len(sentences[s].value) \in Nat
      /\ Len(sentences'[s].words_ordered) = n + 1
  <2>1. sentences[s] \in SentenceType(DOMAIN words)
    BY PartsIn DEF AwaitsWord
  <2>2. sentences[s].words_ordered \in Seq(DOMAIN words) /\ sentences[s].value \in Seq(Token)
    BY <2>1 DEF SentenceType, Sentence
  <2> QED
    BY <2>2, AppendIn DEF AwaitsWord, StoredWord
<1> TAKE tok
<1>2. \A x \in Range(unmatched_sentences_curr) : x \in DOMAIN sentences
  BY ElementIn DEF TypeOK
<1>3. <<s, n + 1>> \in Awaited(tok) <=> tok = PendingToken(s)
  BY <1>1 DEF Awaited, AwaitsWord, PendingToken
<1>4. ASSUME NEW x \in Range(unmatched_sentences_curr) \X Nat
      PROVE  x \in Awaited(tok)' <=> x \in Awaited(tok) /\ x # <<s, n + 1>>
  <2>1. x[1] \in Range(unmatched_sentences_curr) /\ x[2] \in Nat /\ x = <<x[1], x[2]>>
    OBVIOUS
  <2>2. x \in Awaited(tok)' <=> /\ Len(sentences'[x[1]].words_ordered) < x[2]
                                /\ x[2] <= Len(sentences'[x[1]].value)
                                /\ sentences'[x[1]].value[x[2]] = tok
    BY DEF Awaited
  <2>3. x \in Awaited(tok) <=> /\ Len(sentences[x[1]].words_ordered) < x[2]
                               /\ x[2] <= Len(sentences[x[1]].value)
                               /\ sentences[x[1]].value[x[2]] = tok
    BY DEF Awaited
  <2>4. CASE x[1] # s
    <3>1. sentences'[x[1]] = sentences[x[1]]
      BY <1>2, <2>1, <2>4 DEF StoredWord
    <3>2. x # <<s, n + 1>>
      BY <2>1, <2>4
    <3> QED
      BY <2>2, <2>3, <3>1, <3>2
  <2>5. CASE x[1] = s
    <3>1. sentences'[s].value = sentences[s].value
      BY DEF StoredWord
    <3>2. x # <<s, n + 1>> <=> x[2] # n + 1
      BY <2>1, <2>5
    <3>3. n + 1 < x[2] <=> n < x[2] /\ x[2] # n + 1
      BY <1>1, <2>1
    <3> QED
      BY <1>1, <2>2, <2>3, <2>5, <3>1, <3>2, <3>3
  <2> QED
    BY <2>4, <2>5
<1>5. /\ Awaited(tok) \subseteq Range(unmatched_sentences_curr) \X Nat
      /\ Awaited(tok)' \subseteq Range(unmatched_sentences_curr) \X Nat
  BY DEF Awaited
<1> QED
  BY <1>3, <1>4, <1>5

\* A change is consumed together with the place and the word it is about.
LEMMA Consumed ==
  ASSUME Balanced, NEW c \in diff, diff' = diff \ {c},
         \A tok : IF c \in Fresh(tok) THEN \E x \in Awaited(tok) : Awaited(tok)' = Awaited(tok) \ {x}
                                      ELSE Awaited(tok)' = Awaited(tok),
         \A tok : IF c \in Stale(tok) THEN \E w \in Free(tok) : Free(tok)' = Free(tok) \ {w}
                                      ELSE Free(tok)' = Free(tok)
  PROVE  Balanced'
<1>1. IsFiniteSet(diff') /\ Places5(diff') /\ \A d \in diff' : d.tag \in {"Delete", "Insert", "Equal"}
  <2>1. IsFiniteSet(diff')
    BY FS_Subset DEF Balanced
  <2>2. diff' \subseteq diff
    OBVIOUS
  <2>3. Places5(diff')
    BY <2>2 DEF Balanced, Places5
  <2> QED
    BY <2>1, <2>2, <2>3 DEF Balanced
<1>2. ASSUME NEW tok
      PROVE  IsFiniteSet(Awaited(tok)') /\ Cardinality(Fresh(tok)') = Cardinality(Awaited(tok)')
  <2>1. Fresh(tok)' = Fresh(tok) \ {c}
    BY DEF Fresh
  <2>2. IsFiniteSet(Fresh(tok)) /\ IsFiniteSet(Awaited(tok))
        /\ Cardinality(Fresh(tok)) = Cardinality(Awaited(tok))
    BY FS_Subset DEF Balanced, Fresh
  <2>3. CASE c \in Fresh(tok)
    <3>1. PICK x \in Awaited(tok) : Awaited(tok)' = Awaited(tok) \ {x}
      BY <2>3
    <3>2. Cardinality(Fresh(tok)') = Cardinality(Fresh(tok)) - 1
      BY <2>1, <2>2, <2>3, FS_RemoveElement
    <3>3. IsFiniteSet(Awaited(tok)') /\ Cardinality(Awaited(tok)') = Cardinality(Awaited(tok)) - 1
      BY <2>2, <3>1, FS_RemoveElement
    <3> QED
      BY <2>2, <3>2, <3>3
  <2>4. CASE c \notin Fresh(tok)
    <3>1. Fresh(tok)' = Fresh(tok) /\ Awaited(tok)' = Awaited(tok)
      BY <2>1, <2>4
    <3> QED
      BY <2>2, <3>1
  <2> QED
    BY <2>3, <2>4
<1>3. ASSUME NEW tok
      PROVE  IsFiniteSet(Free(tok)') /\ Cardinality(Stale(tok)') = Cardinality(Free(tok)')
  <2>1. Stale(tok)' = Stale(tok) \ {c}
    BY DEF Stale
  <2>2. IsFiniteSet(Stale(tok)) /\ IsFiniteSet(Free(tok))
        /\ Cardinality(Stale(tok)) = Cardinality(Free(tok))
    BY FS_Subset DEF Balanced, Stale
  <2>3. CASE c \in Stale(tok)
    <3>1. PICK w \in Free(tok) : Free(tok)' = Free(tok) \ {w}
      BY <2>3
    <3>2. Cardinality(Stale(tok)') = Cardinality(Stale(tok)) - 1
      BY <2>1, <2>2, <2>3, FS_RemoveElement
    <3>3. IsFiniteSet(Free(tok)') /\ Cardinality(Free(tok)') = Cardinality(Free(tok)) - 1
      BY <2>2, <3>1, FS_RemoveElement
    <3> QED
      BY <2>2, <3>2, <3>3
  <2>4. CASE c \notin Stale(tok)
    <3>1. Stale(tok)' = Stale(tok) /\ Free(tok)' = Free(tok)
      BY <2>1, <2>4
    <3> QED
      BY <2>2, <3>1
  <2> QED
    BY <2>3, <2>4
<1> QED
  BY <1>1, <1>2, <1>3 DEF Balanced

\* The first free word of a token is used up.
LEMMA FreeStep ==
  ASSUME TypeOK, TextInv, WordsOnce,
         UNCHANGED <<paragraphs, matchedP, unmatched_sentences_prev>>,
         PrevParagraphs' = PrevParagraphs, NEW used, NEW w \in Free(used),
         matchedW' = matchedW \cup {w.id},
         \A t \in SentencesAgain : sentences'[t].words_ordered = sentences[t].words_ordered,
         \A v \in DOMAIN words : words'[v].value = words[v].value
  PROVE  \A tok : IF tok = used THEN Free(tok)' = Free(tok) \ {w} ELSE Free(tok)' = Free(tok)
<1>1. w \in UnmatchedWordsPrev /\ words[w.id].value = used
  BY DEF Free
<1>2. UnmatchedWordsPrev' = {v \in UnmatchedWordsPrev : v.id \notin {w.id}}
  BY UnmatchedWordsStep
<1>3. UnmatchedWordsPrev' = UnmatchedWordsPrev \ {w}
  BY <1>1, <1>2, UnmatchedWordsApart
<1>4. \A v \in UnmatchedWordsPrev : words'[v.id].value = words[v.id].value
  BY CandidatesIn
<1>5. \A tok : Free(tok)' = Free(tok) \ {w}
  BY <1>3, <1>4 DEF Free
<1>6. \A tok : tok # used => w \notin Free(tok)
  BY <1>1 DEF Free
<1> QED
  BY <1>5, <1>6

\* A sentence that awaits a word is none of the previous revision.
LEMMA AwaitingNotAgain ==
  ASSUME TypeOK, TextInv, NEW s, NEW w, AwaitsWord(s), StoredWord(s, w)
  PROVE  \A t \in SentencesAgain : sentences'[t].words_ordered = sentences[t].words_ordered
<1>1. \A t \in SentencesAgain : t \in DOMAIN sentences /\ FullSentence(t)
  BY AgainFull DEF TextInv
<1>2. sentences[s] \in SentenceType(DOMAIN words)
  BY PartsIn DEF AwaitsWord
<1>3. Len(sentences[s].words_ordered) \in Nat /\ Len(sentences[s].value) \in Nat
  BY <1>2 DEF SentenceType, Sentence
<1>4. s \notin SentencesAgain
  BY <1>1, <1>3 DEF AwaitsWord, FullSentence
<1> QED
  BY <1>1, <1>4 DEF StoredWord

LEMMA PrevParagraphsStay ==
  ASSUME UNCHANGED <<revisions, revision_prev>>
  PROVE  PrevParagraphs' = PrevParagraphs
BY DEF PrevParagraphs

LEMMA KeepBalanced ==
  ASSUME TypeOK, TextInv, WordsOnce, Balanced, KeepWord
  PROVE  Balanced'
<1>1. PICK s \in First(PendingSentences) :
        \E c \in NextChange(PendingToken(s)), w \in Earliest(Free(PendingToken(s))) :
          c.tag = "Equal" /\ MarkWord(w.id) /\ StoreWord(s, w.id) /\ ConsumeChanges({c})
  BY DEF KeepWord
<1> DEFINE used == PendingToken(s)
<1>2. PICK c \in NextChange(used), w \in Earliest(Free(used)) :
        c.tag = "Equal" /\ MarkWord(w.id) /\ StoreWord(s, w.id) /\ ConsumeChanges({c})
  BY <1>1
<1>3. AwaitsWord(s) /\ StoredWord(s, w.id)
  BY <1>2, Awaiting, Storing DEF AwaitsWord
<1>4. c \in diff /\ c.tok = used /\ c.tag = "Equal" /\ diff' = diff \ {c}
  BY <1>2 DEF NextChange, Earliest, ConsumeChanges
<1>5. w \in Free(used) /\ matchedW' = matchedW \cup {w.id}
  BY <1>2 DEF Earliest, MarkWord
<1>6. UNCHANGED <<paragraphs, matchedP, unmatched_sentences_prev, unmatched_sentences_curr,
                  revisions, revision_prev, words>>
  BY DEF KeepWord
<1>7. \A tok : IF tok = used THEN Free(tok)' = Free(tok) \ {w} ELSE Free(tok)' = Free(tok)
  <2>1. \A t \in SentencesAgain : sentences'[t].words_ordered = sentences[t].words_ordered
    BY <1>3, AwaitingNotAgain
  <2>2. PrevParagraphs' = PrevParagraphs
    BY <1>6, PrevParagraphsStay
  <2> HIDE DEF used
  <2> QED
    BY <1>5, <1>6, <2>1, <2>2, FreeStep
<1> DEFINE x == <<s, Len(sentences[s].words_ordered) + 1>>
<1>8. \A tok : Awaited(tok)' = Awaited(tok) \ {x} /\ (x \in Awaited(tok) <=> tok = used)
  BY <1>3, <1>6, AwaitedStep
<1>9. \A tok : (c \in Fresh(tok) <=> tok = used) /\ (c \in Stale(tok) <=> tok = used)
  BY <1>4 DEF Fresh, Stale
<1> HIDE DEF used, x
<1>10. \A tok : IF c \in Fresh(tok) THEN \E y \in Awaited(tok) : Awaited(tok)' = Awaited(tok) \ {y}
                                    ELSE Awaited(tok)' = Awaited(tok)
  BY <1>8, <1>9
<1>11. \A tok : IF c \in Stale(tok) THEN \E v \in Free(tok) : Free(tok)' = Free(tok) \ {v}
                                    ELSE Free(tok)' = Free(tok)
  BY <1>5, <1>7, <1>9
<1> QED
  BY <1>4, <1>10, <1>11, Consumed

LEMMA DropBalanced ==
  ASSUME TypeOK, TextInv, WordsOnce, Balanced, DropWord
  PROVE  Balanced'
<1>1. PICK s \in First(PendingSentences) :
        \E c \in NextChange(PendingToken(s)), w \in Earliest(Free(PendingToken(s))) :
          c.tag = "Delete" /\ MarkWord(w.id) /\ ConsumeChanges({c})
          /\ words' = [words EXCEPT ![w.id].outbound = Append(@, current_revision)]
  BY DEF DropWord
<1> DEFINE used == PendingToken(s)
<1>2. PICK c \in NextChange(used), w \in Earliest(Free(used)) :
        c.tag = "Delete" /\ MarkWord(w.id) /\ ConsumeChanges({c})
        /\ words' = [words EXCEPT ![w.id].outbound = Append(@, current_revision)]
  BY <1>1
<1>3. c \in diff /\ c.tok = used /\ c.tag = "Delete" /\ diff' = diff \ {c}
  BY <1>2 DEF NextChange, Earliest, ConsumeChanges
<1>4. w \in Free(used) /\ matchedW' = matchedW \cup {w.id}
  BY <1>2 DEF Earliest, MarkWord
<1>5. UNCHANGED <<paragraphs, matchedP, unmatched_sentences_prev, unmatched_sentences_curr,
                  revisions, revision_prev, sentences>>
  BY DEF DropWord
<1>6. \A v \in DOMAIN words : words'[v].value = words[v].value
  BY DropWordDoes
<1>7. \A tok : IF tok = used THEN Free(tok)' = Free(tok) \ {w} ELSE Free(tok)' = Free(tok)
  <2>1. PrevParagraphs' = PrevParagraphs
    BY <1>5, PrevParagraphsStay
  <2> HIDE DEF used
  <2> QED
    BY <1>4, <1>5, <1>6, <2>1, FreeStep
<1>8. \A tok : Awaited(tok)' = Awaited(tok)
  BY <1>5 DEF Awaited
<1>9. \A tok : c \notin Fresh(tok) /\ (c \in Stale(tok) <=> tok = used)
  BY <1>3 DEF Fresh, Stale
<1> HIDE DEF used
<1>10. \A tok : IF c \in Fresh(tok) THEN \E y \in Awaited(tok) : Awaited(tok)' = Awaited(tok) \ {y}
                                    ELSE Awaited(tok)' = Awaited(tok)
  BY <1>8, <1>9
<1>11. \A tok : IF c \in Stale(tok) THEN \E v \in Free(tok) : Free(tok)' = Free(tok) \ {v}
                                    ELSE Free(tok)' = Free(tok)
  BY <1>4, <1>7, <1>9
<1> QED
  BY <1>3, <1>10, <1>11, Consumed

LEMMA AddBalanced ==
  ASSUME TypeOK, TextInv, WordsOnce, Balanced, AddWord
  PROVE  Balanced'
<1>1. PICK s \in First(PendingSentences) :
        /\ \A c \in NextChange(PendingToken(s)) : c.tag = "Insert"
        /\ words' = Append(words, NewWord(PendingToken(s)))
        /\ StoreWord(s, Len(words'))
        /\ ConsumeChanges(NextChange(PendingToken(s)))
  BY DEF AddWord
<1> DEFINE used == PendingToken(s)
<1>2. AwaitsWord(s) /\ StoredWord(s, Len(words'))
  BY <1>1, Awaiting, Storing DEF AwaitsWord
<1>3. PICK c : c \in NextChange(used)
  BY <1>2, ChangeExists
<1>4. NextChange(used) = {c}
  <2> DEFINE C == {d \in diff : d.tok = used /\ (d.tag = "Insert" \/ Free(used) # {})}
  <2> HIDE DEF used
  <2>1. C \subseteq diff
    OBVIOUS
  <2>2. \A a, b \in C : Precedes(a.at, b.at) => ~Precedes(b.at, a.at)
    <3> SUFFICES ASSUME NEW a \in C, NEW b \in C, Precedes(a.at, b.at), Precedes(b.at, a.at)
                 PROVE  FALSE
      OBVIOUS
    <3>1. /\ DOMAIN a.at = 1 .. 5 /\ \A n \in 1 .. 5 : a.at[n] \in Nat
          /\ DOMAIN b.at = 1 .. 5 /\ \A n \in 1 .. 5 : b.at[n] \in Nat
      BY DEF Balanced, Places5
    <3>2. PICK m \in 1 .. 5 : a.at[m] < b.at[m] /\ \A i \in 1 .. m - 1 : a.at[i] = b.at[i]
      BY <3>1 DEF Precedes
    <3>3. PICK n \in 1 .. 5 : b.at[n] < a.at[n] /\ \A i \in 1 .. n - 1 : b.at[i] = a.at[i]
      BY <3>1 DEF Precedes
    <3>4. /\ a.at[m] \in Nat /\ b.at[m] \in Nat /\ a.at[n] \in Nat /\ b.at[n] \in Nat
      BY <3>1
    <3>5. CASE m < n
      <4>1. m \in 1 .. n - 1
        BY <3>5
      <4> QED
        BY <3>2, <3>3, <3>4, <4>1
    <3>6. CASE n < m
      <4>1. n \in 1 .. m - 1
        BY <3>6
      <4> QED
        BY <3>2, <3>3, <3>4, <4>1
    <3>7. CASE m = n
      BY <3>2, <3>3, <3>4, <3>7
    <3> QED
      BY <3>5, <3>6, <3>7
  <2> HIDE DEF C
  <2>3. \A a, b \in Earliest(C) : a = b
    BY <2>2 DEF Earliest
  <2>4. NextChange(used) = Earliest(C)
    BY DEF NextChange, C
  <2> QED
    BY <1>3, <2>3, <2>4
<1>5. c \in diff /\ c.tok = used /\ c.tag = "Insert" /\ diff' = diff \ {c}
  BY <1>1, <1>3, <1>4 DEF NextChange, Earliest, ConsumeChanges
<1>6. UNCHANGED <<paragraphs, matchedP, matchedW, unmatched_sentences_prev,
                  unmatched_sentences_curr, revision_prev>>
  BY DEF AddWord
<1>7. PrevParagraphs' = PrevParagraphs
  <2>1. \A r \in DOMAIN revisions : revisions'[r].paragraphs_ordered = revisions[r].paragraphs_ordered
    BY AddWordDoes
  <2>2. revision_prev # None => revision_prev \in DOMAIN revisions
    BY DEF TypeOK
  <2> QED
    BY <1>6, <2>1, <2>2 DEF PrevParagraphs
<1>8. \A tok : Free(tok)' = Free(tok)
  <2>1. \A t \in SentencesAgain : sentences'[t].words_ordered = sentences[t].words_ordered
    BY <1>2, AwaitingNotAgain
  <2>2. ASSUME NEW X, X = {}
        PROVE  UnmatchedWordsPrev' = {w \in UnmatchedWordsPrev : w.id \notin X}
    <3>1. matchedW' = matchedW \cup X
      BY <1>6, <2>2
    <3> QED
      BY <1>6, <1>7, <2>1, <3>1, UnmatchedWordsStep
  <2>3. UnmatchedWordsPrev' = UnmatchedWordsPrev
    <3>1. PICK X : X = {}
      OBVIOUS
    <3>2. UnmatchedWordsPrev' = {w \in UnmatchedWordsPrev : w.id \notin X}
      BY <2>2, <3>1
    <3> QED
      BY <3>1, <3>2
  <2>4. \A v \in DOMAIN words : words'[v] = words[v]
    BY AddWordDoes DEF Added
  <2>5. \A v \in UnmatchedWordsPrev : words'[v.id].value = words[v.id].value
    BY <2>4, CandidatesIn
  <2> QED
    BY <2>3, <2>5 DEF Free
<1> DEFINE x == <<s, Len(sentences[s].words_ordered) + 1>>
<1>9. \A tok : Awaited(tok)' = Awaited(tok) \ {x} /\ (x \in Awaited(tok) <=> tok = used)
  BY <1>2, <1>6, AwaitedStep
<1>10. \A tok : (c \in Fresh(tok) <=> tok = used) /\ c \notin Stale(tok)
  BY <1>5 DEF Fresh, Stale
<1> HIDE DEF used, x
<1>11. \A tok : IF c \in Fresh(tok) THEN \E y \in Awaited(tok) : Awaited(tok)' = Awaited(tok) \ {y}
                                    ELSE Awaited(tok)' = Awaited(tok)
  BY <1>9, <1>10
<1>12. \A tok : IF c \in Stale(tok) THEN \E v \in Free(tok) : Free(tok)' = Free(tok) \ {v}
                                    ELSE Free(tok)' = Free(tok)
  BY <1>8, <1>10
<1> QED
  BY <1>5, <1>11, <1>12, Consumed

LEMMA ProvidedStep ==
  ASSUME TypeOK, TypeOK', TextInv, OnceInv, Provided, [Next]_vars
  PROVE  Provided'
<1>1. CASE KeepWord \/ DropWord \/ AddWord
  <2>1. pc = "match" /\ pc' = "match" /\ unmatched_sentences_curr' = unmatched_sentences_curr
    BY <1>1 DEF KeepWord, DropWord, AddWord
  <2>2. Balanced'
    BY <1>1, <2>1, KeepBalanced, DropBalanced, AddBalanced DEF Provided, OnceInv
  <2> QED
    BY <2>1, <2>2 DEF Provided, NewSentencesOnce
<1>2. CASE StartDiff
  <2>1. pc' = "match" /\ unmatched_sentences_curr' = unmatched_sentences_curr
    BY <1>2 DEF StartDiff
  <2>2. Balanced'
    BY <1>2, StartBalanced DEF OnceInv
  <2> QED
    BY <2>1, <2>2 DEF Provided, NewSentencesOnce
<1>3. CASE EndWords
  <2>1. /\ pc = "match" /\ pc' = "commit" /\ PendingSentences = {}
        /\ UNCHANGED <<sentences, unmatched_sentences_curr, diff>>
    BY <1>3 DEF EndWords
  <2>2. ASSUME NEW c \in diff, c.tag # "Delete"
        PROVE  FALSE
    <3>1. c \in Fresh(c.tok) /\ IsFiniteSet(Fresh(c.tok))
      BY <2>1, <2>2, FS_Subset DEF Fresh, Provided, Balanced
    <3>2. Cardinality(Awaited(c.tok)) # 0 /\ IsFiniteSet(Awaited(c.tok))
      <4>1. Cardinality(Fresh(c.tok)) # 0
        BY <3>1, FS_EmptySet
      <4> QED
        BY <2>1, <4>1 DEF Provided, Balanced
    <3>3. PICK x \in Awaited(c.tok) : TRUE
      BY <3>2, FS_EmptySet
    <3>4. /\ x[1] \in Range(unmatched_sentences_curr) /\ x[2] \in Nat
          /\ Len(sentences[x[1]].words_ordered) < x[2] /\ x[2] <= Len(sentences[x[1]].value)
      BY DEF Awaited
    <3>5. x[1] \in DOMAIN sentences
      BY <3>4, ElementIn DEF TypeOK
    <3>6. sentences[x[1]] \in SentenceType(DOMAIN words)
      BY <3>5, PartsIn
    <3>7. Len(sentences[x[1]].words_ordered) \in Nat /\ Len(sentences[x[1]].value) \in Nat
      BY <3>6 DEF SentenceType, Sentence
    <3>8. x[1] \in PendingSentences
      BY <3>4, <3>7 DEF PendingSentences
    <3> QED
      BY <2>1, <3>8
  <2> QED
    BY <2>1, <2>2 DEF Provided, NewSentencesOnce
<1>4. CASE NewSentence
  <2>1. PICK s : /\ sentences' = Append(sentences, s) /\ s.words_ordered = <<>>
                 /\ unmatched_sentences_curr' = Append(unmatched_sentences_curr, Len(sentences'))
                 /\ pc = "sentences" /\ pc' = pc /\ diff' = diff
    BY <1>4 DEF NewSentence
  <2>2. Added(sentences, sentences', s)
    BY <2>1, Adding DEF TypeOK
  <2>3. /\ Added(unmatched_sentences_curr, unmatched_sentences_curr', Len(sentences) + 1)
        /\ Range(unmatched_sentences_curr') = Range(unmatched_sentences_curr) \cup {Len(sentences) + 1}
    <3>1. unmatched_sentences_curr' = Append(unmatched_sentences_curr, Len(sentences) + 1)
      BY <2>1, <2>2 DEF Added
    <3>2. unmatched_sentences_curr \in Seq(DOMAIN sentences)
      BY DEF TypeOK
    <3> QED
      BY <3>1, <3>2, AddingTo
  <2>4. \A t \in Range(unmatched_sentences_curr) : t \in DOMAIN sentences
    BY ElementIn DEF TypeOK
  <2>5. \A n \in DOMAIN unmatched_sentences_curr :
          unmatched_sentences_curr[n] \in Range(unmatched_sentences_curr)
    BY DEF Range
  <2>6. Len(sentences) + 1 \notin DOMAIN sentences
    BY <2>2 DEF Added
  <2>7. NewSentencesOnce'
    <3>1. NewSentencesOnce
      BY DEF Provided
    <3>2. \A n \in DOMAIN unmatched_sentences_curr :
            unmatched_sentences_curr[n] # Len(sentences) + 1
      BY <2>4, <2>5, <2>6
    <3> QED
      BY <2>3, <3>1, <3>2 DEF NewSentencesOnce, Added
  <2>8. \A t \in Range(unmatched_sentences_curr') : sentences'[t].words_ordered = <<>>
    <3>1. \A t \in Range(unmatched_sentences_curr) : sentences[t].words_ordered = <<>>
      BY <2>1 DEF Provided
    <3>2. \A t \in Range(unmatched_sentences_curr) : sentences'[t] = sentences[t]
      BY <2>2, <2>4, SMTT(30) DEF Added
    <3>3. sentences'[Len(sentences) + 1].words_ordered = <<>>
      BY <2>1, <2>2 DEF Added
    <3> QED
      BY <2>3, <3>1, <3>2, <3>3
  <2> QED
    BY <2>1, <2>7, <2>8 DEF Provided
<1>5. ASSUME NEW xml \in XmlRevisions, BeginRevision(xml)
      PROVE  Provided'
  <2>1. unmatched_sentences_curr' = <<>> /\ diff' = {} /\ pc' = "paragraphs"
    BY <1>5 DEF BeginRevision
  <2>2. Range(unmatched_sentences_curr') = {}
    BY <2>1 DEF Range
  <2> QED
    BY <2>1, <2>2 DEF Provided, NewSentencesOnce
<1>6. CASE \/ ReuseParagraph \/ NewParagraph \/ EndParagraphs \/ ReuseSentence
           \/ EndSentences \/ RejectDense
  <2>1. /\ UNCHANGED <<sentences, unmatched_sentences_curr, diff>>
        /\ pc \in {"paragraphs", "sentences", "words"} /\ pc' # "match"
    BY <1>6 DEF ReuseParagraph, NewParagraph, EndParagraphs, ReuseSentence, EndSentences,
       RejectDense
  <2> QED
    BY <2>1 DEF Provided, NewSentencesOnce
<1>7. CASE Commit \/ Discard \/ EndOfPage
  <2>1. /\ UNCHANGED <<unmatched_sentences_curr, diff>>
        /\ pc \in {"commit", "spam", "next"} /\ pc' \in {"next", "done"}
    BY <1>7 DEF Commit, Discard, EndOfPage
  <2> QED
    BY <2>1 DEF Provided, NewSentencesOnce
<1>8. ASSUME NEW xml \in XmlRevisions, SkipDeleted(xml) \/ RejectByContent(xml)
      PROVE  Provided'
  <2>1. pc' = "next" /\ pc = "next" /\ UNCHANGED <<unmatched_sentences_curr, diff>>
    BY <1>8 DEF SkipDeleted, RejectByContent, ReadRevision
  <2> QED
    BY <2>1 DEF Provided, NewSentencesOnce
<1>9. CASE UNCHANGED vars
  <2>1. UnmatchedWordsPrev' = UnmatchedWordsPrev
    BY <1>9 DEF UnmatchedWordsPrev, SentencesPrev, UnmatchedParagraphsPrev, PrevParagraphs
  <2>2. \A tok : /\ Awaited(tok)' = Awaited(tok) /\ Free(tok)' = Free(tok)
                /\ Fresh(tok)' = Fresh(tok) /\ Stale(tok)' = Stale(tok)
    BY <1>9, <2>1 DEF Awaited, Free, Fresh, Stale
  <2>3. UNCHANGED <<diff, pc, sentences, unmatched_sentences_curr>>
    BY <1>9
  <2> QED
    BY <2>2, <2>3 DEF Provided, NewSentencesOnce, Balanced
<1> QED
  BY <1>1, <1>2, <1>3, <1>4, <1>5, <1>6, <1>7, <1>8, <1>9 DEF Next, Finished

(***************************************************************************)
(* The diff provides for every new token, whichever edit script the diff   *)
(* algorithm returns: the branch "word was not found in the diff" is never *)
(* taken, and an equality never lacks a word of the previous revision.     *)
(***************************************************************************)
THEOREM DiffSuffices == Spec => []DiffProvides
<1> DEFINE IInv == /\ TypeOK /\ ComparedWithLatestValid /\ MatchesListed /\ TextInv /\ OnceInv
                   /\ Provided
<1>1. Init => IInv
  <2> SUFFICES ASSUME Init PROVE IInv
    OBVIOUS
  <2>1. OnceInv /\ MatchesListed
    BY OnceInit
  <2>2. Provided
    BY DEF Init, Provided, NewSentencesOnce
  <2> QED
    BY <2>1, <2>2, InitType, TextInit DEF Init, ComparedWithLatestValid, at_least_one
<1>2. IInv /\ [Next]_vars => IInv'
  <2> SUFFICES ASSUME IInv, [Next]_vars PROVE IInv'
    OBVIOUS
  <2>1. TypeOK' /\ ComparedWithLatestValid' /\ MatchesListed' /\ Grows
    BY TypeStep, LatestStep, MatchesStep, Keeps
  <2>2. TextInv' /\ OnceInv'
    BY <2>1, TextStep, OnceInvStep
  <2>3. Provided'
    BY <2>1, ProvidedStep
  <2> QED
    BY <2>1, <2>2, <2>3
<1>3. IInv => DiffProvides
  <2> SUFFICES ASSUME IInv
               PROVE  DiffProvides
    OBVIOUS
  <2>1. ASSUME pc = "match", NEW s \in First(PendingSentences)
        PROVE  NextChange(PendingToken(s)) # {}
    BY <2>1, Awaiting, ChangeExists DEF Provided
  <2> QED
    BY <2>1 DEF DiffProvides, Provided
<1> QED
  BY <1>1, <1>2, <1>3, PTL DEF Spec
=============================================================================
