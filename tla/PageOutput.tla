----------------------------- MODULE PageOutput -----------------------------
(***************************************************************************)
(* What is written of an analysed page (build_page_output in               *)
(* wikiwho-cli.rs): the pointers of the analysis resolved to revision ids, *)
(* and the tokens of the current revision in reading order.  Editors and   *)
(* timestamps go with the id of a revision and are left out.               *)
(***************************************************************************)
EXTENDS Authorship, SequencesExt

Ids(pointers) == [k \in DOMAIN pointers |-> revisions[pointers[k]].id]

\* iterate_revision_tokens: the words below the paragraphs of a revision.
RevisionTokens(r) ==
  FlattenSeq([i \in DOMAIN revisions[r].paragraphs_ordered |->
    LET found == paragraphs[revisions[r].paragraphs_ordered[i]].sentences_ordered
    IN FlattenSeq([j \in DOMAIN found |-> sentences[found[j]].words_ordered])])

TokenOutput(w) ==
  [token_id |-> w, str |-> words[w].value, o_rev_id |-> revisions[words[w].origin].id,
   in |-> Ids(words[w].inbound), out |-> Ids(words[w].outbound)]

BuildPageOutput ==
  LET tokens == RevisionTokens(current_revision)
  IN [revisions |-> Ids(ordered_revisions), spam_ids |-> spam_ids,
      all_tokens |-> [k \in DOMAIN tokens |-> TokenOutput(tokens[k])]]

\* analyse_page is Ok when there was a valid revision.
Analysed == pc = "done" /\ at_least_one

-----------------------------------------------------------------------------
Increasing(ids) == \A k \in 2 .. Len(ids) : ids[k - 1] < ids[k]

\* The life of a token that the current revision shows: introduced, then
\* removed and restored in turn.
LifeOf(token) ==
  [k \in 1 .. 1 + 2 * Len(token.out) |->
     CASE k = 1 -> token.o_rev_id
       [] k % 2 = 0 -> token.out[k \div 2]
       [] OTHER -> token.in[k \div 2]]

(***************************************************************************)
(* The output of a page is self-contained and tells one story: revisions   *)
(* in chronological order, none of them spam; the text of the last of them *)
(* spelled token by token in reading order, no token twice; and of every   *)
(* token that it was introduced, then removed and restored in turn, always *)
(* by a revision of the list (README.md, revisions, all_tokens, in, out).  *)
(***************************************************************************)
OutputTellsAuthorship ==
  Analysed =>
    LET out == BuildPageOutput
        last == revisions[ordered_revisions[Len(ordered_revisions)]].text
    IN /\ Increasing(out.revisions) /\ Increasing(out.spam_ids)
       /\ Range(out.revisions) \cap Range(out.spam_ids) = {}
       /\ [k \in DOMAIN out.all_tokens |-> out.all_tokens[k].str]
            = FlattenSeq(FlattenSeq(last))
       /\ \A j, k \in DOMAIN out.all_tokens :
            out.all_tokens[j].token_id = out.all_tokens[k].token_id => j = k
       /\ \A token \in Range(out.all_tokens) :
            /\ Len(token.in) = Len(token.out)
            /\ Increasing(LifeOf(token))
            /\ Range(LifeOf(token)) \subseteq Range(out.revisions)
=============================================================================
