# wikiwho_rs: formal model

TLA+ models of `wikiwho_rs`, the Rust implementation of the WikiWho authorship
algorithm for MediaWiki dumps, with TLC runs on small instances and TLAPS
proofs for all values of the constants. Paths below have the repository at
`src/`.

## 1. The system

| component | source | state it keeps | operations | interacts with |
|---|---|---|---|---|
| authorship analysis | `src/src/algorithm/mod.rs`, `types.rs` | arrays of revisions, paragraphs, sentences, words; hash tables of paragraphs and sentences; spam hashes; `revision_prev`, `current_revision`; the `matched_in_current` flags | `analyse_page`: one loop body per revision, `determine_authorship`, three matching stages, reset | text splitting, difflib; called by the CLI per page |
| token history | `types.rs` (`WordAnalysis`) | `origin_revision`, `latest_revision`, `inbound`, `outbound` per token | `maybe_push_inbound`, `maybe_push_outbound` | written by the analysis, read by the CLI's output |
| difflib | `src/src/difflib.rs` | scratch arrays with generation counters | `compare` | called by the words stage |
| text splitting | `src/src/utils.rs`, `optimized_str.rs`, `types.rs` (`ArcSubstring`) | two scratch buffers kept from call to call; the shared strings parts of a text are ranges of; the interner of words | `split_into_*`, `reborrow_semantic_substrings`, `trim_in_place`, `reattach_substring` | called by the analysis |
| dump parser | `src/src/dump_parser/` | reader, site info, path of open elements | `parse_site_info`, `parse_page` | feeds the CLI |
| CLI pipeline | `src/src/bin/wikiwho-cli.rs` | two bounded channels, a mutex around the receiver, the parse error, page counters | parser thread, worker threads, writer; a single-threaded path | parser, analysis, output |
| serialisation | `algorithm/serde_impl.rs` | a mirror of `PageAnalysis`: indices for pointers, a table of the shared strings | serialise, deserialise | raw output of the CLI; whoever loads it |

What makes it hard:

* **Long-lived shared mutable state without ownership.** A paragraph, sentence
  or word found again is *the same* entry in several revisions. While a revision
  is matched, reused entries carry a flag, set in three stages and cleared by a
  reset that walks other lists than those the flag was set through. A flag left
  behind hides an entry from all later revisions; one cleared too early shows a
  token twice.
* **Late rejection.** A revision can be rejected as vandalism after two of its
  three stages have already stored, flagged and allocated.
* **Order of bookkeeping.** Which revision removed or restored a token depends on
  the order of two sweeps and up to three reset loops.
* **A heuristic diff** between the old and new tokens, whose result is consumed
  in an order of the consumer's own.
* **Text held as ranges.** A paragraph, a sentence, a word is a range of a string
  that several of them share. Offsets are relative to the whole string, not to
  the parent they were found in; a cleaned sentence has a string of its own; a word
  is a range of whichever sentence had it first; a file stores one copy.
* **Loaded data is trusted.** An analysis read from a file is indexed without
  further checks.
* **Threads** of the CLI that block on each other through bounded channels, with
  parse errors and write errors in the middle.

What makes each part correct is listed per hazard, with its line, in
`PROJECT.json`; the properties are stated in the modules, each with a comment.

## 2. Modules

| module | models | abstract specification it implements |
|---|---|---|
| `Authorship` | `PageAnalysis::analyse_page` and everything it calls, except splitting and diff | `TokenLedger` |
| `TokenLedger` | what the analysis promises about the life of a token | |
| `PageOutput` | `build_page_output`: what is written of an analysed page | |
| `TextSplit` | the splitters, plain and optimised, and `Cow` | |
| `PageText` | the analysis of a page's first revision, down to ranges of strings | |
| `StoredPage` | `Serialize` and `Deserialize` of `PageAnalysis` | |
| `Difflib` | `difflib::compare` | (provides the scripts `Authorship` assumes) |
| `CliJob` | an invocation of the CLI: dump, options, output document | |
| `PageStream` | what a run of the CLI promises | |
| `Pipeline` | `process_parallel` | `PageStream` |
| `Sequential` | `process_single` | `PageStream` |
| `XmlExport` | quick_xml's events, and what an export means | |
| `PageSource` | what a caller of `parse_page` relies on | |
| `DumpParser` | `DumpParser::new`, `parse_page`, `parse_single_page` | `PageSource` |
| `DumpHistory` | what the events of a stream tell, read as a whole: what `ParserIsSource` compares the parser with | |
| `AuthorshipProofs`, `AuthorshipLedgerProofs`, `TokenLedgerProofs`, `DifflibProofs`, `DumpParserProofs`, `PipelineProofs`, `SequentialProofs`, `StoredPageProofs` | the theorems; `AuthorshipLedgerProofs` those about the refinement of the ledger and the output | |

The modules `MC...` give the constants their values. The composition follows the
code: the parser delivers the pages the CLI passes to its workers (`PageSource`
is what `Pipeline` takes for granted in `ParsePage` and `EndOfDump`), a worker's
`analyse_page` is one run of `Authorship`, and its words stage one run of
`Difflib`. `PageText` is the head of that run, where the texts `Authorship` takes
apart already are made, and `StoredPage` stores what it made. Each of these calls is synchronous and shares nothing with its
caller but its arguments, so each is modelled on its own.

### Authorship

State. `revisions`, `paragraphs`, `sentences` and `words` are the arrays of
`PageAnalysis`; pointers are indices and 0 is `None`. `paragraphs_ht` and
`sentences_ht` are the hash tables, kept as the lists of their entries in the
order of insertion, which is the order the code searches a bucket in. The
`matched_in_current` flags are the sets `matchedP`, `matchedS` and `matchedW` of
the entries that have it. `unmatched_*` and `matched_*` are the lists
`determine_authorship` passes from stage to stage; those whose order is never
used are sets.

Actions. A stage is a value of `pc`, and one step handles one paragraph, one
sentence or one word:

| code | actions |
|---|---|
| loop head of `analyse_page_with_options` (skip, spam by hash, spam by deletion, accept) | `SkipDeleted`, `RejectByContent`, `BeginRevision` |
| `analyse_parasents_in_revgraph` on paragraphs | `ReuseParagraph`, `NewParagraph`, `EndParagraphs` |
| the same on sentences | `ReuseSentence`, `NewSentence`, `EndSentences` |
| `analyse_words_in_sentences` | `RejectDense`, `StartDiff`, `KeepWord`, `DropWord`, `AddWord`, `EndWords` |
| the sweeps for outbound and inbound, insertion into the hash tables, the reset | `Commit` |
| the same for a rejected revision | `Discard` |
| the end of the loop | `EndOfPage` |

Candidates. `find_matching_parasent` tries the entries of the previous revision
and then the hash table; a candidate is usable if none of its words is matched,
and a candidate passed over because *all* of them are becomes flagged although it
is not used (`Exhausted`). Whoever walks a list in the code takes the `Earliest`
item of a set of places here.

Abstractions. A hash is the value it hashes. A revision id is the position in
the input. White space belongs to text splitting and is left out; a paragraph may
have no sentences (section 5) and a text no paragraphs. The deletion test is stated without the division. The diff is *any*
order-preserving edit script (`EditScripts`): the checks hold for whatever the
diff heuristic does, and `Difflib!TurnsAIntoB` says its result is one of them.

### TokenLedger

A page is the list of valid revisions and the set of tokens each shows; a step
publishes a revision that keeps or restores some tokens and adds fresh ones.
`Authorship` implements it under the mapping at its end: a token exists from the
moment its revision is published, the removals noted during matching are hidden
until then, and everything else, rejected revisions included, is stuttering.

### PageOutput

`build_page_output` is a function of a finished page: pointers are resolved to
revision ids, and the words of the current revision are listed in reading order.
It extends `Authorship`, and its property is checked on the pages of
`authorship_spam`, where rejected revisions could leak into the output.

### TextSplit, PageText and StoredPage

A text is a sequence of symbols: a symbol is a character the rules look for or a
word (`table`, `ref`, `http`, ...) whose letters they look for together. Letters
beyond those are `x`, `y` and `word`; the longer one tells apart how many letters stand
before a full stop.

`TextSplit` has both implementations of the splitters. The plain one makes a new
string per rule (`RewrittenBy`), the optimised one moves the text between two
buffers (`StrReplaceOpt`), whose content is state, since they are used again by the
next call. Tokens are found by rewriting (`TokensNaive`) or by patterns
(`TokensCorasick`). A `Cow` is a part with an offset or a string of its own; `Reborrowed`
finds the parts of the rewritten text in the original one again.

`PageText` has the shared strings, the entries of the page as ranges of them, and
the lists of pointers. `SplitRevision`, `SplitParagraph` and `AddWords` are the three
stages of the analysis when there is nothing to match with, that is, on the first
revision: each calls a splitter, turns the parts into ranges
(`Reattached`), and allocates.

`StoredPage` adds `Store` and `Load` (or `Reject`), and between them `Change`, which
writes another index, or another end of a range, to one place of the file. `Bases` is the
`arc_index` of the code: strings are told apart by their address, which is
their index in `strings` here.

### Difflib

State. The work queue, the window being searched, the two rows with their
generation numbers (`ClearableArray`), the longest run so far, the blocks, the
operations. `StartSearch` is a pop of the queue and the head of
`find_longest_match`, `FillRow` its loop body for one token of `a`, `EndSearch`
its return with the expansion and the pushes, `Compare` the assembly of the
operations. Positions count from 1.

### Pipeline and Sequential

`Pipeline` has a state machine per thread. The parser is `parsing`, `sending`
(it has a page, the channel may be full) or `done` (the sender is dropped). A
worker is `idle`, holds `lock` while it waits for a page, is `busy` with one or
`done`. The main thread is `starting`, `opening`, `writing`, `done` or `panicked`.
While it is `starting` the dump's head is read: `Start` goes on to spawn the threads
(`Spawned`), and `Reject` is the early return when `DumpParser::new` fails
(`wikiwho-cli.rs:553`), before anything is written; a job whose head cannot be read is
`headless`. `Return`
is the join of the scope and the return of the function. Analysis and building
of the output share nothing and are part of `SendResult`. Both receivers are
owned by the frame of `process_parallel`, outside the scope that joins the
threads, so a send cannot fail: the code's branches for that are unreachable and
have no action. In a failing job any write may be refused, which
is `unwrap()` on the main thread here and an error in `Sequential`. `write_page_result`
makes several writes for a page, so a refused one leaves nothing of it, the comma
before it, or a part of it (`RefusedPage`); the end is a bracket and a flush, so it
leaves an open or a closed array (`RefusedClose`). `output` is what the buffered
writer has taken: after a refusal the file may lack the end of it.

`PageStream` is the promise: every page among the first *limit* selected ones is
settled once, by writing it or by a warning, in any order, and the run ends with
an error exactly if the dump was found malformed.

### XmlExport, PageSource and DumpParser

An export is a sequence of quick_xml events. `XmlExport` builds it from a
document and says, independently of the parser, what the document means.
Names and texts are short sequences of symbols; times, hashes and numbers are
members of given sets. `DumpParser` handles one event per step, with the path of
open elements, the revision builder and the page as in the code. End tags are
not compared by quick_xml (`check_end_names = false`,
`src/src/dump_parser/mod.rs:387`), so a misspelled one reaches the parser. The cargo feature
`strict` is a field of the input. `PageSource` promises the pages of the document
in order, then its end or an error.

## 3. Runs

| run | bounds | what it shows |
|---|---|---|
| `authorship` | 4 revisions out of 9 texts over 3 tokens; every edit script; 260 000 states | reuse never shows a token twice (`NoTokenTwice`), tokens spell the texts (`RoundTrip`), the diff provides for every token (`DiffProvides`), a null edit changes nothing (`UnchangedTextKeepsTokens`), and the records follow the ledger (`ImplementsLedger`) |
| `authorship_spam` | 4 revisions: long, short, dense, markup, empty, deleted, with either kind of hash, exempt; density limit 1 instead of 20; 123 000 states | a rejected revision leaves no flag (`FlagsClear`), token (`AddsCounted`), pointer (`ComparedWithLatestValid`) or entry (`SpamLeavesNoTrace`); what is written of the page names valid revisions only and tells a possible life of each token (`OutputTellsAuthorship`); every page ends (`Termination`) |
| `ledger` | 4 revisions, at most 2 new tokens each; 34 000 states | the records tell the history (`RecordTellsHistory`), removals and restorations alternate (`RemovalsAlternate`) |
| `stored_page` | every text of up to 3 fragments out of 20; pages of 4 texts changed in the file, to indices up to 3; 53 000 states | both splitters find the same parts (`SplitsAgree`), the words spell the text (`TextPreserved`) and are its tokens (`WordsAreTokens`), what is stored comes back with the same sharing (`StoredPageReturns`), and no page, changed or not, has a pointer or range to nothing (`PointersResolve`) |
| `difflib` | all pairs of up to 4 and up to 5 tokens of 3 kinds, up to renaming; autojunk from 4 tokens on; generations wrap at 3; 82 000 states | rows hold runs (`RowHoldsRuns`), the longest and first run wins (`LongestAndFirst`), blocks neither overlap nor cross (`AreasInOrder`), the script turns one text into the other (`TurnsAIntoB`), only popular tokens are missed (`GapsHaveNoAnchor`) |
| `pipeline` | 2 workers, channels of 2; dumps of 0 to 4 mixed pages with limits, a malformed end and both formats, one of 8 pages, none with a readable head, failing outputs with up to 2 pages; 39 000 states | no page is lost or doubled (`NothingLost`, `OnePlace`), the output is a document, empty without a head, and begins one after a panic (`OutputIsDocument`), success is complete (`SuccessIsComplete`), the run ends (`Termination`), and it is a page stream |
| `sequential` | all dumps of up to 3 pages, and those without a readable head, with limits 0, 1, 2 and none; 7 000 states | the same page stream; a failed run leaves the beginning of a document, cut off wherever a write was refused, and without a refused write only its bracket is missing (`OutputIsDocument`) |
| `dump_parser` | every pair of 20 revisions that differ from a plain one in one field, titles, namespaces; one export cut off and damaged at every event and misspelled at every end tag; single pages; all with and without `strict`; 84 000 states | the path is that of the document (`PathIsOpen`), the site info is right (`SiteInfoRead`), `parse_page` returns the pages and ends as the stream ends (`ImplementsPageSource`), `strict` reads nothing malformed to a clean end (`StrictAborts`) |
| `pipeline_hang`, `dump_parser_text`, `dump_parser_deleted`, `dump_parser_title` | one input each | the findings below |

Why the bounds are enough:

* *Four revisions* are the least with which a token can be introduced, removed,
  restored and removed again, and with which a rejected revision can stand
  between valid ones at both ends. The texts are chosen so that candidates are
  partly matched, exhausted, duplicated and matched only word by word.
* *Three fragments*: a fragment is the pattern of a rule, a letter, white space or a part
  of the separator, so that every rule meets every other on its left and its
  right with something between or around, separators are made of what the text and
  two rules add, and a buffer is used a second and a third time. The four changed
  texts have entries of a shared string and of an own one, equal words, and two
  paragraphs; an index of 3 lies inside, at the end of and beyond what they have.
* *Two workers* already contend for the mutex and for both channels. One channel
  place per worker instead of two makes full channels frequent; `pipeline_hang`
  uses the code's two.
* *The failing jobs* of `pipeline` have as many pages as the channels hold, so
  that the threads can end; `pipeline_hang` shows what happens with more.
* *Difflib*: four rows are enough for a row to be cleared, reused in the next
  window and cleared with a generation that has wrapped around; five tokens of
  three kinds contain popular and unpopular tokens on either side of a block.
* *The parser* keeps only the current revision and page, so two revisions and two
  pages show whatever one leaves behind for the next.

Every bound is a constant of a cfg or a definition of an `MC` module. Deadlock
is checked everywhere except in `pipeline_hang`, where it is the finding, and in
`ledger`: each program module has a `Finished` step for the end of the program. `ledger` stops when its four
pointers are used up.

For each property of a passing run `PROJECT.json` names a mutant: an alternative
definition in the module, marked "Mutant", with a plausible bug under which TLC
finds the property violated. Mutants are part of no specification.

### Fairness

`FairSpec` of `Authorship` and `Difflib` is weak fairness of the next step: one
thread that nobody suspends for good. `FairSpec` of `Pipeline` is weak fairness
of each thread: the operating system runs a thread that is not blocked, and a
thread blocked on a channel or a mutex has no step. Taking the mutex needs no
strong fairness: a worker that never gets it does not hinder the others, and when
the input is used up every worker that takes it leaves. The refinements and
safety properties need no fairness.

## 4. Theorems

| module | theorem | property |
|---|---|---|
| `AuthorshipProofs` | `PointersValid` | `TypeOK` |
| | `ComparisonBase` | `ComparedWithLatestValid` |
| | `MatchesReset` | `FlagsClear` |
| | `TextKept` | `RoundTrip` |
| | `NoTraceOfSpam` | `SpamLeavesNoTrace` |
| | `CreditedTokens` | `AddsCounted` |
| | `TokensOnce` | `NoTokenTwice` |
| | `TokensKept` | `UnchangedTextKeepsTokens` |
| | `DiffSuffices` | `DiffProvides` |
| `AuthorshipLedgerProofs` | `AnalysisIsLedger` | `ImplementsLedger`, if `TextsBounded` |
| | `OutputTold` | `OutputTellsAuthorship`, if `TextsBounded` |
| `TokenLedgerProofs` | `HistoryIsTold` | `RecordTellsHistory` |
| | `RemovalsComeFirst` | `RemovalsAlternate` |
| `DifflibProofs` | `RowsHoldRuns` | `RowHoldsRuns` |
| | `LongestIsFirst` | `LongestAndFirst` |
| | `BlocksNeverCross` | `AreasInOrder` |
| | `NothingOverlooked` | `GapsHaveNoAnchor` |
| | `DiffTurnsAIntoB` | `TurnsAIntoB` |
| | `DifflibTypeCorrect` | `TypeOK` |
| | `EverySearchCounts` | the half of `Termination` that can be proved |
| `DumpParserProofs` | `ParserTypeCorrect` | `TypeOK` |
| | `PathSaysWhere` | `PathIsOpen`, if `NamespacesNumbered` |
| | `StrictlyAborts` | `StrictAborts`, if `NamespacesNumbered` and `UnsoundIsFaulty` |
| | `StrictIsStrict` | `StrictEndsWell`, if `NamespacesNumbered` |
| | `SiteIsRead` | `SiteInfoRead`, if `NamespacesNumbered` and `SiteIsWritten` |
| | `ParserIsSource` | `ImplementsPageSource`, if `NamespacesNumbered` and `StreamIsTold` |
| `StoredPageProofs` | `PagesResolve` | `PointersResolve` |
| | `StoredReturns` | `StoredPageReturns` |
| | `PartsAgree` | the part of `SplitsAgree` about paragraphs and sentences |
| | `TextIsPreserved` | `TextPreserved` |
| `PipelineProofs` | `TypeCorrect` | `TypeOK` |
| | `PagesAreKept` | `NothingLost` |
| | `SuccessMeansComplete` | `SuccessIsComplete` |
| | `DocumentIsWritten` | `OutputIsDocument` |
| | `PagesHaveOnePlace` | `OnePlace` |
| | `PipelineIsStream` | `ImplementsStream` |
| | `NeverStuck`, `EveryStepCounts` | the two halves of `Termination` that can be proved |
| `SequentialProofs` | `SequentialDocument` | `OutputIsDocument` |
| | `SequentialIsStream` | `ImplementsStream`, if `JobsArePlain` |

A safety property `P` is stated as `Spec => []P`, a refinement as `Spec => Implements...`
with the mapping at the end of the component's module, both for every value of the
constants that satisfies the named assumptions. Eight theorems have further
hypotheses, which stand in the theorem and are explained below; the runs satisfy
all of them.

**Authorship** assumes that texts are sequences of paragraphs of sentences of
tokens, some of them possibly empty, and have a length (`TextsAssumption`), that the
revisions are made of such texts (`InputAssumption`), and a density limit
(`SpamAssumption`); not how many texts, tokens or revisions there are, nor which
of the legal scripts the diff returns.

* `PointersValid`: `TypeOK` is inductive. Arrays only grow, so a
  pointer once valid stays so (`WidenArrays`); that the candidates' entries exist
  is a lemma of its own (`CandidatesIn`).
* `ComparisonBase`: `TypeOK /\ ComparedWithLatestValid` is inductive. `revision_prev` is
  set when a revision begins and, when one is rejected, given back to
  `current_revision`.
* `MatchesReset`: while a revision is matched, every flagged entry is in a
  list, or a part of an entry in a list, that the reset walks
  (`MatchesListed`). `FlagsClear` alone says nothing between two revisions, hence
  the strengthening. It is preserved because the lists only grow while a
  revision is matched and nothing is ever taken out of a paragraph or a
  sentence (`PartsGrow`): what the reset would have reached it still reaches.
* `TextKept`: `TextInv`. Whatever has a part has the one its text asks for at that
  place (`Spelled`); published revisions, and all that the hash tables and the
  previous revision offer, have *all* their parts (`OfferedFull`); the revision under
  way gets those of its new entries stage by stage, and what a stage still owes is in the
  list it passes on (`Underway`). `Commit` finds nothing owed. That no later step
  changes an entry that is complete is `Grows`, which every step keeps.
* `NoTraceOfSpam`: what can be found again belongs to published revisions
  (`FoundInPublished`), although a rejected revision has made entries, because they
  are put into the hash tables by `Commit` only; and ids grow (`IdsApart`).
* `CreditedTokens`: while a revision is matched, its count is the number of tokens
  it introduced, all of which are in its new sentences (`AddsMatch`).
* `TokensOnce`: no entry has a word at two places, or two parts that share one
  (`WordsOnce`); a new entry is at one place only (`NewPlaces`); and the words found so
  far for the revision under way are flagged or new (`TakenWords`). A candidate is used only if none of its words is flagged,
  and none is new, since it was published: so it brings no word a second time. This
  is where `FlagsClear` and `SpamLeavesNoTrace` are needed. That as many words as places
  means no word twice is `PlacesCounted`.
* `TokensKept`: as long as every paragraph so far was found at its old place
  (`KeptSoFar`), the next paragraph of the previous revision is the first candidate for
  the next place, and it is free, because no paragraph before it shares a word with it
  (`TokensOnce` again) and none is listed twice (`FoundOnce`).
* `DiffSuffices`: for each token, the operations of the script left, the
  unmatched words of the previous revision and the places that still await a word balance
  (`Balanced`): there are as many insertions and equalities as places, and as
  many deletions and equalities as unmatched words. It holds when the script is made, for *any*
  script that spells both texts (`ScriptCounts`), and keeping, dropping and adding a
  word each take one from both sides. So the branch of
  `analyse_words_in_sentences` for a word that is not in the diff is dead code.

**The refinement** is proved at the end of `AuthorshipProofs`. `TextsBounded` says that the texts have
between them finitely many places for tokens; every page has it, but the bound of
`TokenLedger` on the tokens a revision adds (`MaxNew`) has to be a number.
Between two revisions the mapping is immediate. In the middle of one the records are
half updated, and `LedgerInv` says how far:

* `MatchedUsed`: a flagged word is shown again or was deleted by the diff, never both;
* `MatchedWhole`: an entry found again, or passed over as exhausted, had all its
  words flagged, but for the sentences left over at the end;
* `NewbornLast`: the tokens of the revision are the last of the array and untouched;
* `LatestShows`: of the tokens of published revisions, those whose `latest` is the newest
  valid revision are the ones it shows;
* `Newest` and `TextsRead`: the revision being matched is the last entry, and
  every entry but the first has one of the texts.

Then what the sweeps of `Commit` update is what `LedgerNext` says (`PublishStep`), and every
other step is stuttering. `OutputTold` follows: `Story` is an instance of
`TokenLedgerProofs`, so the records of a page tell and alternate as those of any
ledger; `IdsApart` and `IdsInOrder` carry that over from pointers to the revision ids
that are written, and the words in reading order (`FlattenSeq`) are the tokens
of `RoundTrip` and `NoTokenTwice`.

**TokenLedger** assumes that revision ids are numbers (`LedgerAssumption`). The
inductive invariant is the type invariant, the two properties, and `InOrder`: valid
revisions are listed in page order. It makes the newest revision later than any a
record names, so that an entry appended to `outbound` or `inbound` keeps the
alternation and says nothing about earlier revisions.

**Difflib** assumes two sequences of tokens (`InputsAssumption`), a largest generation
of at least one and a threshold for popular tokens (`LimitsAssumption`). The inductive
invariant is

* `Shape`: rows fit the second text, no cell is younger than its row, windows lie
  inside both texts and are never inverted, blocks have a place and a length;
* `Runs`: a row holds for every place the length of the longest run of usable
  tokens that ends there. A run is the run that ends one token earlier and one more
  token (`RunExtends`), and a cell of an earlier row or window reads as 0, also
  when the generation has just wrapped around (`ClearedRow`, `WrittenRow`);
* `Longest`: the run found so far is the longest that ends in a row already filled and
  begins no later than the others of its length;
* `Separate`: blocks, open windows and the window being searched are pairwise
  apart: one lies before the other in both texts. Expansion stays inside the
  window (`ExpandedInside`) and what remains is on either side of the block
  (`RestApart`).

That a bounded set of numbers has a greatest element (`Greatest`), which `Max`
needs, follows from the well-foundedness of `<`.

`EverySearchCounts`: `Remaining` is a natural number that every step decreases. It counts two
searches for each token of the first text that no block covers and one for each open window,
and for each search the rows of the longest one. A block takes a
token that, by `Separate`, no other block has (`BlockCovers`), and pays with it for the two
windows it may leave; so the tokens and windows do not become more, and taking a
window off the queue pays for the rows of its search.

For the result two more parts are needed. `Matched`: what is found, expanded and put
among the blocks is equal in both texts. `Covered`: two equal unpopular tokens are both in one
open window, or a block bars the pair (`Bars`): it lies neither before both nor behind
both; cutting a window at a block keeps that (`RestHolds`).
When no window is open, nothing is left to be found: `NothingOverlooked`. Sorting
puts the blocks in the one order that `AreasInOrder` leaves (`SortedBlocks`), and the
operations between two blocks and of a block spell what they cover in both texts
(`GapPart`, `EqualPart`); joined from the first to the last they spell all
(`ScriptPart`). `FlattenSeq` is recursive: that some function flattens a sequence of any length
is shown by the least length for which there is none (`FlattensExists`).

**DumpParser** assumes of a stream only that its events are events
(`StreamAssumption`): they may come in any order, misnested, misspelled or cut off.
`ParserTypeCorrect` strengthens `TypeOK` by the types of what is being built (`SiteType`,
`PageStateType`): a builder that `build()` accepts has every mandatory field.

`PathSaysWhere`: the path the document has open after `n` events is a recursive
function. The proof speaks of every function `f` that satisfies the recursion up to `n`
(`Opens`); that there is one, and that it is the one of the definition, follows by a
least counterexample (`OpensExists`). The invariant `PathInv` is that the parser's path is what it
yields. `NamespacesNumbered` is needed: an empty namespace element whose key is no number stays
on the path (`EmptyInSite`, section 5), so that without it the property is false.

`StrictIsStrict` says of every event the parser has read with `strict` that it has no
`Fault`: it is not malformed, lacks no key, ends the innermost element, and ends no
incomplete revision. For the last one `StrictInv` relates the builder to the stream:
each mandatory field it has was given by an event behind the start of the latest
revision (`Collected`), so a revision that nothing gave a field is noticed when it
ends. `StrictlyAborts` adds `UnsoundIsFaulty`: what a stream's mark `sound` means in terms of
its events. TLC has evaluated it on all streams of `dump_parser`.

`SiteIsRead` assumes that the stream is that of a document with a site info
(`SiteIsWritten`): an arbitrary one, with any number of namespaces, and a stream that is
cut off, damaged or misspelled anywhere. The invariant `SitePlace` says for every place in
the site info which elements are open there and which namespaces have been noted
(`Noted`): all before the place whose key is a number, and no others. That a namespace
element without a name has a number for its key is again needed, and
that one number has one name.

`ParserIsSource` compares the parser with a reader who has the whole stream before him
(`DumpHistory`). A history `h` is the stream with the elements that are open after each event;
in it an event *offers* a field of a page or revision where the field's element is open, *ends* a
revision or page where it closes one, and a field has the value that was offered last since
the revision or page began, or none (`Latest`). A page is what the events since the one before
it tell, with the revisions that have their mandatory fields and no others (`PageTold`), the
pages are those that have ended (`PagesTold`), and no state of the parser occurs in any of this.
`StreamIsTold` says that the pages, the ending and the mark `sound` of a stream are
those its events tell. The invariant `ToldInv` is that the parser, after `n`
events, has returned what the first `n` tell, and has in `page`, `started_page` and
`revision_builder` what they tell of the page and revision that are underway (`ToldAt`);
there is one lemma per action (`QuietTold` to `EndPageTold`). That nothing of one revision shows
up in the next is `UnderwayUnique` and `ToldNew`: the builder's fields come from events behind the
start of one revision only. The step lemmas then are about pages that are returned
(`ReturnsNext`), the end of the stream (`StopsRight`) and `strict` (`AbortsRight`). That
`StreamIsTold` holds of what `XmlExport` makes of any document is not proved; TLC evaluates it,
computed, on each of the 1474 streams of `dump_parser` (`StreamsAreTold` in `MCDumpParser`).

**StoredPage** assumes only that texts consist of the model's symbols
(`SymbolsAssumption`) and that the changes are to some of them (`ChangeAssumption`): texts
of any length, and a change to any index. Everything that
takes a text apart scans it, from the last place to the first (`Replaced`, `Cut`,
`TokensCorasick`) or the other way (`RewrittenBy`, `Reborrowed`, `WordsOf`). That such a
function exists and is the one defined is shown by a least counterexample
(`ScanExists`, `ChainExists`), once for each direction; the lemmas about the scans then go by
`Downwards` and `Upwards`, which are the two inductions for sets of numbers.

* `PartsAgree`: both buffers are empty whenever a split begins (`Clean`). A rewriting
  step then leaves in one buffer what the plain implementation has as its new string, and
  nothing in the other (`OneReplacement`, `BuffersFollow`); a rule without a match, which the
  optimised form skips, changes nothing in the plain one either (`NothingReplaced`).
* `PagesResolve`: `Sound` is inductive. `Addressed` says that each entry is a range of
  an allocated string and each pointer has an entry. What is borrowed lies inside its parent
  (`ReborrowedAreCows`, `TrimmedAreCows`), so it is a range of the parent's string
  after `Reattached` adds the parent's offset; what is owned gets the string that
  is allocated for it (`NewStringsAre`); and the slices between the spaces of a sentence lie
  inside it (`CutPlaced`, `WordsAreRanges`). For a page that is loaded it is the checks
  in `Load` alone that carry the proof, whatever was changed in the file.
* `StoredReturns`: `Kept` is inductive. A file that was not changed is what was serialised, and passes
  the checks (`SerializedValid`). `Bases` lists each string in use once (`BasesAre`), so that an
  index finds the string it was made from (`StoredRange`) and two entries share a string after
  loading exactly if they did before (`SharingReturns`). Only an empty range changes, and
  its text does not.
* `TextIsPreserved`: the rules put white space and separators in and take them out, so no
  stage keeps the text itself. What all of them keep is how it reads (`Reading`): from its end,
  without white space and without every four "@" in a row. A rule whose replacement
  reads as its match, whatever follows, keeps the reading of every text (`ReplacedReads`), and each
  rule is such a rule (`ParagraphRulesKeep`, `SentenceRulesKeep`, `MergeKeeps`); the parts
  between separators spell together what the text spells (`CutSpells`); trimming
  takes nothing that is read (`TrimmedSpells`). Spelling a
  sentence by its words further needs that it has no white space but spaces and
  line feeds, for nothing else separates tokens: paragraphs have no carriage return
  (`ParagraphsClean`), and in a sentence a tabulator is the last symbol, where trimming finds
  it, because a rule puts a separator behind each one (`TabMarked`, `SentencesClean`, `SentenceSpells`).
  From there on it is the tokens that keep what is not a separator (`TokensFlattened`,
  `CleanedShows`), the slices of a sentence that keep what is not a space (`WordsSay`), and
  equal words that say the same, whichever is kept (`InternedSays`). That every range is
  where its text stands (`ReattachedShows`, `WordsShow`) connects all this with the strings of the
  page. `TextKept` is the inductive invariant: the paragraphs spell the text, and the sentences
  found so far spell the paragraphs before the next one. A text without the separator then is
  spelled without white space (`SpellsUnmarked`), any other without "@" as well (`SpellsInk`).

**Pipeline** assumes well-formed jobs (`JobAssumption`), at least two workers, finitely many,
and channels of at least one place per worker (`WorkersAssumption`). The inductive
invariant `IInv` is the conjunction of

* `TypeOK`;
* `Counted`: `parsed_count` is the number of selected pages the parser has passed on, which
  turns the limit test into a statement about `FirstPages`;
* `Ended`: when the parser is done, all of `FirstPages` was read, and a malformed
  end not reached by the limit was recorded;
* `LockHeld`: the holder of the mutex is waiting for a page, so a worker that
  takes one has none;
* `Drained`: a worker leaves only when the parser is done and its channel empty;
* `Closed`: the writer ends regularly only when all workers have left and the
  result channel is empty;
* `Left`: the result of the function fits the state of its threads;
* `NothingLost`.

With `exit = "ok"`, `Left`, `Closed` and `Drained` leave `SettledPages` as the only
place a page can be, `NothingLost` makes that the accepted pages, and `Ended` all
of `FirstPages`: this is `SuccessIsComplete`.

For the stream `IInv` is strengthened further:

* `Document`: `IsBody` counts the items of the output while the writer writes. For JSON
  they are the opening bracket, pages at the even places and commas at the odd ones,
  as many as `page_count` says; the closing bracket then makes it a document, and
  whatever a refused write adds instead begins one (`BegunBody`). The function returns
  an error from the start only for a headless dump, and then nothing is written.
* `Apart` and `Once`: the six places a page can be in are pairwise disjoint and none
  holds a page twice; together they are `OnePlace`.
* `Unlimited`: what the parser has passed on before it stops belongs to
  `FirstPages`, and a parse error is recorded only if the stream reports one.

`SInv`, their conjunction, maps every step to one of `PageStream`: a page is written
or skipped by the writer, the stream ends when the function returns, and every
other step leaves the stream as it is. It is `OnePlace` that makes "written" a step:
a page that arrives has not been written before.

`NeverStuck` needs `IInv` only: in every state in which the function has not returned, the
condition of some thread's next step holds, or the writer has panicked, its channel is
full, and a worker has a result for it, which is finding 1. Whoever holds the mutex
can go on, as the parser is done or there is a page for it; a parser that waits for room has
filled the channel for someone; a writer that waits is woken by a busy worker or, when there is
none, by the end of all senders. `EveryStepCounts`: `Remaining`, a weighted count of what lies before
each page and each thread, is a natural number that every step decreases. With
the fairness of section 3 the two are `Termination`; that last step needs `ENABLED`.

**Sequential** has the same assumption about jobs. The invariant says that the pages
passed are the ones written or skipped (`Settled`), that the output of a running loop is a
document without its end (`Document`), and that nothing has happened before the head is
read (`Starting`). `SequentialIsStream` is about
jobs without a limit or without invalid pages (`JobsArePlain`): with
both, the limit counts other pages than that of the parallel path (section 5), and
the refinement is false. The lemmas about documents, `FirstPages` and the limit are those of
`PipelineProofs`, repeated, for the two modules give the same names to their own variables.

**Only model-checked**:

* the liveness properties `Termination` of `Authorship`, `Difflib` and `Pipeline`
  (fairness and `ENABLED` are beyond the prover; for `Pipeline` and `Difflib` see above);
* of the dump parser, that the streams of `XmlExport` satisfy the hypotheses of its theorems
  (`StreamIsTold`, `SiteIsWritten`, `UnsoundIsFaulty`) for every document, and not only for those of
  the run;
* of the splitters `WordsAreTokens` and the half of `SplitsAgree` that is about tokens: the
  plain tokeniser rewrites the text with one rule for each sign and joins the composite ones again,
  and which symbols stand next to each other after such a chain is a question for each pair of
  rules and every text. That both splitters find the same paragraphs and sentences is proved, and
  so is that the words spell the text.

No module declares a `RECURSIVE` operator.

## 5. Findings

1. **The CLI hangs after a failed write** (`pipeline_hang`). A refused write
   panics the main thread inside the scope; the receiver of the results lives
   outside it, so the scope joins workers that wait for room in a channel nobody
   empties. The comment at `wikiwho-cli.rs:603` says they stop.
2. **Texts with entity references lose all but their last piece** (`dump_parser_text`,
   `dump_parser/mod.rs:880`).
3. **Deleted texts become empty texts** (`dump_parser_deleted`, `dump_parser/mod.rs:747`).
4. **Titles are cut at any colon** (`dump_parser_title`, `dump_parser/mod.rs:778`).

Observed while modelling, and kept as the code has it:

* A page all of whose revisions are empty is `Ok`; the documentation of
  `analyse_page` (`algorithm/mod.rs:388`) calls it an error.
* A revision rejected for its density stays in `revisions`, though its
  documentation (`types.rs:349`) says such revisions are not included.
* The README praises the CLI for "ordered output" (`src/README.md:187`); the
  parallel path writes results as they arrive.
* `--limit` counts written pages in the sequential path (`wikiwho-cli.rs:484`) and
  parsed ones in the parallel path; they differ when a page is skipped, and
  `sequential` leaves that combination out (`PlainJobs`).
* The limit is noticed only when one page more has been parsed.
* A parse error on the sequential path leaves the JSON array open, while the parallel path
  closes it; a refused write may leave a trailing comma, part of a page, or on the flush a
  closed array. The zstd encoder is dropped without `finish`.
* Without a readable head both paths fail before they write: with `--format json` the
  output is then empty, not `[]`.
* `<contributor deleted="deleted"/>` and a `<text></text>` without content make
  their revision incomplete, and it is left out.
* Without `strict` a dump cut off between two pages ends cleanly. With it,
  ids and namespace keys that are no numbers are still accepted.
* An empty namespace element whose key is no number is left on the path by the
  `continue` at `dump_parser/mod.rs:614`, so everything after it is passed over.
  MediaWiki writes no such element, and the exports of the model have none.
* Reverting to an earlier text restores its paragraphs but not always its tokens: a
  paragraph matched by an intermediate revision may win.
* `src/README.md:264` names the histogram diff of imara-diff as the default; the code
  calls `crate::difflib` (`utils.rs:371`).
* `src/README.md:253` says the optimised splitters produce identical results. The
  plain tokeniser marks a bar with "ææææ" and turns one that a text has itself into "|";
  the optimised one does not. No text of the model has it.
* A text's own "@@@@" is taken for the separator of sentences: it is lost, and a
  paragraph of nothing else has no sentences.
* `types.rs:337` keeps arrays in lockstep; loading checks indices against one array of each
  pair and not that they are equally long.

## 6. Not modelled

* **Lower case**: `to_lowercase` and its optimised form are a table of characters; symbols
  of the model are lower-case already.
* **The splitters that remain for the comparison with Python** (`utils.rs`,
  `optimized_str.rs`): called by tests only.
* **Numbers, ids and comments in the stored form**: copied as they are.
* **Options, compression, progress and error reporting** of the CLI: I/O. The progress
  counters are written, never read, by the threads that handle pages.
* **Panics of workers**: `analyse_page` panics only on an invalid pointer, which
  `PointersValid` excludes.
* **Malformed attributes and tags that are not UTF-8** in the parser: their errors
  end the parse like malformed XML.
* **Rounding** in the deletion and density tests.
* **The Python and imara-diff back ends**: only in tests and behind features.
* **Library surface, tests, benchmarks, viewer**: no state of their own.

## 7. Plan

Modelled, checked and proved: the analysis, its diff, its ledger and its output, both paths of
the CLI, the parser and the stored page as far as section 4 says. What is left:

1. `DumpParserProofs`: that what `XmlExport` makes of a document is told by its events
   (`StreamIsTold`), element by element.
2. `StoredPageProofs`: `WordsAreTokens` and the half of `SplitsAgree` about tokens, with what
   stands next to what after the rules of `TokensNaive`.
3. `AuthorshipProofs`: that every step of the analysis brings its end nearer, as
   `EverySearchCounts` says of the diff.
