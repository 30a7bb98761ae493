----------------------------- MODULE TokenLedger -----------------------------
(***************************************************************************)
(* What the authorship analysis promises about the life of every token     *)
(* of a page, without saying how tokens are matched.  A page is a list of  *)
(* valid revisions; each shows a set of tokens.  A token records the       *)
(* revision that introduced it (origin), the last one that showed it       *)
(* (latest), those that removed it (outbound) and those that brought it    *)
(* back (inbound): the fields of WordAnalysis and their documentation.     *)
(***************************************************************************)
EXTENDS Naturals, Sequences, FiniteSets, Functions

CONSTANTS Revision,   \* revision pointers, increasing in page order
          MaxFresh    \* most tokens one revision introduces

ASSUME LedgerAssumption == Revision \subseteq Nat /\ MaxFresh \in Nat

VARIABLES valid,      \* pointers of the valid revisions, oldest first
          present,    \* present[n]: the tokens valid[n] shows
          tokens      \* the token records, in order of creation

ledger == <<valid, present, tokens>>

Life == [origin : Revision, latest : Revision,
         inbound : Seq(Revision), outbound : Seq(Revision)]

\* The tokens of the newest valid revision.
Showing == IF present = <<>> THEN {} ELSE present[Len(present)]

Born(r) == [origin |-> r, latest |-> r, inbound |-> <<>>, outbound |-> <<>>]

\* Mutant: a restored token keeps its latest revision.
UpdatedStale(t, r, kept) ==
  CASE t \in kept /\ t \in Showing -> [tokens[t] EXCEPT !.latest = r]
    [] t \in kept /\ t \notin Showing -> [tokens[t] EXCEPT !.inbound = Append(@, r)]
    [] t \notin kept /\ t \in Showing -> [tokens[t] EXCEPT !.outbound = Append(@, r)]
    [] t \notin kept /\ t \notin Showing -> tokens[t]

\* Mutant: a token that stays away is removed again.
UpdatedTwice(t, r, kept) ==
  CASE t \in kept /\ t \in Showing -> [tokens[t] EXCEPT !.latest = r]
    [] t \in kept /\ t \notin Showing ->
         [tokens[t] EXCEPT !.latest = r, !.inbound = Append(@, r)]
    [] t \notin kept -> [tokens[t] EXCEPT !.outbound = Append(@, r)]

\* The record of an existing token t once revision r, which shows kept, is valid.
Updated(t, r, kept) ==
  CASE t \in kept /\ t \in Showing -> [tokens[t] EXCEPT !.latest = r]
    [] t \in kept /\ t \notin Showing ->
         [tokens[t] EXCEPT !.latest = r, !.inbound = Append(@, r)]
    [] t \notin kept /\ t \in Showing ->
         [tokens[t] EXCEPT !.outbound = Append(@, r)]
    [] t \notin kept /\ t \notin Showing -> tokens[t]

-----------------------------------------------------------------------------
LedgerInit == valid = <<>> /\ present = <<>> /\ tokens = <<>>

\* Revision r keeps or restores the existing tokens kept and adds fresh ones.
Publish(r, kept, fresh) ==
  /\ \A n \in DOMAIN valid : valid[n] < r
  /\ valid' = Append(valid, r)
  /\ present' = Append(present, kept \cup (Len(tokens) + 1 .. Len(tokens) + fresh))
  /\ tokens' = [t \in 1 .. Len(tokens) + fresh |->
                  IF t > Len(tokens) THEN Born(r) ELSE Updated(t, r, kept)]

LedgerNext ==
  \E r \in Revision, fresh \in 0 .. MaxFresh, kept \in SUBSET DOMAIN tokens :
    Publish(r, kept, fresh)

LedgerSpec == LedgerInit /\ [][LedgerNext]_ledger

\* A step of LedgerNext, its witnesses read off the state it leads to.
LedgerStep ==
  /\ Len(valid') = Len(valid) + 1
  /\ LET r == valid'[Len(valid')]
         fresh == Len(tokens') - Len(tokens)
         kept == present'[Len(present')] \cap DOMAIN tokens
     IN r \in Revision /\ fresh \in 0 .. MaxFresh /\ Publish(r, kept, fresh)

-----------------------------------------------------------------------------
\* Records and present tokens mention existing revisions and tokens.
LedgerTypeOK ==
  /\ valid \in Seq(Revision)
  /\ present \in Seq(SUBSET DOMAIN tokens)
  /\ Len(present) = Len(valid)
  /\ tokens \in Seq(Life)

\* Token t is shown by the n-th valid revision; no revision precedes the first.
ShownBy(t, n) == n > 0 /\ t \in present[n]

(***************************************************************************)
(* The whole history of a token can be read off its record: outbound lists *)
(* exactly the revisions in which it disappeared and inbound exactly those *)
(* in which it came back, both in page order, origin is its first revision *)
(* and latest its last one (types.rs, documentation of WordAnalysis).      *)
(***************************************************************************)
RecordTellsHistory ==
  \A t \in DOMAIN tokens :
    /\ Range(tokens[t].outbound) =
         {valid[n] : n \in {m \in DOMAIN valid : ShownBy(t, m - 1) /\ ~ShownBy(t, m)}}
    /\ Range(tokens[t].inbound) =
         {valid[n] : n \in {m \in DOMAIN valid :
            ~ShownBy(t, m - 1) /\ ShownBy(t, m) /\ valid[m] # tokens[t].origin}}
    /\ \E n \in DOMAIN valid :
         /\ valid[n] = tokens[t].latest
         /\ ShownBy(t, n)
         /\ \A m \in n + 1 .. Len(valid) : ~ShownBy(t, m)
    /\ \E n \in DOMAIN valid :
         /\ valid[n] = tokens[t].origin
         /\ ShownBy(t, n)
         /\ \A m \in 1 .. n - 1 : ~ShownBy(t, m)

(***************************************************************************)
(* Removals and restorations alternate, beginning with a removal, so       *)
(* that a consumer can replay a token by merging its two lists: a token    *)
(* with as many restorations as removals is on the page, one with a        *)
(* removal more is not.                                                    *)
(***************************************************************************)
RemovalsAlternate ==
  \A t \in DOMAIN tokens :
    LET in == tokens[t].inbound
        out == tokens[t].outbound
    IN /\ Len(out) = Len(in) + (IF t \in Showing THEN 0 ELSE 1)
       /\ \A n \in DOMAIN in : out[n] < in[n]
       /\ \A n \in DOMAIN out : n > 1 => in[n - 1] < out[n]
       /\ \A n \in DOMAIN out : tokens[t].origin < out[n]
=============================================================================
