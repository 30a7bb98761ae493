--------------------------- MODULE TokenLedgerProofs ---------------------------
(***************************************************************************)
(* Proofs about TokenLedger for every page: however many revisions it has  *)
(* and however many tokens they introduce, keep, remove and restore, the   *)
(* record of a token tells its history.                                    *)
(***************************************************************************)
EXTENDS TokenLedger, SequenceTheorems, TLAPS

\* Valid revisions are listed in page order.
InOrder == \A m, n \in DOMAIN valid : m < n => valid[m] < valid[n]

IInv == LedgerTypeOK /\ InOrder /\ RecordTellsHistory /\ RemovalsAlternate

-----------------------------------------------------------------------------
\* Appending to one of the lists of the ledger.
LEMMA Appended ==
  ASSUME NEW S, NEW s \in Seq(S), NEW e \in S
  PROVE  /\ Append(s, e) \in Seq(S)
         /\ Len(s) \in Nat /\ Len(Append(s, e)) = Len(s) + 1
         /\ DOMAIN s = 1 .. Len(s) /\ DOMAIN Append(s, e) = 1 .. Len(s) + 1
         /\ \A i \in 1 .. Len(s) : Append(s, e)[i] = s[i]
         /\ Append(s, e)[Len(s) + 1] = e
         /\ Range(Append(s, e)) = Range(s) \cup {e}
<1>1. /\ Append(s, e) \in Seq(S)
      /\ Len(s) \in Nat
      /\ DOMAIN s = 1 .. Len(s)
      /\ Len(Append(s, e)) = Len(s) + 1
      /\ DOMAIN Append(s, e) = 1 .. Len(s) + 1
      /\ \A i \in 1 .. Len(s) : Append(s, e)[i] = s[i]
      /\ Append(s, e)[Len(s) + 1] = e
  BY AppendProperties, LenProperties
<1>2. 1 .. Len(s) + 1 = (1 .. Len(s)) \cup {Len(s) + 1}
  BY <1>1
<1> QED
  BY <1>1, <1>2 DEF Range

\* What one step of the ledger makes of the lists.
LEMMA Published ==
  ASSUME LedgerTypeOK,
         NEW r \in Revision, NEW fresh \in 0 .. MaxFresh, NEW kept \in SUBSET DOMAIN tokens,
         Publish(r, kept, fresh)
  PROVE  /\ Len(valid) \in Nat /\ DOMAIN valid = 1 .. Len(valid) /\ r \in Nat
         /\ DOMAIN present = 1 .. Len(valid)
         /\ Len(tokens) \in Nat /\ DOMAIN tokens = 1 .. Len(tokens) /\ fresh \in Nat
         /\ DOMAIN valid' = 1 .. Len(valid) + 1
         /\ \A n \in 1 .. Len(valid) : valid'[n] = valid[n] /\ present'[n] = present[n]
         /\ valid'[Len(valid) + 1] = r
         /\ present'[Len(valid) + 1] = kept \cup (Len(tokens) + 1 .. Len(tokens) + fresh)
         /\ DOMAIN tokens' = 1 .. Len(tokens) + fresh
         /\ \A t \in DOMAIN tokens : tokens'[t] = Updated(t, r, kept)
         /\ \A t \in DOMAIN tokens' \ DOMAIN tokens : tokens'[t] = Born(r)
         /\ \A t \in DOMAIN tokens : t \in Showing <=> ShownBy(t, Len(valid))
         /\ Len(valid') = Len(valid) + 1 /\ Len(present') = Len(valid) + 1
         /\ \A t \in DOMAIN tokens : tokens[t] \in Life
         /\ \A n \in 1 .. Len(valid) : valid[n] \in Nat /\ valid[n] < r
         /\ LedgerTypeOK'
<1>1. /\ Len(tokens) \in Nat /\ DOMAIN tokens = 1 .. Len(tokens)
      /\ \A t \in DOMAIN tokens : tokens[t] \in Life
  BY LenProperties, ElementOfSeq DEF LedgerTypeOK
<1>2. fresh \in Nat /\ r \in Nat
  BY LedgerAssumption
<1>3. /\ DOMAIN tokens' = 1 .. Len(tokens) + fresh
      /\ \A t \in 1 .. Len(tokens) + fresh :
           tokens'[t] = IF t > Len(tokens) THEN Born(r) ELSE Updated(t, r, kept)
  BY DEF Publish
<1>4. /\ \A t \in DOMAIN tokens : tokens'[t] = Updated(t, r, kept)
      /\ \A t \in DOMAIN tokens' \ DOMAIN tokens : tokens'[t] = Born(r)
      /\ DOMAIN tokens \subseteq DOMAIN tokens'
  BY <1>1, <1>2, <1>3
<1>5. /\ valid' \in Seq(Revision)
      /\ Len(valid) \in Nat /\ DOMAIN valid = 1 .. Len(valid)
      /\ Len(valid') = Len(valid) + 1 /\ DOMAIN valid' = 1 .. Len(valid) + 1
      /\ \A n \in 1 .. Len(valid) : valid'[n] = valid[n]
      /\ valid'[Len(valid) + 1] = r
  BY Appended DEF LedgerTypeOK, Publish
<1> DEFINE shown == kept \cup (Len(tokens) + 1 .. Len(tokens) + fresh)
<1>6. shown \in SUBSET DOMAIN tokens'
  BY <1>1, <1>2, <1>3
<1>7. present \in Seq(SUBSET DOMAIN tokens')
  <2>1. /\ present \in Seq(SUBSET DOMAIN tokens) /\ Len(present) \in Nat
        /\ DOMAIN present = 1 .. Len(present)
        /\ \A n \in 1 .. Len(present) : present[n] \in SUBSET DOMAIN tokens
    BY LenProperties, ElementOfSeq DEF LedgerTypeOK
  <2>2. present = [n \in 1 .. Len(present) |-> present[n]]
    BY <2>1
  <2> QED
    BY <1>4, <2>1, <2>2, IsASeq
<1>8. present' = Append(present, shown)
  BY DEF Publish
<1> HIDE DEF shown
<1>9. /\ present' \in Seq(SUBSET DOMAIN tokens')
      /\ Len(present) = Len(valid) /\ Len(present') = Len(valid) + 1
      /\ DOMAIN present = 1 .. Len(valid)
      /\ \A n \in 1 .. Len(valid) : present'[n] = present[n]
      /\ present'[Len(valid) + 1] = shown
  BY <1>6, <1>7, <1>8, Appended DEF LedgerTypeOK
<1>10. \A t \in DOMAIN tokens : t \in Showing <=> ShownBy(t, Len(valid))
  BY <1>5, <1>9, EmptySeq DEF Showing, ShownBy, LedgerTypeOK
<1>11. \A t \in DOMAIN tokens' : tokens'[t] \in Life
  <2>1. ASSUME NEW t \in DOMAIN tokens PROVE Updated(t, r, kept) \in Life
    <3>1. /\ tokens[t] \in Life
          /\ Append(tokens[t].inbound, r) \in Seq(Revision)
          /\ Append(tokens[t].outbound, r) \in Seq(Revision)
      BY <1>1, AppendProperties DEF Life
    <3> QED
      BY <3>1 DEF Updated, Life
  <2>2. Born(r) \in Life
    BY DEF Born, Life
  <2> QED
    BY <1>4, <2>1, <2>2
<1>12. tokens' \in Seq(Life)
  <2>1. tokens' = [t \in 1 .. Len(tokens) + fresh |-> tokens'[t]]
    BY DEF Publish
  <2> QED
    BY <2>1, <1>1, <1>2, <1>3, <1>11, IsASeq
<1>13. LedgerTypeOK'
  BY <1>5, <1>9, <1>12 DEF LedgerTypeOK
<1>14. \A n \in 1 .. Len(valid) : valid[n] \in Nat /\ valid[n] < r
  BY <1>5, ElementOfSeq, LedgerAssumption DEF LedgerTypeOK, Publish
<1> QED
  BY <1>1, <1>2, <1>3, <1>4, <1>5, <1>9, <1>10, <1>13, <1>14 DEF shown

-----------------------------------------------------------------------------
(* The record of one token.                                                *)

History(t) ==
  /\ Range(tokens[t].outbound) =
       {valid[n] : n \in {m \in DOMAIN valid : ShownBy(t, m - 1) /\ ~ShownBy(t, m)}}
  /\ Range(tokens[t].inbound) =
       {valid[n] : n \in {m \in DOMAIN valid :
          ~ShownBy(t, m - 1) /\ ShownBy(t, m) /\ valid[m] # tokens[t].origin}}
  /\ \E n \in DOMAIN valid :
       /\ valid[n] = tokens[t].latest
       /\ ShownBy(t, n)
       /\ \A m \in n + 1 .. Len(valid) : ~ShownBy(t, m)
  /\ \E n \in DOMAIN valid :
       /\ valid[n] = tokens[t].origin
       /\ ShownBy(t, n)
       /\ \A m \in 1 .. n - 1 : ~ShownBy(t, m)

Alternates(t) ==
  LET in == tokens[t].inbound
      out == tokens[t].outbound
  IN /\ Len(out) = Len(in) + (IF t \in Showing THEN 0 ELSE 1)
     /\ \A n \in DOMAIN in : out[n] < in[n]
     /\ \A n \in DOMAIN out : n > 1 => in[n - 1] < out[n]
     /\ \A n \in DOMAIN out : tokens[t].origin < out[n]

\* A token the step does not touch, or touches, keeps a record of its history.
LEMMA HistoryKept ==
  ASSUME LedgerTypeOK,
         NEW r \in Revision, NEW fresh \in 0 .. MaxFresh, NEW kept \in SUBSET DOMAIN tokens,
         Publish(r, kept, fresh),
         NEW t \in DOMAIN tokens, History(t)
  PROVE  History(t)'
<1>0. PICK L \in Nat : L = Len(valid)
  BY Published
<1> DEFINE gone(m) == ShownBy(t, m - 1) /\ ~ShownBy(t, m)
           back(m) == ~ShownBy(t, m - 1) /\ ShownBy(t, m) /\ valid[m] # tokens[t].origin
           out == tokens[t].outbound
           in == tokens[t].inbound
<1>1. /\ L \in Nat /\ DOMAIN valid = 1 .. L /\ DOMAIN valid' = 1 .. L + 1
      /\ \A n \in 1 .. L : valid'[n] = valid[n]
      /\ valid'[L + 1] = r /\ Len(valid') = L + 1
      /\ tokens'[t] = Updated(t, r, kept)
      /\ t \in Showing <=> ShownBy(t, L)
  BY <1>0, Published
<1>2. /\ \A n \in 0 .. L : ShownBy(t, n)' <=> ShownBy(t, n)
      /\ ShownBy(t, L + 1)' <=> t \in kept
  <2>1. /\ \A n \in 1 .. L : present'[n] = present[n]
        /\ present'[L + 1] = kept \cup (Len(tokens) + 1 .. Len(tokens) + fresh)
        /\ t \in 1 .. Len(tokens) /\ Len(tokens) \in Nat
    BY <1>0, Published
  <2> QED
    BY <1>1, <2>1 DEF ShownBy
<1>3. /\ tokens[t] \in Life
      /\ out \in Seq(Revision) /\ in \in Seq(Revision)
      /\ r \in Nat /\ \A n \in 1 .. L : valid[n] \in Nat /\ valid[n] < r
  BY <1>0, Published DEF Life
<1>4. /\ Range(Append(out, r)) = Range(out) \cup {r}
      /\ Range(Append(in, r)) = Range(in) \cup {r}
  BY <1>3, Appended
<1>5. /\ tokens'[t].origin = tokens[t].origin
      /\ tokens'[t].latest = IF t \in kept THEN r ELSE tokens[t].latest
      /\ Range(tokens'[t].outbound) =
           IF t \in Showing /\ t \notin kept THEN Range(out) \cup {r} ELSE Range(out)
      /\ Range(tokens'[t].inbound) =
           IF t \notin Showing /\ t \in kept THEN Range(in) \cup {r} ELSE Range(in)
  BY <1>1, <1>3, <1>4 DEF Updated, Life
<1>6. /\ \A m \in 1 .. L : gone(m)' <=> gone(m)
      /\ gone(L + 1)' <=> t \in Showing /\ t \notin kept
  BY <1>1, <1>2
<1>7. tokens[t].origin # r
  BY <1>1, <1>3 DEF History, LedgerTypeOK
<1>8. /\ \A m \in 1 .. L : back(m)' <=> back(m)
      /\ back(L + 1)' <=> t \notin Showing /\ t \in kept
  BY <1>1, <1>2, <1>5, <1>7
<1> HIDE DEF gone, back
<1>9. /\ Range(out) = {valid[n] : n \in {m \in 1 .. L : gone(m)}}
      /\ Range(in) = {valid[n] : n \in {m \in 1 .. L : back(m)}}
  BY <1>1 DEF History, gone, back
<1>10. Range(tokens'[t].outbound) = {valid'[n] : n \in {m \in 1 .. L + 1 : gone(m)'}}
  <2>1. {m \in 1 .. L + 1 : gone(m)'}
          = {m \in 1 .. L : gone(m)} \cup (IF t \in Showing /\ t \notin kept THEN {L + 1} ELSE {})
    BY <1>1, <1>6
  <2> QED
    BY <1>1, <1>5, <1>9, <2>1
<1>11. Range(tokens'[t].inbound) = {valid'[n] : n \in {m \in 1 .. L + 1 : back(m)'}}
  <2>1. {m \in 1 .. L + 1 : back(m)'}
          = {m \in 1 .. L : back(m)} \cup (IF t \notin Showing /\ t \in kept THEN {L + 1} ELSE {})
    BY <1>1, <1>8
  <2> QED
    BY <1>1, <1>5, <1>9, <2>1
<1>12. \E n \in 1 .. L + 1 :
         /\ valid'[n] = tokens'[t].latest
         /\ ShownBy(t, n)'
         /\ \A m \in n + 1 .. L + 1 : ~ShownBy(t, m)'
  <2>1. CASE t \in kept
    BY <2>1, <1>1, <1>2, <1>5
  <2>2. CASE t \notin kept
    <3>1. PICK n \in 1 .. L : /\ valid[n] = tokens[t].latest
                              /\ ShownBy(t, n)
                              /\ \A m \in n + 1 .. L : ~ShownBy(t, m)
      BY <1>1 DEF History
    <3>2. \A m \in n + 1 .. L + 1 : ~ShownBy(t, m)'
      BY <2>2, <3>1, <1>1, <1>2
    <3> QED
      BY <2>2, <3>1, <3>2, <1>1, <1>2, <1>5
  <2> QED
    BY <2>1, <2>2
<1>13. \E n \in 1 .. L + 1 :
         /\ valid'[n] = tokens'[t].origin
         /\ ShownBy(t, n)'
         /\ \A m \in 1 .. n - 1 : ~ShownBy(t, m)'
  <2>1. PICK n \in 1 .. L : /\ valid[n] = tokens[t].origin
                            /\ ShownBy(t, n)
                            /\ \A m \in 1 .. n - 1 : ~ShownBy(t, m)
    BY <1>1 DEF History
  <2> QED
    BY <2>1, <1>1, <1>2, <1>5
<1> QED
  BY <1>1, <1>10, <1>11, <1>12, <1>13 DEF History, gone, back

\* Removals and restorations still alternate after the step.
LEMMA AlternationKept ==
  ASSUME LedgerTypeOK,
         NEW r \in Revision, NEW fresh \in 0 .. MaxFresh, NEW kept \in SUBSET DOMAIN tokens,
         Publish(r, kept, fresh),
         NEW t \in DOMAIN tokens, History(t), Alternates(t)
  PROVE  Alternates(t)'
<1> DEFINE out == tokens[t].outbound
           in == tokens[t].inbound
<1>1. /\ Len(valid) \in Nat /\ DOMAIN valid = 1 .. Len(valid)
      /\ tokens'[t] = Updated(t, r, kept)
      /\ t \in Showing' <=> t \in kept
      /\ r \in Nat
  <2>1. /\ LedgerTypeOK'
        /\ Len(valid) \in Nat /\ DOMAIN valid = 1 .. Len(valid) /\ r \in Nat
        /\ t \in 1 .. Len(tokens) /\ Len(tokens) \in Nat
        /\ tokens'[t] = Updated(t, r, kept)
        /\ Len(present') = Len(valid) + 1
        /\ present'[Len(valid) + 1] = kept \cup (Len(tokens) + 1 .. Len(tokens) + fresh)
    BY Published
  <2>2. Showing' = present'[Len(present')]
    BY <2>1, EmptySeq DEF Showing, LedgerTypeOK
  <2> QED
    BY <2>1, <2>2
<1>2. /\ tokens[t] \in Life
      /\ out \in Seq(Revision) /\ in \in Seq(Revision)
      /\ \A n \in 1 .. Len(valid) : valid[n] \in Nat /\ valid[n] < r
  BY Published DEF Life
<1>3. /\ Range(out) \subseteq {valid[n] : n \in 1 .. Len(valid)}
      /\ Range(in) \subseteq {valid[n] : n \in 1 .. Len(valid)}
      /\ tokens[t].origin \in {valid[n] : n \in 1 .. Len(valid)}
  BY <1>1 DEF History
<1>4. /\ Len(out) \in Nat /\ DOMAIN out = 1 .. Len(out)
      /\ Len(in) \in Nat /\ DOMAIN in = 1 .. Len(in)
  BY <1>2, LenProperties
<1>5. /\ \A n \in 1 .. Len(out) : out[n] < r
      /\ \A n \in 1 .. Len(in) : in[n] < r
      /\ tokens[t].origin < r
  BY <1>2, <1>3, <1>4 DEF Range
<1>6. /\ Len(Append(out, r)) = Len(out) + 1 /\ DOMAIN Append(out, r) = 1 .. Len(out) + 1
      /\ \A n \in 1 .. Len(out) : Append(out, r)[n] = out[n]
      /\ Append(out, r)[Len(out) + 1] = r
      /\ Len(Append(in, r)) = Len(in) + 1 /\ DOMAIN Append(in, r) = 1 .. Len(in) + 1
      /\ \A n \in 1 .. Len(in) : Append(in, r)[n] = in[n]
      /\ Append(in, r)[Len(in) + 1] = r
  BY <1>2, Appended
<1>7. /\ Len(out) = Len(in) + (IF t \in Showing THEN 0 ELSE 1)
      /\ \A n \in 1 .. Len(in) : out[n] < in[n]
      /\ \A n \in 1 .. Len(out) : n > 1 => in[n - 1] < out[n]
      /\ \A n \in 1 .. Len(out) : tokens[t].origin < out[n]
  BY <1>4 DEF Alternates
<1> HIDE DEF out, in
<1>8. CASE t \in kept /\ t \notin Showing
  <2>1. /\ tokens'[t].outbound = out /\ tokens'[t].inbound = Append(in, r)
        /\ tokens'[t].origin = tokens[t].origin
    BY <1>8, <1>1, <1>2 DEF Updated, Life, out, in
  <2> QED
    BY <2>1, <1>8, <1>1, <1>4, <1>5, <1>6, <1>7 DEF Alternates
<1>9. CASE t \notin kept /\ t \in Showing
  <2>1. /\ tokens'[t].outbound = Append(out, r) /\ tokens'[t].inbound = in
        /\ tokens'[t].origin = tokens[t].origin
    BY <1>9, <1>1, <1>2 DEF Updated, Life, out, in
  <2> QED
    BY <2>1, <1>9, <1>1, <1>4, <1>5, <1>6, <1>7 DEF Alternates
<1>10. CASE t \in kept <=> t \in Showing
  <2>1. /\ tokens'[t].outbound = out /\ tokens'[t].inbound = in
        /\ tokens'[t].origin = tokens[t].origin
    BY <1>10, <1>1, <1>2 DEF Updated, Life, out, in
  <2> QED
    BY <2>1, <1>10, <1>1, <1>4, <1>7 DEF Alternates
<1> QED
  BY <1>8, <1>9, <1>10

\* A new token starts with a record of its history.
LEMMA HistoryBegun ==
  ASSUME LedgerTypeOK,
         NEW r \in Revision, NEW fresh \in 0 .. MaxFresh, NEW kept \in SUBSET DOMAIN tokens,
         Publish(r, kept, fresh),
         NEW t \in DOMAIN tokens' \ DOMAIN tokens
  PROVE  History(t)' /\ Alternates(t)'
<1>0. PICK L \in Nat : L = Len(valid)
  BY Published
<1>1. /\ L \in Nat /\ DOMAIN valid' = 1 .. L + 1
      /\ valid'[L + 1] = r /\ Len(valid') = L + 1 /\ Len(present') = L + 1
      /\ tokens'[t] = Born(r)
  BY <1>0, Published
<1>2. /\ \A n \in 0 .. L : ~ShownBy(t, n)'
      /\ ShownBy(t, L + 1)' /\ t \in Showing'
  <2>1. /\ \A n \in 1 .. L : present'[n] = present[n]
        /\ present'[L + 1] = kept \cup (Len(tokens) + 1 .. Len(tokens) + fresh)
        /\ DOMAIN tokens = 1 .. Len(tokens) /\ Len(tokens) \in Nat
        /\ DOMAIN tokens' = 1 .. Len(tokens) + fresh /\ fresh \in Nat
        /\ DOMAIN present = 1 .. L
        /\ LedgerTypeOK'
    BY <1>0, Published
  <2>2. \A n \in 1 .. L : present[n] \subseteq DOMAIN tokens
    BY <2>1, ElementOfSeq DEF LedgerTypeOK
  <2>3. Showing' = present'[L + 1]
    BY <1>1, <2>1, EmptySeq DEF Showing, LedgerTypeOK
  <2>4. t \in Len(tokens) + 1 .. Len(tokens) + fresh
    BY <2>1
  <2> QED
    BY <1>1, <2>1, <2>2, <2>3, <2>4 DEF ShownBy
<1>3. /\ tokens'[t].origin = r /\ tokens'[t].latest = r
      /\ tokens'[t].inbound = <<>> /\ tokens'[t].outbound = <<>>
  BY <1>1 DEF Born
<1>4. Range(<<>>) = {} /\ DOMAIN <<>> = {} /\ Len(<<>>) = 0
  BY DEF Range
<1>5. {m \in 1 .. L + 1 : ShownBy(t, m - 1)' /\ ~ShownBy(t, m)'} = {}
  BY <1>1, <1>2
<1>6. {m \in 1 .. L + 1 : ~ShownBy(t, m - 1)' /\ ShownBy(t, m)' /\ valid'[m] # r} = {}
  BY <1>1, <1>2
<1>7. \A m \in (L + 1) + 1 .. L + 1 : ~ShownBy(t, m)'
  BY <1>1
<1>8. \A m \in 1 .. (L + 1) - 1 : ~ShownBy(t, m)'
  BY <1>1, <1>2
<1>9. History(t)'
  BY <1>1, <1>2, <1>3, <1>4, <1>5, <1>6, <1>7, <1>8 DEF History
<1>10. Alternates(t)'
  BY <1>2, <1>3, <1>4 DEF Alternates
<1> QED
  BY <1>9, <1>10

-----------------------------------------------------------------------------
LEMMA InitInv == LedgerInit => IInv
<1> SUFFICES ASSUME LedgerInit PROVE IInv
  OBVIOUS
<1>1. DOMAIN valid = {} /\ DOMAIN tokens = {}
  BY DEF LedgerInit
<1> QED
  BY <1>1 DEF LedgerInit, IInv, LedgerTypeOK, InOrder, RecordTellsHistory, RemovalsAlternate

LEMMA StepInv == IInv /\ [LedgerNext]_ledger => IInv'
<1> SUFFICES ASSUME IInv, [LedgerNext]_ledger PROVE IInv'
  OBVIOUS
<1>1. CASE LedgerNext
  <2>1. PICK r \in Revision, fresh \in 0 .. MaxFresh, kept \in SUBSET DOMAIN tokens :
          Publish(r, kept, fresh)
    BY <1>1 DEF LedgerNext
  <2>2. LedgerTypeOK' /\ InOrder'
    <3>1. /\ LedgerTypeOK'
          /\ Len(valid) \in Nat /\ DOMAIN valid = 1 .. Len(valid)
          /\ DOMAIN valid' = 1 .. Len(valid) + 1
          /\ \A n \in 1 .. Len(valid) : valid'[n] = valid[n]
          /\ valid'[Len(valid) + 1] = r
      BY <2>1, Published DEF IInv
    <3>2. \A n \in 1 .. Len(valid) : valid[n] < r
      BY <2>1, <3>1 DEF Publish
    <3> QED
      BY <3>1, <3>2 DEF IInv, InOrder
  <2>3. ASSUME NEW t \in DOMAIN tokens' PROVE History(t)' /\ Alternates(t)'
    <3>1. CASE t \in DOMAIN tokens
      <4>1. History(t) /\ Alternates(t)
        BY <3>1 DEF IInv, RecordTellsHistory, RemovalsAlternate, History, Alternates
      <4> QED
        BY <2>1, <3>1, <4>1, HistoryKept, AlternationKept DEF IInv
    <3>2. CASE t \notin DOMAIN tokens
      BY <2>1, <3>2, HistoryBegun DEF IInv
    <3> QED
      BY <3>1, <3>2
  <2> QED
    BY <2>2, <2>3 DEF IInv, RecordTellsHistory, RemovalsAlternate, History, Alternates
<1>2. CASE UNCHANGED ledger
  <2>1. LedgerTypeOK' /\ InOrder'
    BY <1>2 DEF ledger, IInv, LedgerTypeOK, InOrder
  <2>2. RecordTellsHistory'
    <3>1. valid' = valid /\ tokens' = tokens /\ present' = present
      BY <1>2 DEF ledger
    <3>2. ASSUME NEW t \in DOMAIN tokens PROVE History(t)'
      <4>1. History(t)
        BY DEF IInv, RecordTellsHistory, History
      <4>2. \A n : ShownBy(t, n)' <=> ShownBy(t, n)
        BY <3>1 DEF ShownBy
      <4> QED
        BY <3>1, <4>1, <4>2 DEF History
    <3> QED
      BY <3>1, <3>2 DEF RecordTellsHistory, History
  <2>3. RemovalsAlternate'
    BY <1>2 DEF ledger, IInv, RemovalsAlternate, Showing
  <2> QED
    BY <2>1, <2>2, <2>3 DEF IInv
<1> QED
  BY <1>1, <1>2

\* Only valid revisions remove or restore tokens.
LEMMA ValidOnly ==
  ASSUME RecordTellsHistory, NEW t \in DOMAIN tokens
  PROVE  /\ Range(tokens[t].outbound) \subseteq Range(valid)
         /\ Range(tokens[t].inbound) \subseteq Range(valid)
<1>1. /\ Range(tokens[t].outbound) =
           {valid[n] : n \in {m \in DOMAIN valid : ShownBy(t, m - 1) /\ ~ShownBy(t, m)}}
      /\ Range(tokens[t].inbound) =
           {valid[n] : n \in {m \in DOMAIN valid :
              ~ShownBy(t, m - 1) /\ ShownBy(t, m) /\ valid[m] # tokens[t].origin}}
  BY DEF RecordTellsHistory
<1>2. Range(valid) = {valid[n] : n \in DOMAIN valid}
  BY DEF Range
<1> QED
  BY <1>1, <1>2

\* A step that can be read off the state it leads to is one of the ledger's.
LEMMA StepIsNext == LedgerStep => LedgerNext
<1> SUFFICES ASSUME LedgerStep PROVE LedgerNext
  OBVIOUS
<1> DEFINE r == valid'[Len(valid')]
           fresh == Len(tokens') - Len(tokens)
           kept == present'[Len(present')] \cap DOMAIN tokens
<1>1. r \in Revision /\ fresh \in 0 .. MaxFresh /\ Publish(r, kept, fresh)
  BY DEF LedgerStep
<1>2. kept \in SUBSET DOMAIN tokens
  OBVIOUS
<1> HIDE DEF r, fresh, kept
<1> QED
  BY <1>1, <1>2 DEF LedgerNext

LEMMA Invariance == LedgerSpec => []IInv
<1> QED
  BY InitInv, StepInv, PTL DEF LedgerSpec

\* The history of a token can be read off its record, after every revision.
THEOREM HistoryIsTold == LedgerSpec => []RecordTellsHistory
<1>1. IInv => RecordTellsHistory
  BY DEF IInv
<1> QED
  BY <1>1, Invariance, PTL

\* Removals and restorations of a token alternate, beginning with a removal.
THEOREM RemovalsComeFirst == LedgerSpec => []RemovalsAlternate
<1>1. IInv => RemovalsAlternate
  BY DEF IInv
<1> QED
  BY <1>1, Invariance, PTL
=============================================================================
