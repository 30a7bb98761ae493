------------------------------ MODULE StoredPage ------------------------------
(***************************************************************************)
(* Storing a page analysis and loading it again (serde_impl.rs).  Pointers *)
(* become indices; the ranges of a shared string refer to one stored copy  *)
(* of it.  A file may have been changed in one place before it is loaded:  *)
(* what refers to nothing must be refused then, since an analysis is used  *)
(* without further checks.                                                 *)
(***************************************************************************)
EXTENDS PageText

CONSTANTS ChangedTexts,   \* texts whose pages may be changed in the file
          MaxIndex        \* bound on the indices and ends of ranges a change writes

ASSUME ChangeAssumption == ChangedTexts \subseteq Texts /\ MaxIndex \in Nat

VARIABLES
  file,     \* SerializedPageAnalysis
  changed,  \* the file was changed since it was stored
  loaded    \* what deserialize returned

vars == <<pc, scratch_buffers, page, file, changed, loaded>>

Nothing == [strings |-> <<>>]

-----------------------------------------------------------------------------
(* Serialize.                                                              *)

AllOf(entries) ==
  entries.revision \o entries.paragraph \o entries.sentence \o entries.word
AllSubstrings == AllOf(immutables)

\* Mutant: every substring is stored with a copy of its string.
BasesUnshared == [k \in DOMAIN AllSubstrings |-> AllSubstrings[k].base]

\* The shared strings in the order in which they are met (arc_index).
Bases ==
  LET met == [k \in DOMAIN AllSubstrings |-> AllSubstrings[k].base]
      new == Ascending({k \in DOMAIN met : \A j \in 1 .. k - 1 : met[j] # met[k]})
  IN [i \in DOMAIN new |-> met[new[i]]]

SerializeSubstr(arc) ==
  LET index == Min({i \in DOMAIN Bases : Bases[i] = arc.base})
  IN IF arc.from = arc.to THEN ArcSubstring(index, 0, 0) ELSE [arc EXCEPT !.base = index]

Serialized ==
  [strings |-> [i \in DOMAIN Bases |-> strings[Bases[i]]],
   substrings |-> [kind \in Kind |->
     [k \in DOMAIN immutables[kind] |-> SerializeSubstr(immutables[kind][k])]],
   pointers |-> pointers]

Store ==
  /\ pc = "analysed"
  /\ file' = Serialized
  /\ pc' = "stored"
  /\ UNCHANGED <<scratch_buffers, page, changed, loaded>>

\* One index, or one end of a range, is another than was stored.
Change ==
  /\ pc = "stored" /\ ~changed /\ RevisionText \in ChangedTexts
  /\ \E kind \in Kind, value \in 0 .. MaxIndex :
       \/ \E list \in DOMAIN file.pointers[kind] : \E k \in DOMAIN file.pointers[kind][list] :
            file' = [file EXCEPT !.pointers[kind][list][k] = value]
       \/ \E k \in DOMAIN file.substrings[kind], field \in {"base", "from", "to"} :
            file' = [file EXCEPT !.substrings[kind][k][field] = value]
  /\ changed' = TRUE
  /\ UNCHANGED <<pc, scratch_buffers, page, loaded>>

-----------------------------------------------------------------------------
(* Deserialize.                                                            *)

\* deserialize_substr: str::get fails on a range that is none of the string's.
SubstrExists(substr) ==
  /\ substr.base \in DOMAIN file.strings
  /\ substr.from <= substr.to /\ substr.to <= Len(file.strings[substr.base])

\* Mutant: the word lists are taken as they are.
PointersExistSaveWords ==
  \A kind \in Kind \ {"word"} : \A list \in Range(file.pointers[kind]) :
    Range(list) \subseteq DOMAIN file.substrings[kind]

\* rev_ptr, par_ptr, sent_ptr and word_ptr.
PointersExist ==
  \A kind \in Kind : \A list \in Range(file.pointers[kind]) :
    Range(list) \subseteq DOMAIN file.substrings[kind]

Valid ==
  /\ \A kind \in Kind : \A s \in Range(file.substrings[kind]) : SubstrExists(s)
  /\ PointersExist

Load ==
  /\ pc = "stored" /\ Valid
  /\ loaded' = [strings |-> file.strings, immutables |-> file.substrings,
                pointers |-> file.pointers]
  /\ pc' = "loaded"
  /\ UNCHANGED <<scratch_buffers, page, file, changed>>

Reject ==
  /\ pc = "stored" /\ ~Valid
  /\ pc' = "rejected"
  /\ UNCHANGED <<scratch_buffers, page, file, changed, loaded>>

Finished == pc \in {"loaded", "rejected"} /\ UNCHANGED vars

Init == InitText /\ file = Nothing /\ changed = FALSE /\ loaded = Nothing

Next ==
  \/ NextText /\ UNCHANGED <<file, changed, loaded>>
  \/ Store
  \/ Change
  \/ Load
  \/ Reject
  \/ Finished

Spec == Init /\ [][Next]_vars

-----------------------------------------------------------------------------
\* Every pointer has an entry, and every entry is a range of an existing string.
Resolves(strs, entries, lists) ==
  \A kind \in Kind :
    /\ \A list \in Range(lists[kind]) : Range(list) \subseteq DOMAIN entries[kind]
    /\ \A arc \in Range(entries[kind]) :
         arc.base \in DOMAIN strs /\ arc.from <= arc.to /\ arc.to <= Len(strs[arc.base])

\* A page resolves at every stage of the analysis, and whatever was changed in
\* its file, so does the page that is loaded: AsStr and the indexing by
\* pointers, which are not checked again, cannot go wrong on either.
PointersResolve ==
  /\ Resolves(strings, immutables, pointers)
  /\ pc = "loaded" => Resolves(loaded.strings, loaded.immutables, loaded.pointers)

LoadedStr(arc) == SubSeq(loaded.strings[arc.base], arc.from + 1, arc.to)

\* A page that is stored and loaded again has the same entries and pointers;
\* two entries share a string afterwards exactly if they did before, and no
\* string is stored twice or without need.
StoredPageReturns ==
  pc \in {"loaded", "rejected"} /\ ~changed =>
    /\ pc = "loaded"
    /\ loaded.pointers = pointers
    /\ \A kind \in Kind :
         [k \in DOMAIN loaded.immutables[kind] |-> LoadedStr(loaded.immutables[kind][k])]
           = Strings(kind)
    /\ \A i, j \in DOMAIN AllSubstrings :
         AllSubstrings[i].base = AllSubstrings[j].base
           <=> AllOf(loaded.immutables)[i].base = AllOf(loaded.immutables)[j].base
    /\ DOMAIN loaded.strings = {arc.base : arc \in Range(AllOf(loaded.immutables))}
=============================================================================
