---------------------------- MODULE MCStoredPage ----------------------------
(* Texts of up to three fragments: the patterns of all rules, letters, white  *)
(* space and runs of the separator's character.                              *)
EXTENDS StoredPage

Fragments == {
  <<"x">>, <<"word">>, <<"sp">>, <<"nl">>, <<"nl", "nl">>, <<"cr", "nl">>, <<"tab">>,
  <<"{", "|">>, <<"|", "}">>, <<"|", "-", "nl">>, <<"<", "tr", ">">>,
  <<".", "sp">>, <<";", "sp">>, <<"<", "!", "-", "-">>, <<"-", "-", ">">>,
  <<"<", "ref">>, <<"/", "ref", ">">>, <<"http", ":", "/", "/">>,
  <<"@", "@", "@">>, <<"[">>}

\* Parts of the text and parts of their own, equal words, two paragraphs.
AlteredTexts == {<<>>, <<"x">>, <<"x", "sp", "sp", "x">>, <<"x", "nl", "nl", "word", "sp", "x">>}

SmallTexts == {f \o g \o h : f, g, h \in Fragments \cup {<<>>}}
                \cup AlteredTexts
=============================================================================
