-------------------------- MODULE MCScreenStrings --------------------------
EXTENDS ScreenStrings

(* The CSV fields a line is made of: bare words, a quoted field holding a *)
(* comma, and, for the full set, an empty quoted field and a quoted field *)
(* with an escaped quote.                                                  *)
PlainFields == {<<"a">>, <<>>, <<Quote, "a", Comma, "a", Quote>>, <<Quote, "a", Quote>>}
HardFields  == {<<Quote, Quote>>, <<Quote, "a", Quote, Quote, Comma, Quote>>}

Row(F) == {f1 \o <<Comma>> \o f2 \o <<Comma>> \o f3 : f1, f2, f3 \in F}

MCAlphabet == {"a", Comma, Quote}
MCPlainLines == Row(PlainFields)
MCAllLines == Row(PlainFields \cup HardFields)
=============================================================================
