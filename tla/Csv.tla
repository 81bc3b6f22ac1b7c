-------------------------------- MODULE Csv --------------------------------
(***************************************************************************)
(* The comma screening and splitting that check_conway_syncdb.py applies   *)
(* to every CSV line (screen_strings, lines 6-20, and str.split(',')),     *)
(* as closed-form operators over a line of characters, and the reference  *)
(* they are judged against: a CSV comma separates two fields exactly when  *)
(* an even number of quote characters precede it (RFC 4180, where a quote  *)
(* inside a quoted field is written twice).                                *)
(***************************************************************************)
EXTENDS Naturals, Sequences, FiniteSets

(* Characters are strings; the double quote, the space, the comma and    *)
(* the semicolon are written as the tokens below.                         *)
Quote == "dq"

Space == "sp"

Comma == "comma"

Semicolon == "semicolon"

(* The positions 2..i at which screen_strings flips `inside`: the previous *)
(* character is a quote and this one is not (line 11).                    *)
Toggles(l, i) == {j \in 2..i : l[j-1] = Quote /\ l[j] # Quote}

(* Whether `inside` is set when the loop reaches position i.              *)
InsideAt(l, i) == Cardinality(Toggles(l, i)) % 2 = 1

(* The string screen_strings returns: a comma met while `inside` becomes  *)
(* ';' (lines 14-17), every other character is copied.                    *)
Screened(l) ==
    [i \in 1..Len(l) |-> IF l[i] = Comma /\ InsideAt(l, i) THEN Semicolon ELSE l[i]]

(* The quote characters among the first k characters.                     *)
QuotesIn(l, k) == {j \in 1..k : l[j] = Quote}

(* Reference: the commas inside a quoted field are those preceded by an   *)
(* odd number of quotes.                                                  *)
CsvScreen(l) ==
    [i \in 1..Len(l) |->
        IF l[i] = Comma /\ Cardinality(QuotesIn(l, i-1)) % 2 = 1
        THEN Semicolon ELSE l[i]]

(* A line in which no two quotes are adjacent: no empty quoted field and  *)
(* no escaped quote.                                                      *)
NoQuoteRun(l) == \A i \in 1..(Len(l)-1) : ~(l[i] = Quote /\ l[i+1] = Quote)

(* str.split(','): the pieces between consecutive commas.                 *)
CommaAt(s) == {i \in 1..Len(s) : s[i] = Comma}
FieldBounds(s) ==
    LET cut(k) == IF k = 0 THEN 0
                  ELSE IF k = Cardinality(CommaAt(s)) + 1 THEN Len(s) + 1
                  ELSE CHOOSE i \in CommaAt(s) :
                          Cardinality({j \in CommaAt(s) : j <= i}) = k
    IN  [k \in 0..Cardinality(CommaAt(s)) + 1 |-> cut(k)]
Split(s) ==
    LET b == FieldBounds(s)
    IN  [k \in 1..Cardinality(CommaAt(s)) + 1 |-> SubSeq(s, b[k-1] + 1, b[k] - 1)]
=============================================================================
