---------------------------- MODULE ScreenProofs ----------------------------
(***************************************************************************)
(* Proofs about the loop of screen_strings (check_conway_syncdb.py, lines  *)
(* 6-20): it returns the closed form Screened of Csv, and on lines without *)
(* adjacent quotes it screens exactly the commas inside quoted fields.     *)
(***************************************************************************)
EXTENDS ScreenStrings, FiniteSetTheorems, TLAPS

(* Whether an odd number of quotes lie among the first k characters.      *)
QOdd(l, k) == Cardinality(QuotesIn(l, k)) % 2 = 1

LEMMA TogglesFinite ==
    ASSUME NEW l, NEW i \in Int
    PROVE  IsFiniteSet(Toggles(l, i))
<1>1. IsFiniteSet(2..i)
  BY FS_Interval
<1>2. Toggles(l, i) \in SUBSET (2..i)
  BY DEF Toggles
<1> QED
  BY <1>1, <1>2, FS_Subset

LEMMA QuotesFinite ==
    ASSUME NEW l, NEW k \in Int
    PROVE  IsFiniteSet(QuotesIn(l, k))
<1>1. IsFiniteSet(1..k)
  BY FS_Interval
<1>2. QuotesIn(l, k) \in SUBSET (1..k)
  BY DEF QuotesIn
<1> QED
  BY <1>1, <1>2, FS_Subset

(* Adding a new element to a finite set flips the parity of its size.     *)
LEMMA ParityAdd ==
    ASSUME NEW S, IsFiniteSet(S), NEW x, x \notin S
    PROVE  (Cardinality(S \cup {x}) % 2 = 1) <=> ~(Cardinality(S) % 2 = 1)
<1>1. Cardinality(S \cup {x}) = Cardinality(S) + 1
  BY FS_AddElement
<1>2. Cardinality(S) \in Nat
  BY FS_CardinalityType
<1> QED
  BY <1>1, <1>2

(* `inside` flips at position i exactly when a quote is followed by a     *)
(* character that is not one.                                             *)
LEMMA InsideStep ==
    ASSUME NEW l, NEW i \in Nat \ {0}
    PROVE  InsideAt(l, i) <=>
             IF i >= 2 /\ l[i-1] = Quote /\ l[i] # Quote
             THEN ~InsideAt(l, i-1) ELSE InsideAt(l, i-1)
<1>1. CASE i >= 2 /\ l[i-1] = Quote /\ l[i] # Quote
  <2>1. Toggles(l, i) = Toggles(l, i-1) \cup {i}
    BY <1>1 DEF Toggles
  <2>2. i \notin Toggles(l, i-1)
    BY DEF Toggles
  <2>3. IsFiniteSet(Toggles(l, i-1))
    BY TogglesFinite
  <2> QED
    BY <1>1, <2>1, <2>2, <2>3, ParityAdd DEF InsideAt
<1>2. CASE ~(i >= 2 /\ l[i-1] = Quote /\ l[i] # Quote)
  <2>1. Toggles(l, i) = Toggles(l, i-1)
    BY <1>2 DEF Toggles
  <2> QED
    BY <1>2, <2>1 DEF InsideAt
<1> QED
  BY <1>1, <1>2

(* The parity of the quotes among the first k characters flips exactly at *)
(* a quote.                                                               *)
LEMMA QuoteStep ==
    ASSUME NEW l, NEW k \in Nat \ {0}
    PROVE  QOdd(l, k) <=> IF l[k] = Quote THEN ~QOdd(l, k-1) ELSE QOdd(l, k-1)
<1>1. CASE l[k] = Quote
  <2>1. QuotesIn(l, k) = QuotesIn(l, k-1) \cup {k}
    BY <1>1 DEF QuotesIn
  <2>2. k \notin QuotesIn(l, k-1)
    BY DEF QuotesIn
  <2>3. IsFiniteSet(QuotesIn(l, k-1))
    BY QuotesFinite
  <2> QED
    BY <1>1, <2>1, <2>2, <2>3, ParityAdd DEF QOdd
<1>2. CASE l[k] # Quote
  <2>1. QuotesIn(l, k) = QuotesIn(l, k-1)
    BY <1>2 DEF QuotesIn
  <2> QED
    BY <1>2, <2>1 DEF QOdd
<1> QED
  BY <1>1, <1>2

LEMMA NoToggleAtStart ==
    ASSUME NEW l
    PROVE  /\ ~InsideAt(l, 0)
           /\ ~QOdd(l, 0)
<1>1. Toggles(l, 0) = {} /\ QuotesIn(l, 0) = {}
  BY DEF Toggles, QuotesIn
<1> QED
  BY <1>1, FS_EmptySet DEF InsideAt, QOdd

-----------------------------------------------------------------------------
(* The inductive invariant: after ptr-1 iterations, `out` is the prefix   *)
(* of both Screened(line) and, on lines without adjacent quotes, of       *)
(* CsvScreen(line); `prev` is the last character read and `inside` the    *)
(* parity of the flips, which is the parity of the quotes before it.      *)
LoopInv ==
    /\ TypeOK
    /\ Len(out) = ptr - 1
    /\ prev = IF ptr = 1 THEN Space ELSE line[ptr-1]
    /\ inside <=> InsideAt(line, ptr-1)
    /\ \A i \in 1..(ptr-1) : out[i] = Screened(line)[i]
    /\ NoQuoteRun(line) =>
         /\ inside <=> (ptr # 1 /\ QOdd(line, ptr-2))
         /\ \A i \in 1..(ptr-1) : out[i] = CsvScreen(line)[i]

LEMMA InitLoopInv == Init => LoopInv
<1> SUFFICES ASSUME Init PROVE LoopInv
  OBVIOUS
<1>1. line \in Seq(Alphabet)
  BY LinesAssumption DEF Init
<1>2. ~InsideAt(line, 0)
  BY NoToggleAtStart
<1>3. inside <=> InsideAt(line, ptr-1)
  BY <1>2 DEF Init
<1>4. /\ ptr \in 1..(Len(line) + 1)
      /\ prev \in Alphabet \cup {Space}
      /\ out \in Seq(Alphabet \cup {Semicolon})
      /\ Len(out) = ptr - 1
  BY <1>1 DEF Init
<1>5. NoQuoteRun(line) => (inside <=> (ptr # 1 /\ QOdd(line, ptr-2)))
  BY DEF Init
<1>6. inside \in BOOLEAN /\ prev = Space /\ ptr = 1
  BY DEF Init
<1>7. \A i \in 1..(ptr-1) : out[i] = Screened(line)[i] /\ out[i] = CsvScreen(line)[i]
  BY DEF Init
<1> QED
  BY <1>1, <1>3, <1>4, <1>5, <1>6, <1>7 DEF LoopInv, TypeOK

LEMMA StepLoopInv == LoopInv /\ [Next]_vars => LoopInv'
<1> SUFFICES ASSUME LoopInv, [Next]_vars PROVE LoopInv'
  OBVIOUS
<1> USE DEF LoopInv, TypeOK
<1>1. CASE Step
  <2> DEFINE p == ptr
             c == line[p]
             ins == IF prev = Quote /\ c # Quote THEN ~inside ELSE inside
             v == IF c = Comma /\ ins THEN Semicolon ELSE c
  <2>1. /\ p \in 1..Len(line)
        /\ c \in Alphabet
        /\ inside' = ins
        /\ out' = Append(out, v)
        /\ prev' = c
        /\ ptr' = p + 1
        /\ line' = line
    BY <1>1 DEF Step
  <2>2. Space # Quote
    BY DEF Space, Quote
  <2>3. ins <=> InsideAt(line, p)
    <3>1. CASE p = 1
      BY <3>1, <2>1, <2>2, InsideStep
    <3>2. CASE p >= 2
      BY <3>2, <2>1, InsideStep
    <3> QED
      BY <3>1, <3>2, <2>1
  <2>4. NoQuoteRun(line) => (ins <=> QOdd(line, p-1))
    <3> HAVE NoQuoteRun(line)
    <3>0. inside <=> (p # 1 /\ QOdd(line, p-2))
      OBVIOUS
    <3>1. CASE p = 1
      <4>1. prev = Space
        BY <3>1
      <4>2. ins <=> inside
        BY <4>1, <2>2
      <4>3. ~QOdd(line, 0)
        BY NoToggleAtStart
      <4> QED
        BY <3>0, <3>1, <4>2, <4>3
    <3>2. CASE p >= 2 /\ line[p-1] = Quote
      <4>1. c # Quote
        BY <3>2, <2>1 DEF NoQuoteRun
      <4>2. prev = Quote
        BY <3>2
      <4>3. ins <=> ~inside
        BY <4>1, <4>2
      <4>4. QOdd(line, p-1) <=> ~QOdd(line, p-2)
        BY <3>2, <2>1, QuoteStep
      <4> QED
        BY <3>0, <3>2, <4>3, <4>4
    <3>3. CASE p >= 2 /\ line[p-1] # Quote
      <4>1. prev # Quote
        BY <3>3
      <4>2. ins <=> inside
        BY <4>1
      <4>3. QOdd(line, p-1) <=> QOdd(line, p-2)
        BY <3>3, <2>1, QuoteStep
      <4> QED
        BY <3>0, <3>3, <4>2, <4>3
    <3> QED
      BY <3>1, <3>2, <3>3, <2>1
  <2>5. v = Screened(line)[p]
    <3>1. Screened(line)[p] = IF c = Comma /\ InsideAt(line, p) THEN Semicolon ELSE c
      BY <2>1 DEF Screened
    <3> QED
      BY <3>1, <2>3
  <2>6. NoQuoteRun(line) => v = CsvScreen(line)[p]
    <3>1. CsvScreen(line)[p] = IF c = Comma /\ QOdd(line, p-1) THEN Semicolon ELSE c
      BY <2>1 DEF CsvScreen, QOdd
    <3> QED
      BY <3>1, <2>4
  <2>7. /\ Len(out') = p
        /\ out'[p] = v
        /\ \A i \in 1..(p-1) : out'[i] = out[i]
        /\ out' \in Seq(Alphabet \cup {Semicolon})
    BY <2>1
  <2>8. \A i \in 1..(ptr'-1) : out'[i] = Screened(line')[i]
    BY <2>1, <2>5, <2>7
  <2>9. NoQuoteRun(line') => \A i \in 1..(ptr'-1) : out'[i] = CsvScreen(line')[i]
    <3> HAVE NoQuoteRun(line')
    <3>1. NoQuoteRun(line)
      BY <2>1
    <3> QED
      BY <3>1, <2>1, <2>6, <2>7
  <2>10. inside' <=> ins
    BY <2>1, Zenon
  <2>11. NoQuoteRun(line') => (inside' <=> (ptr' # 1 /\ QOdd(line', ptr'-2)))
    <3> HAVE NoQuoteRun(line')
    <3>1. NoQuoteRun(line)
      BY <2>1
    <3>2. ptr' # 1 /\ ptr' - 2 = p - 1
      BY <2>1
    <3>3. QOdd(line', ptr'-2) <=> QOdd(line, p-1)
      BY <2>1, <3>2, Zenon
    <3> QED
      BY <3>1, <3>2, <3>3, <2>4, <2>10, Zenon
  <2>12. inside' <=> InsideAt(line', ptr'-1)
    <3>0. ptr' - 1 = p
      BY <2>1
    <3>1. InsideAt(line', ptr'-1) <=> InsideAt(line, p)
      BY <2>1, <3>0, Zenon
    <3> QED
      BY <3>1, <2>3, <2>10, Zenon
  <2>13. /\ line' \in Seq(Alphabet)
         /\ ptr' \in 1..(Len(line') + 1)
         /\ prev' \in Alphabet \cup {Space}
         /\ Len(out') = ptr' - 1
         /\ prev' = IF ptr' = 1 THEN Space ELSE line'[ptr'-1]
    BY <2>1, <2>7
  <2>14. inside' \in BOOLEAN
    BY <2>1, Zenon
  <2> QED
    BY <2>7, <2>8, <2>9, <2>11, <2>12, <2>13, <2>14
<1>2. CASE Done \/ UNCHANGED vars
  BY <1>2 DEF Done, vars
<1> QED
  BY <1>1, <1>2 DEF Next

(* At the end of the loop, `out` is the whole of the screened line.       *)
LEMMA LoopInvEnd ==
    ASSUME LoopInv, ptr > Len(line)
    PROVE  /\ out = Screened(line)
           /\ NoQuoteRun(line) => out = CsvScreen(line)
<1> USE DEF LoopInv, TypeOK
<1>1. ptr = Len(line) + 1 /\ Len(out) = Len(line)
  OBVIOUS
<1>2. out = Screened(line)
  BY <1>1 DEF Screened
<1>3. NoQuoteRun(line) => out = CsvScreen(line)
  BY <1>1 DEF CsvScreen
<1> QED
  BY <1>2, <1>3

(* screen_strings returns the closed form Screened of its argument.       *)
THEOREM ScreenIsScreenedThm == Spec => []ScreenIsScreened
<1>1. Spec => []LoopInv
  BY InitLoopInv, StepLoopInv, PTL DEF Spec
<1>2. LoopInv => ScreenIsScreened
  BY LoopInvEnd DEF ScreenIsScreened
<1> QED
  BY <1>1, <1>2, PTL

(* Every state of the loop is well typed: the index stays within the     *)
(* line plus one and the result holds characters of the line and ';'.    *)
THEOREM ScreenTypeThm == Spec => []TypeOK
<1>1. Spec => []LoopInv
  BY InitLoopInv, StepLoopInv, PTL DEF Spec
<1> QED
  BY <1>1, PTL DEF LoopInv

(* On lines in which no two quotes are adjacent, screen_strings screens   *)
(* exactly the commas inside quoted CSV fields, for every such line.      *)
THEOREM ScreenMatchesCsvThm ==
    ASSUME \A l \in Lines : NoQuoteRun(l)
    PROVE  Spec => []ScreenMatchesCsv
<1>1. Spec => []LoopInv
  BY InitLoopInv, StepLoopInv, PTL DEF Spec
<1>2. Init => NoQuoteRun(line)
  BY DEF Init
<1>3. NoQuoteRun(line) /\ [Next]_vars => (NoQuoteRun(line))'
  BY DEF Next, Step, Done, vars
<1>4. Spec => []NoQuoteRun(line)
  BY <1>2, <1>3, PTL DEF Spec
<1>5. LoopInv /\ NoQuoteRun(line) => ScreenMatchesCsv
  BY LoopInvEnd DEF ScreenMatchesCsv
<1> QED
  BY <1>1, <1>4, <1>5, PTL

=============================================================================
