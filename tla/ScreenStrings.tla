--------------------------- MODULE ScreenStrings ---------------------------
(***************************************************************************)
(* The loop of screen_strings (check_conway_syncdb.py, lines 6-20), one    *)
(* iteration per step, over every line of a constant set.                  *)
(***************************************************************************)
EXTENDS Csv

CONSTANTS
    Alphabet,   \* the characters a line may hold
    Lines       \* the lines the checker may read

ASSUME LinesAssumption == /\ Lines \subseteq Seq(Alphabet)
                          /\ Semicolon \notin Alphabet
                          /\ Space \notin Alphabet

VARIABLES
    line,     \* the argument `header`
    ptr,      \* the loop index, 1-based: the next character to read
    inside,   \* whether the loop believes it is inside quotes
    prev,     \* the character read last (a space before the first)
    out       \* the string built so far

vars == <<line, ptr, inside, prev, out>>

Init ==
    /\ line \in Lines
    /\ ptr = 1
    /\ inside = FALSE
    /\ prev = Space
    /\ out = <<>>

(* Mutant: the comma test reads `inside` from before the flip.           *)
Step_stale_inside ==
    /\ ptr <= Len(line)
    /\ LET c   == line[ptr]
           ins == IF prev = Quote /\ c # Quote THEN ~inside ELSE inside
       IN  /\ inside' = ins
           /\ out' = Append(out, IF c = Comma /\ inside THEN Semicolon ELSE c)
           /\ prev' = c
    /\ ptr' = ptr + 1
    /\ UNCHANGED line

(* Mutant: the else is lost, the character is appended after the ';'.    *)
Step_append_twice ==
    /\ ptr <= Len(line)
    /\ LET c   == line[ptr]
           ins == IF prev = Quote /\ c # Quote THEN ~inside ELSE inside
       IN  /\ inside' = ins
           /\ out' = IF c = Comma /\ ins THEN out \o <<Semicolon, c>>
                                         ELSE Append(out, c)
           /\ prev' = c
    /\ ptr' = ptr + 1
    /\ UNCHANGED line

(* One iteration of the for loop: flip `inside` after a closing or        *)
(* opening quote (lines 11-12), screen a comma (lines 14-17), remember    *)
(* the character (line 18).                                               *)
Step ==
    /\ ptr <= Len(line)
    /\ LET c   == line[ptr]
           ins == IF prev = Quote /\ c # Quote THEN ~inside ELSE inside
       IN  /\ inside' = ins
           /\ out' = Append(out, IF c = Comma /\ ins THEN Semicolon ELSE c)
           /\ prev' = c
    /\ ptr' = ptr + 1
    /\ UNCHANGED line

(* The loop has run out of characters: `return out` (line 20).            *)
Done ==
    /\ ptr > Len(line)
    /\ UNCHANGED vars

Next == Step \/ Done

Spec == Init /\ [][Next]_vars /\ WF_vars(Step)

-----------------------------------------------------------------------------
(* Every variable of the loop holds a value of its type.                  *)
TypeOK ==
    /\ line \in Seq(Alphabet)
    /\ ptr \in 1..(Len(line) + 1)
    /\ inside \in BOOLEAN
    /\ prev \in Alphabet \cup {Space}
    /\ out \in Seq(Alphabet \cup {Semicolon})

(* The string screen_strings returns, once the loop has read the whole    *)
(* line, screens exactly the commas that lie inside a quoted CSV field:   *)
(* then str.split(',') at lines 44 and 65 cuts the line into its CSV      *)
(* fields, and the check len(sl) != len(hl) at line 45 keeps the row.     *)
ScreenMatchesCsv == ptr > Len(line) => out = CsvScreen(line)

(* Once the loop has read the whole line, it has returned the closed form *)
(* Screened of Csv, in which a comma is screened when the quote-to-       *)
(* non-quote flips before it are odd.  Other modules use Screened for     *)
(* screen_strings.                                                        *)
ScreenIsScreened == ptr > Len(line) => out = Screened(line)
=============================================================================
