---------------------------- MODULE ConwayCheck ----------------------------
(***************************************************************************)
(* check_conway_syncdb.py (lines 25-89): read the DB-sync CSV dump into a  *)
(* dict keyed by (proposal hash, index), then look every line of the       *)
(* acropolis dump up in it and print what does not match. screen_strings  *)
(* is its closed form Screened, which ScreenProofs shows the loop returns. *)
(* Lines are sequences of tokens: a word is one token, and the comma, the *)
(* quote, the space and the newline are tokens of their own.              *)
(***************************************************************************)
EXTENDS Csv, SequencesExt

CONSTANTS
    DbFiles,      \* the DB-sync dumps the script may be given (sys.argv[1])
    AcroFiles     \* the acropolis dumps (sys.argv[2])

Newline == "nl"

(* A line of a dump is a sequence of tokens (words or punctuation).     *)
Line == Seq(STRING)

(* Both dumps are sequences of lines, as file.readlines() returns them.  *)
ASSUME FilesAssumption == DbFiles \cup AcroFiles \subseteq Seq(Line)

(* str.strip(chars): drop the tokens of C at both ends.                   *)
StripChars(s, C) ==
    LET keep == {i \in 1..Len(s) : s[i] \notin C}
    IN  IF keep = {} THEN <<>>
        ELSE SubSeq(s, Min(keep), Max(keep))

(* str.strip() with no argument: whitespace.                              *)
StripWs(s) == StripChars(s, {Newline, Space})

(* str.removeprefix('Some(').removesuffix(')') (lines 22-23).            *)
strip_some(s) ==
    LET t == IF s # <<>> /\ s[1] = "Some(" THEN Tail(s) ELSE s
    IN  IF t # <<>> /\ t[Len(t)] = ")" THEN SubSeq(t, 1, Len(t) - 1) ELSE t

(* The fields joined by commas: the text of a header.                     *)
JoinFields(fs) ==
    FlattenSeq([i \in 1..Len(fs) |-> IF i = 1 THEN fs[1] ELSE <<Comma>> \o fs[i]])

(* The DB-sync header of lines 35-38. Three names follow a newline and    *)
(* indentation in the literal; they are tokens of their own.              *)
DbHeaderNames ==
    <<"id", "tx_id", "index", "prev_gov_action_proposal", "deposit",
      "return_address", "expiration", "nl voting_anchor_id", "type",
      "description", "param_proposal", "ratified_epoch", "enacted_epoch",
      "nl dropped_epoch", "expired_epoch", "id", "hash", "block_id",
      "block_index", "out_sum", "fee", "deposit", "size", "nl invalid_before",
      "invalid_hereafter", "valid_contract", "script_size", "treasury_donation">>

(* The acropolis header of lines 57-59.                                   *)
AcroHeaderNames ==
    <<"id", "start", "tx_id", "index", "prev_gov_action_proposal", "deposit",
      "return_address", "expiration", "nl voting_anchor_id", "type",
      "description", "param_proposal", "ratified_epoch", "enacted_epoch",
      "nl dropped_epoch", "expired_epoch">>

(* header = screen_strings(header); hl = header.split(',')  (lines 39-40) *)
hl == Split(Screened(JoinFields([i \in 1..Len(DbHeaderNames) |-> <<DbHeaderNames[i]>>])))

(* al = header_a.split(',')  (line 60)                                    *)
al == Split(JoinFields([i \in 1..Len(AcroHeaderNames) |-> <<AcroHeaderNames[i]>>]))

(* sl = screen_strings(s).strip().split(',')  (lines 43-44, 64-65).       *)
Fields(s) == Split(StripWs(Screened(s)))

(* A key not yet in the dict gets [] and then the tuple (lines 53-55).  *)
AddKey(f, k, v) == [x \in DOMAIN f \cup {k} |-> IF x \in DOMAIN f THEN f[x] ELSE v]

VARIABLES
    dbsync,    \* the lines of the DB-sync file
    acropolis, \* the lines of the acropolis file
    dbpos,     \* how many lines of dbsync the first loop has read
    acpos,     \* how many lines of acropolis the second loop has read
    dict,      \* dbsync_dict: (hash, index) -> list of tuples
    found,     \* the counter of line 62
    reports,   \* what the script has printed: a set of [kind, key]
    pc         \* "db", "acro", "done", or "crashed" (an uncaught exception)

vars == <<dbsync, acropolis, dbpos, acpos, dict, found, reports, pc>>

Init ==
    /\ dbsync \in DbFiles
    /\ acropolis \in AcroFiles
    /\ dbpos = 0
    /\ acpos = 0
    /\ dict = <<>>
    /\ found = 0
    /\ reports = {}
    /\ pc = "db"

(* Mutant: the tuple leaves out the dropped epoch.                        *)
DbLine_short_tuple ==
    /\ pc = "db"
    /\ dbpos < Len(dbsync)
    /\ LET sl  == Fields(dbsync[dbpos + 1])
           idx == <<StripChars(sl[17], {"\\", "x"}), sl[3]>>
           tup == <<sl[9], sl[12], sl[13], sl[15]>>
       IN  dict' = IF Len(sl) # Len(hl) \/ sl = hl THEN dict
                   ELSE IF idx \in DOMAIN dict
                        THEN [dict EXCEPT ![idx] = Append(@, tup)]
                        ELSE AddKey(dict, idx, <<tup>>)
    /\ dbpos' = dbpos + 1
    /\ UNCHANGED <<dbsync, acropolis, acpos, found, reports, pc>>

(* One iteration of the loop over the DB-sync file (lines 42-55). A line  *)
(* with another field count than the header, or the header itself, is    *)
(* skipped; otherwise its tuple is appended under (hash, index), the hash *)
(* with its "\x" prefix stripped (line 50).                               *)
DbLine ==
    /\ pc = "db"
    /\ dbpos < Len(dbsync)
    /\ LET sl  == Fields(dbsync[dbpos + 1])
           idx == <<StripChars(sl[17], {"\\", "x"}), sl[3]>>
           tup == <<sl[9], sl[12], sl[13], sl[14], sl[15]>>
       IN  dict' = IF Len(sl) # Len(hl) \/ sl = hl THEN dict
                   ELSE IF idx \in DOMAIN dict
                        THEN [dict EXCEPT ![idx] = Append(@, tup)]
                        ELSE AddKey(dict, idx, <<tup>>)
    /\ dbpos' = dbpos + 1
    /\ UNCHANGED <<dbsync, acropolis, acpos, found, reports, pc>>

(* The DB-sync loop ends.                                                 *)
DbDone ==
    /\ pc = "db"
    /\ dbpos = Len(dbsync)
    /\ pc' = "acro"
    /\ UNCHANGED <<dbsync, acropolis, dbpos, acpos, dict, found, reports>>

(* Mutant: the ratified epochs are not compared.                         *)
Compare_no_re(sl, idx, rec) ==
    LET t   == rec[1]
        ty  == IF t[1] = <<"InfoAction">> THEN <<"Information">> ELSE t[1]
        bad == {k \in {"type", "en"} :
                   CASE k = "type" -> ty # sl[9]
                     [] k = "en"   -> t[3] # strip_some(sl[13])}
        ex  == Len(sl) >= 15 /\ t[5] # strip_some(sl[15])
    IN  /\ reports' = reports
                      \cup {[kind |-> k, key |-> idx] : k \in bad}
                      \cup (IF ex THEN {[kind |-> "ex", key |-> idx]} ELSE {})
                      \cup (IF Len(rec) > 1 THEN {[kind |-> "too_many", key |-> idx]}
                                            ELSE {})
        /\ found' = found + 1
        /\ IF Len(sl) >= 15 THEN UNCHANGED pc ELSE pc' = "crashed"

(* The comparisons of lines 81-87 against the first tuple, in order; the *)
(* fourth reads sl[14], which raises IndexError on a line of 14 fields.   *)
Compare(sl, idx, rec) ==
    LET t   == rec[1]
        ty  == IF t[1] = <<"InfoAction">> THEN <<"Information">> ELSE t[1]
        bad == {k \in {"type", "re", "en"} :
                   CASE k = "type" -> ty # sl[9]
                     [] k = "re"   -> t[2] # strip_some(sl[12])
                     [] k = "en"   -> t[3] # strip_some(sl[13])}
        ex  == Len(sl) >= 15 /\ t[5] # strip_some(sl[15])
    IN  /\ reports' = reports
                      \cup {[kind |-> k, key |-> idx] : k \in bad}
                      \cup (IF ex THEN {[kind |-> "ex", key |-> idx]} ELSE {})
                      \cup (IF Len(rec) > 1 THEN {[kind |-> "too_many", key |-> idx]}
                                            ELSE {})
        /\ found' = found + 1
        /\ IF Len(sl) >= 15 THEN UNCHANGED pc ELSE pc' = "crashed"

(* One iteration of the loop over the acropolis file (lines 63-87).       *)
AcroLine ==
    /\ pc = "acro"
    /\ acpos < Len(acropolis)
    /\ LET sl  == Fields(acropolis[acpos + 1])
           idx == <<sl[2], sl[3]>>
       IN  IF Len(sl) < 14
           THEN /\ reports' = reports \cup {[kind |-> "reject", key |-> acropolis[acpos + 1]]}
                /\ UNCHANGED <<found, pc>>
           ELSE IF sl = al \/ idx \notin DOMAIN dict
           THEN /\ reports' = reports \cup
                      (IF sl = al THEN {} ELSE {[kind |-> "not_found", key |-> idx]})
                /\ UNCHANGED <<found, pc>>
           ELSE Compare(sl, idx, dict[idx])
    /\ acpos' = acpos + 1
    /\ UNCHANGED <<dbsync, acropolis, dbpos, dict>>

(* The acropolis loop ends and the total is printed (line 89).            *)
AcroDone ==
    /\ pc = "acro"
    /\ acpos = Len(acropolis)
    /\ pc' = "done"
    /\ UNCHANGED <<dbsync, acropolis, dbpos, acpos, dict, found, reports>>

(* The script has exited.                                                 *)
Exited ==
    /\ pc \in {"done", "crashed"}
    /\ UNCHANGED vars

Next == DbLine \/ DbDone \/ AcroLine \/ AcroDone \/ Exited

Spec == Init /\ [][Next]_vars /\ WF_vars(Next)

-----------------------------------------------------------------------------

Report == [kind : {"reject"}, key : Line]
          \cup [kind : {"not_found", "too_many", "type", "re", "en", "ex"},
                 key : Line \X Line]

TypeOK ==
    /\ dbsync \in Seq(Line) /\ acropolis \in Seq(Line)
    /\ dbpos \in 0..Len(dbsync) /\ acpos \in 0..Len(acropolis)
    /\ \A k \in DOMAIN dict : k \in Line \X Line /\ dict[k] \in Seq(Line \X Line \X Line \X Line \X Line)
    /\ found \in 0..acpos
    /\ reports \subseteq Report
    /\ pc \in {"db", "acro", "done", "crashed"}

(* The fields of a CSV line as a CSV reader sees them: quoted commas do   *)
(* not separate.                                                          *)
RefFields(s) == Split(StripWs(CsvScreen(s)))

(* The proposals of the DB-sync dump: the rows with the header's field    *)
(* count that are not the header.                                         *)
DbRows == {RefFields(dbsync[i]) : i \in 1..Len(dbsync)}
              \cap {r \in Seq(Line) : Len(r) = Len(hl) /\ r # hl}

(* The records of the acropolis dump the script compares.                 *)
AcroRows == {RefFields(acropolis[i]) : i \in 1..Len(acropolis)}
                \cap {r \in Seq(Line) : Len(r) >= 15 /\ r # al}

(* A DB-sync row and an acropolis record describe the same proposal the   *)
(* same way: the hash without its \x prefix and the index name it, the   *)
(* DB's InfoAction is acropolis' Information, and the epochs that         *)
(* acropolis prints as Some(n) are the DB's n.                            *)
Agree(d, a) ==
    /\ StripChars(d[17], {"\\", "x"}) = a[2]
    /\ d[3] = a[3]
    /\ (IF d[9] = <<"InfoAction">> THEN <<"Information">> ELSE d[9]) = a[9]
    /\ d[12] = strip_some(a[12])
    /\ d[13] = strip_some(a[13])
    /\ d[15] = strip_some(a[15])

(* The script's promise (line 1, "Conway governance correctness           *)
(* checking"): when it runs to the end and prints no complaint, every     *)
(* proposal acropolis dumped agrees with a row of the DB-sync dump on     *)
(* type and ratified, enacted and expired epochs.                         *)
NoReportMeansAgreement ==
    pc = "done" /\ reports = {} =>
        \A a \in AcroRows : \E d \in DbRows : Agree(d, a)

(* The guard len(sl) < 14 at line 66 rejects every line too short for the *)
(* fields the comparisons read, so the script never dies of IndexError.   *)
NoCrash == pc # "crashed"
=============================================================================
