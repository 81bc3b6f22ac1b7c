---------------------------- MODULE ConwayProofs ----------------------------
(***************************************************************************)
(* Proofs about check_conway_syncdb.py (module ConwayCheck): a run that    *)
(* ends without a complaint has compared every acropolis record with a    *)
(* DB-sync row of the same key, and found them equal.                     *)
(***************************************************************************)
EXTENDS ConwayCheck, TLAPS

\* The lines of a file.
LinesOf(f) == {f[j] : j \in 1..Len(f)}

\* The tuple and the key the first loop files a DB-sync row under
\* (lines 48-54).
FiledTuple(d) == <<d[9], d[12], d[13], d[14], d[15]>>
DbKey(d) == <<StripChars(d[17], {"\\", "x"}), d[3]>>

\* The rows the first loop files: the header's field count, not the header.
Kept(d) == Len(d) = Len(hl) /\ d # hl

\* The tuples the kept rows of a DB-sync dump can contribute.
DbTuples ==
  {FiledTuple(Fields(l)) : l \in {l \in UNION {LinesOf(f) : f \in DbFiles} : Kept(Fields(l))}}

\* Line j of the DB-sync file f is filed under k with tuple t.
Keyed(f, j, k, t) ==
  LET d == Fields(f[j]) IN Kept(d) /\ k = DbKey(d) /\ t = FiledTuple(d)

\* The record a of the acropolis dump, if the second loop compares it,
\* agrees with a filed row of the DB-sync file f.
Checked(f, a) ==
  a \in Seq(Line) /\ Len(a) >= 15 /\ a # al =>
    \E j \in 1..Len(f) : Kept(Fields(f[j])) /\ Agree(Fields(f[j]), a)

(***************************************************************************)
(* The dumps' lines are split by the script as a CSV reader splits them:  *)
(* screen_strings then .strip().split(',') gives the reference fields,    *)
(* and these are a sequence of lines.  ScreenMatchesCsvThm shows the      *)
(* screening agrees with CSV on every line without two adjacent quotes; a *)
(* line with an escaped quote ("") may be split otherwise.                 *)
(***************************************************************************)
ScreensAsCsv ==
  \A f \in DbFiles \cup AcroFiles : \A j \in 1..Len(f) :
     Fields(f[j]) = RefFields(f[j]) /\ Fields(f[j]) \in Seq(Line)

(***************************************************************************)
(* The invariant NoReportMeansAgreement rests on.  Every key of            *)
(* dbsync_dict was filed by a kept line already read, with that line's     *)
(* tuple first; while nothing has been printed, every acropolis line read *)
(* so far agrees with a filed row.                                        *)
(***************************************************************************)
ConwayInv ==
  /\ dbsync \in DbFiles /\ acropolis \in AcroFiles
  /\ dbpos \in 0..Len(dbsync) /\ acpos \in 0..Len(acropolis)
  /\ pc \in {"db", "acro", "done", "crashed"}
  /\ pc = "db" => acpos = 0
  /\ pc \in {"acro", "done"} => dbpos = Len(dbsync)
  /\ pc = "done" => acpos = Len(acropolis)
  /\ \A k \in DOMAIN dict :
       /\ dict[k] \in Seq(DbTuples) /\ Len(dict[k]) >= 1
       /\ \E j \in 1..dbpos : Keyed(dbsync, j, k, dict[k][1])
  /\ reports = {} => \A n \in 1..acpos : Checked(dbsync, Fields(acropolis[n]))
-----------------------------------------------------------------------------
\* Both files are sequences of lines, and the positions are numbers.
LEMMA InvFacts ==
  ASSUME ConwayInv
  PROVE  /\ dbsync \in Seq(Line) /\ acropolis \in Seq(Line)
         /\ dbpos \in Nat /\ acpos \in Nat
BY FilesAssumption DEF ConwayInv

\* The script starts with both positions at 0 and an empty dict.
LEMMA InitConwayInv == Init => ConwayInv
<1> SUFFICES ASSUME Init PROVE ConwayInv
  OBVIOUS
<1>1. dbsync \in Seq(Line) /\ acropolis \in Seq(Line)
  BY FilesAssumption DEF Init
<1>2. DOMAIN dict = {}
  BY DEF Init
<1> QED BY <1>1, <1>2 DEF Init, ConwayInv

\* One line of the DB-sync loop files a kept row under its key, after the
\* tuples already there.
LEMMA DbLineInv == ConwayInv /\ DbLine => ConwayInv'
<1> SUFFICES ASSUME ConwayInv, DbLine PROVE ConwayInv'
  OBVIOUS
<1> DEFINE sl == Fields(dbsync[dbpos + 1])
           idx == <<StripChars(sl[17], {"\\", "x"}), sl[3]>>
           tup == <<sl[9], sl[12], sl[13], sl[14], sl[15]>>
<1>0. /\ pc = "db" /\ dbpos < Len(dbsync) /\ dbpos' = dbpos + 1
      /\ dbsync' = dbsync /\ acropolis' = acropolis /\ acpos' = acpos
      /\ reports' = reports /\ pc' = pc
      /\ dict' = IF ~Kept(sl) THEN dict
                 ELSE IF idx \in DOMAIN dict
                      THEN [dict EXCEPT ![idx] = Append(@, tup)]
                      ELSE AddKey(dict, idx, <<tup>>)
  BY DEF DbLine, Kept
<1>1. /\ dbpos \in Nat /\ dbpos + 1 \in 1..Len(dbsync) /\ dbpos' \in 0..Len(dbsync')
      /\ dbpos + 1 \in 1..dbpos'
  BY <1>0, InvFacts DEF ConwayInv
<1>2. Kept(sl) => /\ tup \in DbTuples
                  /\ Keyed(dbsync, dbpos + 1, idx, tup)
  <2>1. dbsync[dbpos + 1] \in UNION {LinesOf(f) : f \in DbFiles}
    BY <1>1 DEF ConwayInv, LinesOf
  <2> QED BY <2>1 DEF DbTuples, Keyed, FiledTuple, DbKey
<1>3. ASSUME NEW k \in DOMAIN dict', NEW j \in 1..dbpos, Keyed(dbsync, j, k, dict'[k][1])
      PROVE  \E jj \in 1..dbpos' : Keyed(dbsync', jj, k, dict'[k][1])
  <2>1. j \in 1..dbpos'
    BY <1>0, <1>1
  <2>2. Keyed(dbsync', j, k, dict'[k][1])
    BY <1>0, <1>3
  <2> QED BY <2>1, <2>2
<1>4. \A k \in DOMAIN dict' :
        /\ dict'[k] \in Seq(DbTuples) /\ Len(dict'[k]) >= 1
        /\ \E j \in 1..dbpos' : Keyed(dbsync', j, k, dict'[k][1])
  <2> SUFFICES ASSUME NEW k \in DOMAIN dict'
               PROVE  /\ dict'[k] \in Seq(DbTuples) /\ Len(dict'[k]) >= 1
                      /\ \E j \in 1..dbpos' : Keyed(dbsync', j, k, dict'[k][1])
    OBVIOUS
  <2>1. CASE ~Kept(sl)
    <3>1. dict' = dict
      BY <1>0, <2>1
    <3>2. /\ dict'[k] \in Seq(DbTuples) /\ Len(dict'[k]) >= 1
          /\ \E j \in 1..dbpos : Keyed(dbsync, j, k, dict'[k][1])
      BY <3>1 DEF ConwayInv
    <3> QED BY <3>2, <1>3
  <2>2. CASE Kept(sl) /\ idx \in DOMAIN dict
    <3>1. dict' = [dict EXCEPT ![idx] = Append(dict[idx], tup)]
      BY <1>0, <2>2
    <3>2. CASE k = idx
      <4>1. dict[idx] \in Seq(DbTuples) /\ Len(dict[idx]) >= 1
            /\ \E j \in 1..dbpos : Keyed(dbsync, j, idx, dict[idx][1])
        BY <2>2 DEF ConwayInv
      <4>2. dict'[k] = Append(dict[idx], tup)
        BY <2>2, <3>1, <3>2
      <4>3. tup \in DbTuples
        BY <1>2, <2>2
      <4>4. /\ Append(dict[idx], tup) \in Seq(DbTuples)
            /\ Len(Append(dict[idx], tup)) >= 1
            /\ Append(dict[idx], tup)[1] = dict[idx][1]
        BY <4>1, <4>3
      <4>5. /\ dict'[k] \in Seq(DbTuples) /\ Len(dict'[k]) >= 1
            /\ dict'[k][1] = dict[idx][1]
        BY <4>2, <4>4
      <4> QED BY <1>3, <3>2, <4>1, <4>5
    <3>3. CASE k # idx
      <4>1. k \in DOMAIN dict /\ dict'[k] = dict[k]
        BY <3>1, <3>3
      <4>2. /\ dict'[k] \in Seq(DbTuples) /\ Len(dict'[k]) >= 1
            /\ \E j \in 1..dbpos : Keyed(dbsync, j, k, dict'[k][1])
        BY <4>1 DEF ConwayInv
      <4> QED BY <1>3, <4>2
    <3> QED BY <3>2, <3>3
  <2>3. CASE Kept(sl) /\ idx \notin DOMAIN dict
    <3>1. dict' = AddKey(dict, idx, <<tup>>)
      BY <1>0, <2>3
    <3>2. CASE k = idx
      <4>1. dict'[k] = <<tup>>
        BY <2>3, <3>1, <3>2 DEF AddKey
      <4>2. dict'[k] \in Seq(DbTuples) /\ Len(dict'[k]) >= 1 /\ dict'[k][1] = tup
        BY <1>2, <2>3, <4>1
      <4>3. Keyed(dbsync', dbpos + 1, k, dict'[k][1])
        BY <1>0, <1>2, <2>3, <3>2, <4>2
      <4> QED BY <1>0, <1>1, <4>2, <4>3
    <3>3. CASE k # idx
      <4>1. k \in DOMAIN dict /\ dict'[k] = dict[k]
        BY <3>1, <3>3 DEF AddKey
      <4>2. /\ dict'[k] \in Seq(DbTuples) /\ Len(dict'[k]) >= 1
            /\ \E j \in 1..dbpos : Keyed(dbsync, j, k, dict'[k][1])
        BY <4>1 DEF ConwayInv
      <4> QED BY <1>3, <4>2
    <3> QED BY <3>2, <3>3
  <2> QED BY <2>1, <2>2, <2>3
<1>5. (reports = {} => \A n \in 1..acpos : Checked(dbsync, Fields(acropolis[n])))'
  <2>1. acpos = 0
    BY <1>0 DEF ConwayInv
  <2> QED BY <1>0, <2>1
<1> QED BY <1>0, <1>1, <1>4, <1>5 DEF ConwayInv

\* A record the second loop compares and finds equal, on every field it
\* reads, to the first tuple of its key agrees with the row filed first.
LEMMA CompareAgrees ==
  ASSUME NEW f, NEW j, NEW sl, NEW t,
         Keyed(f, j, <<sl[2], sl[3]>>, t),
         ~((IF t[1] = <<"InfoAction">> THEN <<"Information">> ELSE t[1]) # sl[9]),
         t[2] = strip_some(sl[12]), t[3] = strip_some(sl[13]),
         t[5] = strip_some(sl[15])
  PROVE  Kept(Fields(f[j])) /\ Agree(Fields(f[j]), sl)
BY DEF Keyed, DbKey, FiledTuple, Agree

\* One line of the acropolis loop: printing nothing means that line, if
\* compared, found a DB-sync row that agrees with it.
LEMMA AcroLineInv == ConwayInv /\ AcroLine => ConwayInv'
<1> SUFFICES ASSUME ConwayInv, AcroLine PROVE ConwayInv'
  OBVIOUS
<1> DEFINE sl == Fields(acropolis[acpos + 1])
           idx == <<sl[2], sl[3]>>
<1>0. /\ pc = "acro" /\ acpos < Len(acropolis) /\ acpos' = acpos + 1
      /\ dbsync' = dbsync /\ acropolis' = acropolis /\ dbpos' = dbpos /\ dict' = dict
      /\ reports \subseteq reports'
      /\ pc' \in {"acro", "crashed"}
  BY DEF AcroLine, Compare
<1>1. /\ acpos \in Nat /\ acpos' \in 0..Len(acropolis')
      /\ 1..acpos' = 1..acpos \cup {acpos + 1}
  BY <1>0, InvFacts DEF ConwayInv
<1>2. ASSUME reports' = {}
      PROVE  Checked(dbsync, sl)
  <2> SUFFICES ASSUME sl \in Seq(Line), Len(sl) >= 15, sl # al
               PROVE  \E j \in 1..Len(dbsync) : Kept(Fields(dbsync[j])) /\ Agree(Fields(dbsync[j]), sl)
    BY DEF Checked
  <2>1. ~(Len(sl) < 14)
    OBVIOUS
  <2>2. idx \in DOMAIN dict
    <3> SUFFICES ASSUME idx \notin DOMAIN dict PROVE FALSE
      OBVIOUS
    <3>1. reports' = reports \cup {[kind |-> "not_found", key |-> idx]}
      BY <2>1, Zenon DEF AcroLine
    <3> QED BY <1>2, <3>1
  <2>3. Compare(sl, idx, dict[idx])
    BY <2>1, <2>2, Zenon DEF AcroLine
  <2> DEFINE t == dict[idx][1]
             ty == IF t[1] = <<"InfoAction">> THEN <<"Information">> ELSE t[1]
  <2>4. /\ ~(ty # sl[9])
        /\ t[2] = strip_some(sl[12])
        /\ t[3] = strip_some(sl[13])
        /\ t[5] = strip_some(sl[15])
    <3> DEFINE bad == {k \in {"type", "re", "en"} :
                         CASE k = "type" -> ty # sl[9]
                           [] k = "re"   -> t[2] # strip_some(sl[12])
                           [] k = "en"   -> t[3] # strip_some(sl[13])}
               ex == Len(sl) >= 15 /\ t[5] # strip_some(sl[15])
    <3>1. reports' = reports \cup {[kind |-> k, key |-> idx] : k \in bad}
                     \cup (IF ex THEN {[kind |-> "ex", key |-> idx]} ELSE {})
                     \cup (IF Len(dict[idx]) > 1 THEN {[kind |-> "too_many", key |-> idx]}
                                                 ELSE {})
      BY <2>3 DEF Compare
    <3>2. bad = {} /\ ~ex
      BY <1>2, <3>1
    <3>3. ~ex
      BY <3>2
    <3> QED BY <3>2, <3>3
  <2>5. PICK j \in 1..dbpos : Keyed(dbsync, j, idx, t)
    BY <2>2 DEF ConwayInv
  <2>6. j \in 1..Len(dbsync)
    BY InvFacts DEF ConwayInv
  <2> QED BY <2>4, <2>5, <2>6, CompareAgrees
<1>3. (reports = {} => \A n \in 1..acpos : Checked(dbsync, Fields(acropolis[n])))'
  <2> SUFFICES ASSUME reports' = {}, NEW n \in 1..acpos'
               PROVE  Checked(dbsync, Fields(acropolis[n]))
    BY <1>0
  <2>1. CASE n \in 1..acpos
    BY <1>0, <2>1 DEF ConwayInv
  <2>2. CASE n = acpos + 1
    BY <1>2, <2>2
  <2> QED BY <1>1, <2>1, <2>2
<1>4. \A k \in DOMAIN dict' :
        /\ dict'[k] \in Seq(DbTuples) /\ Len(dict'[k]) >= 1
        /\ \E j \in 1..dbpos' : Keyed(dbsync', j, k, dict'[k][1])
  BY <1>0 DEF ConwayInv
<1> QED BY <1>0, <1>1, <1>3, <1>4 DEF ConwayInv

\* The ends of the two loops and the exit change no file, dict or report.
LEMMA OtherInv == ConwayInv /\ (DbDone \/ AcroDone \/ Exited \/ UNCHANGED vars) => ConwayInv'
<1> SUFFICES ASSUME ConwayInv, DbDone \/ AcroDone \/ Exited \/ UNCHANGED vars
             PROVE  ConwayInv'
  OBVIOUS
<1>0. /\ dbsync' = dbsync /\ acropolis' = acropolis /\ dbpos' = dbpos /\ acpos' = acpos
      /\ dict' = dict /\ reports' = reports
  BY DEF DbDone, AcroDone, Exited, vars
<1>1. CASE DbDone
  BY <1>0, <1>1 DEF DbDone, ConwayInv
<1>2. CASE AcroDone
  BY <1>0, <1>2 DEF AcroDone, ConwayInv
<1>3. CASE Exited \/ UNCHANGED vars
  BY <1>0, <1>3 DEF Exited, vars, ConwayInv
<1> QED BY <1>1, <1>2, <1>3

\* Every step of the script keeps ConwayInv.
LEMMA NextConwayInv == ConwayInv /\ [Next]_vars => ConwayInv'
BY DbLineInv, AcroLineInv, OtherInv DEF Next

\* When the dumps split as CSV, the agreement ConwayInv records is the one
\* NoReportMeansAgreement states about DbRows and AcroRows.
LEMMA InvImpliesAgreement ==
  ASSUME ScreensAsCsv, ConwayInv
  PROVE  NoReportMeansAgreement
<1> SUFFICES ASSUME pc = "done", reports = {}, NEW a \in AcroRows
             PROVE  \E d \in DbRows : Agree(d, a)
  BY DEF NoReportMeansAgreement
<1>1. acpos = Len(acropolis) /\ dbsync \in DbFiles /\ acropolis \in AcroFiles
  BY DEF ConwayInv
<1>2. PICK i \in 1..Len(acropolis) :
        a = RefFields(acropolis[i]) /\ a \in Seq(Line) /\ Len(a) >= 15 /\ a # al
  BY DEF AcroRows
<1>3. Fields(acropolis[i]) = a
  BY <1>1, <1>2 DEF ScreensAsCsv
<1>4. Checked(dbsync, a)
  BY <1>1, <1>2, <1>3 DEF ConwayInv
<1>5. PICK j \in 1..Len(dbsync) : Kept(Fields(dbsync[j])) /\ Agree(Fields(dbsync[j]), a)
  BY <1>2, <1>4 DEF Checked
<1>6. Fields(dbsync[j]) = RefFields(dbsync[j]) /\ Fields(dbsync[j]) \in Seq(Line)
  BY <1>1 DEF ScreensAsCsv
<1>7. Fields(dbsync[j]) \in DbRows
  BY <1>5, <1>6 DEF DbRows, Kept
<1> QED BY <1>5, <1>7

(***************************************************************************)
(* check_conway_syncdb.py, run to its end without printing a complaint,   *)
(* has found every acropolis proposal it compares equal, on type and on    *)
(* ratified, enacted and expired epochs, to a DB-sync row with the same    *)
(* hash and index: for all dumps whose lines it splits as CSV.             *)
(***************************************************************************)
THEOREM NoReportThm ==
  ASSUME ScreensAsCsv
  PROVE  Spec => []NoReportMeansAgreement
<1>1. ConwayInv => NoReportMeansAgreement
  BY InvImpliesAgreement
<1> QED BY <1>1, InitConwayInv, NextConwayInv, PTL DEF Spec
=============================================================================
