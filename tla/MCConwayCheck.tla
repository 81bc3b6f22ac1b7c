--------------------------- MODULE MCConwayCheck ---------------------------
EXTENDS ConwayCheck

Some(n) == <<"Some(", n, ")">>

(* A DB-sync line: 28 fields, the ones the script reads filled in, ended  *)
(* by a newline.                                                          *)
DbRow(hash, index, type, descr, re, en, de, ex) ==
    JoinFields([i \in 1..28 |->
        CASE i = 3  -> <<index>>
          [] i = 9  -> <<type>>
          [] i = 10 -> descr
          [] i = 12 -> re
          [] i = 13 -> en
          [] i = 14 -> de
          [] i = 15 -> ex
          [] i = 17 -> <<"\\", "x", hash>>
          [] OTHER  -> <<>>]) \o <<Newline>>

(* An acropolis line of n fields (15 in full, 14 when cut short).         *)
AcroRow(n, hash, index, type, re, en, de, ex) ==
    JoinFields([i \in 1..n |->
        CASE i = 2  -> <<hash>>
          [] i = 3  -> <<index>>
          [] i = 9  -> <<type>>
          [] i = 12 -> re
          [] i = 13 -> en
          [] i = 14 -> de
          [] i = 15 -> ex
          [] OTHER  -> <<>>]) \o <<Newline>>

Q == Quote

(* Descriptions: plain, quoted with a comma, an empty quoted field, and a *)
(* quoted field with an escaped quote and a comma.                        *)
D1 == DbRow("h1", "0", "InfoAction", <<"d">>, <<"5">>, <<>>, <<>>, <<"7">>)
D2 == DbRow("h1", "1", "TreasuryWithdrawals", <<Q, "d", Comma, "d", Q>>,
            <<>>, <<>>, <<"6">>, <<>>)
D3 == DbRow("h1", "1", "TreasuryWithdrawals", <<Q, Q>>, <<>>, <<>>, <<"6">>, <<>>)
D4 == DbRow("h1", "1", "TreasuryWithdrawals", <<Q, "d", Q, Q, Comma, "d", Q>>,
            <<>>, <<>>, <<"6">>, <<>>)

(* A1 and A2 agree with D1 and D2; A3 has another ratified epoch than D1; *)
(* A5 another dropped epoch than D2; A4 is A1 cut to 14 fields.           *)
A1 == AcroRow(15, "h1", "0", "Information", Some("5"), <<>>, <<>>, Some("7"))
A2 == AcroRow(15, "h1", "1", "TreasuryWithdrawals", <<>>, <<>>, Some("6"), <<>>)
A3 == AcroRow(15, "h1", "0", "Information", Some("6"), <<>>, <<>>, Some("7"))
A4 == AcroRow(14, "h1", "0", "Information", Some("5"), <<>>, <<>>, Some("7"))
A5 == AcroRow(15, "h1", "1", "TreasuryWithdrawals", <<>>, <<>>, Some("9"), <<>>)

Files(R) == {<<r>> : r \in R} \cup {<<r1, r2>> : r1, r2 \in R}

MCDbFiles == Files({D1, D2, D3, D4})
MCAcroFiles == Files({A1, A2, A3, A5})
MCAcroFilesShort == Files({A1, A4})
=============================================================================
