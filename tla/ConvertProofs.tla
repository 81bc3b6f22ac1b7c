---------------------------- MODULE ConvertProofs ----------------------------
(***************************************************************************)
(* Proofs about convert_governance.py (module ConvertGovernance): the DRep *)
(* and pool files of a finished run hold the stake of exactly the voters   *)
(* of the whole log, one entry per epoch.                                  *)
(***************************************************************************)
EXTENDS ConvertGovernance, TLAPS

\* The hashes of the voters of the first n lines of the log.
VotersOf(n) ==
  UNION {{b.hash : b \in ToSet(log[k].votes)} : k \in {k \in 1..n : log[k].kind = "vote"}}

(***************************************************************************)
(* The invariant StakeOfVoters rests on.  all_voters_hash holds the voters *)
(* of the lines read so far, so all of them once the scan is over; during  *)
(* the epoch loop the two files hold the entries of the epochs done, each *)
(* after its comma, and the comma flags say whether an entry was written. *)
(***************************************************************************)
StakeInv ==
  /\ log \in Seq(LogLine)
  /\ pc \in {"scan", "open", "epochs", "params", "stats", "done", "crashed"}
  /\ i \in 1..(Len(log) + 1)
  /\ voters = VotersOf(i - 1)
  /\ first \in [{"drep", "pool", "voting"} -> BOOLEAN]
  /\ DOMAIN out = Files
  /\ ee \in Int
  /\ pc \in {"open", "epochs", "params", "stats", "done"} => i = Len(log) + 1
  /\ pc \in {"scan", "open"} => ee = FirstEpoch /\ ~first["drep"] /\ ~first["pool"]
  /\ pc = "epochs" =>
       /\ ee \in FirstEpoch..(LastEpoch + 1)
       /\ out["drep"] = Body(DS(drepDump, LogVoters, ee - FirstEpoch))
       /\ out["pool"] = Body(PS(poolDump, LogVoters, ee - FirstEpoch))
       /\ first["drep"] = (ee # FirstEpoch)
       /\ first["pool"] = (ee # FirstEpoch)
  /\ pc \in {"params", "stats", "done"} =>
       /\ out["drep"] = Listed(DS(drepDump, LogVoters, NEpochs))
       /\ out["pool"] = Listed(PS(poolDump, LogVoters, NEpochs))
-----------------------------------------------------------------------------
(***************************************************************************)
(* Lemmas about the operators of the model.                                *)
(***************************************************************************)

\* Reading one more line adds the voters of that line if it is a vote line.
LEMMA VotersStep ==
  ASSUME log \in Seq(LogLine), NEW n \in 1..Len(log)
  PROVE  VotersOf(n) =
           VotersOf(n - 1) \cup (IF log[n].kind = "vote"
                                 THEN {b.hash : b \in ToSet(log[n].votes)} ELSE {})
<1>1. {k \in 1..n : log[k].kind = "vote"} =
        {k \in 1..(n - 1) : log[k].kind = "vote"} \cup
        (IF log[n].kind = "vote" THEN {n} ELSE {})
  OBVIOUS
<1> QED BY <1>1 DEF VotersOf

\* Once every line is read, the voters are those of the whole log.
LEMMA VotersAll ==
  ASSUME log \in Seq(LogLine)
  PROVE  VotersOf(Len(log)) = LogVoters
BY DEF VotersOf, LogVoters, ToSet

\* Writing a comma, if an entry came before, and one more entry.
LEMMA BodyStep ==
  ASSUME NEW S, NEW xs \in Seq(S), NEW x \in S
  PROVE  Body(Append(xs, x)) =
           Body(xs) \o (IF xs = <<>> THEN <<>> ELSE <<Sep>>) \o <<Entry(x)>>
<1>1. CASE xs = <<>>
  BY <1>1 DEF Body
<1>2. CASE xs # <<>>
  <2> DEFINE m == Len(xs)
             ys == Append(xs, x)
             R == Body(xs) \o <<Sep>> \o <<Entry(x)>>
             T == {Open, Sep} \cup {Entry(y) : y \in S}
  <2>1. m \in Nat /\ m >= 1 /\ Len(ys) = m + 1 /\ ys # <<>>
    BY <1>2
  <2>2. Body(xs) = [j \in 1..(2 * m) |->
                     IF j = 1 THEN Open ELSE IF j % 2 = 0 THEN Entry(xs[j \div 2]) ELSE Sep]
    BY <1>2 DEF Body
  <2>3. Body(ys) = [j \in 1..(2 * m + 2) |->
                     IF j = 1 THEN Open ELSE IF j % 2 = 0 THEN Entry(ys[j \div 2]) ELSE Sep]
    BY <2>1 DEF Body
  <2>8. Body(xs) \in Seq(T) /\ Len(Body(xs)) = 2 * m
    <3>1. \A j \in 2..(2 * m) : j \div 2 \in 1..m
      BY <2>1
    <3> QED BY <3>1, <2>1, <2>2
  <2>4. R \in Seq(T) /\ Len(R) = 2 * m + 2
    BY <2>8
  <2>5. /\ \A j \in 1..(2 * m) : R[j] = Body(xs)[j]
        /\ \A j \in 2..(2 * m) : ys[j \div 2] = xs[j \div 2]
    <3>1. \A j \in 2..(2 * m) : j \div 2 \in 1..m
      BY <2>1
    <3> QED BY <3>1, <2>1, <2>8
  <2>6. R[2 * m + 1] = Sep /\ R[2 * m + 2] = Entry(x) /\ ys[m + 1] = x
    BY <2>1, <2>8
  <2>7. \A j \in 1..(2 * m + 2) : Body(ys)[j] = R[j]
    <3> TAKE j \in 1..(2 * m + 2)
    <3>1. CASE j <= 2 * m
      <4>1. CASE j = 1
        BY <3>1, <4>1, <2>1, <2>2, <2>3, <2>5
      <4>2. CASE j # 1
        BY <3>1, <4>2, <2>1, <2>2, <2>3, <2>5
      <4> QED BY <4>1, <4>2
    <3>2. CASE j = 2 * m + 1
      <4>1. j # 1 /\ j % 2 # 0
        BY <3>2, <2>1
      <4> QED BY <4>1, <3>2, <2>3, <2>6
    <3>3. CASE j = 2 * m + 2
      <4>1. j # 1 /\ j % 2 = 0 /\ j \div 2 = m + 1
        BY <3>3, <2>1
      <4> QED BY <4>1, <3>3, <2>3, <2>6
    <3>4. j <= 2 * m \/ j = 2 * m + 1 \/ j = 2 * m + 2
      BY <2>1
    <3> QED BY <3>1, <3>2, <3>3, <3>4
  <2>9. Len(Body(ys)) = 2 * m + 2 /\ Body(ys) \in Seq(T)
    <3>1. \A j \in 2..(2 * m + 2) : j \div 2 \in 1..(m + 1)
      BY <2>1
    <3> QED BY <3>1, <2>1, <2>3
  <2> QED BY <1>2, <2>9, <2>4, <2>7
<1> QED BY <1>1, <1>2

\* The expected entries grow by one per epoch.
LEMMA DSStep ==
  ASSUME NEW D, NEW V, NEW n \in Nat
  PROVE  /\ DS(D, V, n + 1) = Append(DS(D, V, n), DRepStakeOf(D, V, FirstEpoch + n))
         /\ PS(D, V, n + 1) = Append(PS(D, V, n), PoolStakeOf(D, V, FirstEpoch + n))
         /\ DS(D, V, n) \in Seq({DRepStakeOf(D, V, e) : e \in Int})
         /\ PS(D, V, n) \in Seq({PoolStakeOf(D, V, e) : e \in Int})
         /\ DS(D, V, n) = <<>> <=> n = 0
         /\ PS(D, V, n) = <<>> <=> n = 0
<1>1. DS(D, V, n + 1) = Append(DS(D, V, n), DRepStakeOf(D, V, FirstEpoch + n))
  BY DEF DS
<1>2. PS(D, V, n + 1) = Append(PS(D, V, n), PoolStakeOf(D, V, FirstEpoch + n))
  BY DEF PS
<1>3. DS(D, V, n) \in Seq({DRepStakeOf(D, V, e) : e \in Int})
  BY EpochAssumption DEF DS
<1>4. PS(D, V, n) \in Seq({PoolStakeOf(D, V, e) : e \in Int})
  BY EpochAssumption DEF PS
<1>5. DS(D, V, n) = <<>> <=> n = 0
  BY DEF DS
<1>6. PS(D, V, n) = <<>> <=> n = 0
  BY DEF PS
<1> QED BY <1>1, <1>2, <1>3, <1>4, <1>5, <1>6

\* The expected DRep and pool lists grow by a comma and an entry per epoch.
LEMMA BodyDS ==
  ASSUME NEW D, NEW V, NEW n \in Nat
  PROVE  Body(DS(D, V, n + 1)) =
           Body(DS(D, V, n)) \o (IF n = 0 THEN <<>> ELSE <<Sep>>)
                             \o <<Entry(DRepStakeOf(D, V, FirstEpoch + n))>>
<1> DEFINE SD == {DRepStakeOf(D, V, e) : e \in Int}
           xs == DS(D, V, n)
           x == DRepStakeOf(D, V, FirstEpoch + n)
<1>1. xs \in Seq(SD) /\ x \in SD /\ DS(D, V, n + 1) = Append(xs, x) /\ (xs = <<>> <=> n = 0)
  <2>1. FirstEpoch + n \in Int
    BY EpochAssumption
  <2>2. x \in SD
    BY <2>1
  <2> QED BY <2>2, DSStep
<1>2. Body(Append(xs, x)) = Body(xs) \o (IF xs = <<>> THEN <<>> ELSE <<Sep>>) \o <<Entry(x)>>
  BY <1>1, BodyStep
<1> QED BY <1>1, <1>2

LEMMA BodyPS ==
  ASSUME NEW D, NEW V, NEW n \in Nat
  PROVE  Body(PS(D, V, n + 1)) =
           Body(PS(D, V, n)) \o (IF n = 0 THEN <<>> ELSE <<Sep>>)
                             \o <<Entry(PoolStakeOf(D, V, FirstEpoch + n))>>
<1> DEFINE SP == {PoolStakeOf(D, V, e) : e \in Int}
           xs == PS(D, V, n)
           x == PoolStakeOf(D, V, FirstEpoch + n)
<1>1. xs \in Seq(SP) /\ x \in SP /\ PS(D, V, n + 1) = Append(xs, x) /\ (xs = <<>> <=> n = 0)
  <2>1. FirstEpoch + n \in Int
    BY EpochAssumption
  <2>2. x \in SP
    BY <2>1
  <2> QED BY <2>2, DSStep
<1>2. Body(Append(xs, x)) = Body(xs) \o (IF xs = <<>> THEN <<>> ELSE <<Sep>>) \o <<Entry(x)>>
  BY <1>1, BodyStep
<1> QED BY <1>1, <1>2

\* convert_drep and convert_pool write the entries of the voters they are
\* given, and the property's entries are those of the whole log's voters.
LEMMA EntryOf ==
  ASSUME NEW e
  PROVE  /\ DRepEntry(drepDump[e]) = Entry(DRepStakeOf(drepDump, voters, e))
         /\ PoolEntry(poolDump[e]) = Entry(PoolStakeOf(poolDump, voters, e))
         /\ DRepStake(e) = DRepStakeOf(drepDump, LogVoters, e)
         /\ PoolStake(e) = PoolStakeOf(poolDump, LogVoters, e)
BY DEF DRepEntry, PoolEntry, DRepStake, PoolStake, Voted, DRepStakeOf, PoolStakeOf, VotedIn

\* all_voters_hash is read from the log alone.
LEMMA LogVotersUnchanged ==
  ASSUME log' = log
  PROVE  LogVoters' = LogVoters
BY DEF LogVoters, ToSet

-----------------------------------------------------------------------------
(***************************************************************************)
(* StakeInv is inductive.                                                  *)
(***************************************************************************)
LEMMA InitStakeInv == Init => StakeInv
<1> SUFFICES ASSUME Init PROVE StakeInv
  OBVIOUS
<1>1. log \in Seq(LogLine)
  BY LogsAssumption DEF Init
<1>2. VotersOf(0) = {}
  BY DEF VotersOf
<1> QED BY <1>1, <1>2, EpochAssumption DEF Init, StakeInv, Files

\* The scan loop: one line read, or the end of the log.
LEMMA ScanStakeInv == StakeInv /\ Scan => StakeInv'
<1> SUFFICES ASSUME StakeInv, Scan PROVE StakeInv'
  OBVIOUS
<1>0. /\ pc = "scan" /\ ee = FirstEpoch /\ ~first["drep"] /\ ~first["pool"]
      /\ i \in 1..(Len(log) + 1) /\ log \in Seq(LogLine)
      /\ UNCHANGED <<log, ee, first, out>>
  BY DEF StakeInv, Scan
<1>1. CASE i > Len(log)
  <2>1. i = Len(log) + 1 /\ pc' = "open" /\ UNCHANGED <<i, voters>>
    BY <1>0, <1>1 DEF Scan
  <2>2. VotersOf(i - 1)' = VotersOf(i - 1)
    BY <1>0, <2>1 DEF VotersOf
  <2> QED BY <1>0, <2>1, <2>2 DEF StakeInv
<1>2. CASE i <= Len(log)
  <2>1. i \in 1..Len(log) /\ i' = i + 1
    BY <1>0, <1>2 DEF Scan
  <2>2. voters' = VotersOf(i - 1) \cup
                   (IF log[i].kind = "vote" THEN {b.hash : b \in ToSet(log[i].votes)} ELSE {})
    BY <1>0, <1>2, <2>1 DEF StakeInv, Scan
  <2>3. VotersOf(i) = VotersOf(i - 1) \cup
                   (IF log[i].kind = "vote" THEN {b.hash : b \in ToSet(log[i].votes)} ELSE {})
    BY <1>0, <2>1, VotersStep
  <2>4. VotersOf(i - 1)' = VotersOf(i)
    BY <1>0, <2>1 DEF VotersOf
  <2>5. pc' \in {"scan", "crashed"}
    BY <1>0, <1>2 DEF Scan
  <2> QED BY <1>0, <2>1, <2>2, <2>3, <2>4, <2>5 DEF StakeInv
<1> QED BY <1>0, <1>1, <1>2

\* Truncating the files opens both lists empty.
LEMMA OpenStakeInv == StakeInv /\ OpenFiles => StakeInv'
<1> SUFFICES ASSUME StakeInv, OpenFiles PROVE StakeInv'
  OBVIOUS
<1>1. Body(DS(drepDump, LogVoters, 0)) = <<Open>> /\ Body(PS(poolDump, LogVoters, 0)) = <<Open>>
  BY DEF Body, DS, PS
<1>2. /\ ee = FirstEpoch /\ ~first["drep"] /\ ~first["pool"] /\ i = Len(log) + 1
      /\ UNCHANGED <<log, drepDump, poolDump, i, voters, ee, first>>
      /\ pc' = "epochs"
      /\ out'["drep"] = <<Open>> /\ out'["pool"] = <<Open>> /\ DOMAIN out' = Files
  BY DEF StakeInv, OpenFiles, Files
<1>3. VotersOf(i - 1)' = VotersOf(i - 1)
  BY <1>2 DEF VotersOf
<1>4. ee - FirstEpoch = 0 /\ ee \in FirstEpoch..(LastEpoch + 1)
  BY <1>2, EpochAssumption
<1>5. (out["drep"] = Body(DS(drepDump, LogVoters, ee - FirstEpoch)) /\ out["pool"] = Body(PS(poolDump, LogVoters, ee - FirstEpoch)))'
  BY <1>1, <1>2, <1>4, LogVotersUnchanged
<1>6. first' = first /\ first \in [{"drep", "pool", "voting"} -> BOOLEAN] /\ log \in Seq(LogLine)
  BY <1>2 DEF StakeInv
<1>7. first'["drep"] = (ee' # FirstEpoch) /\ first'["pool"] = (ee' # FirstEpoch)
  BY <1>2, <1>6
<1>8. log' \in Seq(LogLine) /\ i' \in 1..(Len(log') + 1) /\ i' = Len(log') + 1
  BY <1>2, <1>6
<1>9. voters' = VotersOf(i - 1)'
  BY <1>2, <1>3 DEF StakeInv
<1>10. ee' \in FirstEpoch..(LastEpoch + 1) /\ ee' \in Int
  BY <1>2, <1>4, EpochAssumption
<1> QED BY <1>2, <1>5, <1>6, <1>7, <1>8, <1>9, <1>10 DEF StakeInv

\* The facts of the epoch loop every case of Epoch uses.
LEMMA EpochFacts ==
  ASSUME StakeInv, pc = "epochs"
  PROVE  /\ i = Len(log) + 1
         /\ voters = LogVoters
         /\ ee \in FirstEpoch..(LastEpoch + 1)
         /\ ee - FirstEpoch \in Nat
<1>1. i = Len(log) + 1 /\ log \in Seq(LogLine) /\ voters = VotersOf(i - 1)
  BY DEF StakeInv
<1>2. VotersOf(i - 1) = VotersOf(Len(log))
  BY <1>1
<1> QED BY <1>1, <1>2, VotersAll, EpochAssumption DEF StakeInv

\* One iteration of the epoch loop, or its end.
LEMMA EpochStakeInv == StakeInv /\ Epoch => StakeInv'
<1> SUFFICES ASSUME StakeInv, Epoch PROVE StakeInv'
  OBVIOUS
<1> DEFINE k == ee - FirstEpoch
           DV == DS(drepDump, LogVoters, k)
           PV == PS(poolDump, LogVoters, k)
<1>0. /\ pc = "epochs" /\ i = Len(log) + 1 /\ voters = LogVoters
      /\ ee \in FirstEpoch..(LastEpoch + 1) /\ k \in Nat
      /\ log \in Seq(LogLine) /\ first \in [{"drep", "pool", "voting"} -> BOOLEAN]
      /\ DOMAIN out = Files
      /\ out["drep"] = Body(DV) /\ out["pool"] = Body(PV)
      /\ first["drep"] = (ee # FirstEpoch) /\ first["pool"] = (ee # FirstEpoch)
      /\ UNCHANGED <<log, drepDump, poolDump, i, voters>>
  BY EpochFacts DEF StakeInv, Epoch
<1>1. LogVoters' = LogVoters /\ VotersOf(i - 1)' = VotersOf(i - 1)
  BY <1>0, LogVotersUnchanged DEF VotersOf
<1>2. CASE ee > LastEpoch
  <2>1. k = NEpochs
    BY <1>0, <1>2, EpochAssumption DEF NEpochs
  <2>2. /\ pc' = "params" /\ UNCHANGED <<ee, first>>
        /\ out'["drep"] = Append(out["drep"], Close) /\ out'["pool"] = Append(out["pool"], Close)
        /\ DOMAIN out' = Files
    BY <1>0, <1>2 DEF Epoch, Files
  <2>3. (out["drep"] = Listed(DS(drepDump, LogVoters, NEpochs)) /\
         out["pool"] = Listed(PS(poolDump, LogVoters, NEpochs)))'
    BY <1>0, <1>1, <2>1, <2>2 DEF Listed
  <2> QED BY <1>0, <1>1, <2>2, <2>3 DEF StakeInv
<1>3. CASE ee <= LastEpoch
  <2> DEFINE d == drepDump[ee]
             p == poolDump[ee]
             vw == VoteWrites(first["voting"])
  <2>0. ~(ee > LastEpoch) /\ ee + 1 \in FirstEpoch..(LastEpoch + 1) /\ ee + 1 # FirstEpoch
        /\ ee + 1 - FirstEpoch = k + 1 /\ FirstEpoch + k = ee
    BY <1>0, <1>3, EpochAssumption
  <2>1. /\ ee' = ee + 1
        /\ first' = [f \in DOMAIN first |-> IF f = "voting" THEN first[f] \/ vw # <<>> ELSE TRUE]
    BY <1>0, <2>0, Zenon DEF Epoch
  <2>5. ee' = ee + 1
    BY <2>1
  <2>2. /\ first' \in [{"drep", "pool", "voting"} -> BOOLEAN]
        /\ first'["drep"] /\ first'["pool"]
    BY <1>0, <2>1
  <2>9. /\ log' \in Seq(LogLine) /\ i' \in 1..(Len(log') + 1) /\ i' = Len(log') + 1
        /\ voters' = VotersOf(i - 1)' /\ ee' \in Int
    <3>1. voters = VotersOf(i - 1)
      BY DEF StakeInv
    <3> QED BY <1>0, <1>1, <2>0, <2>1, <3>1
  <2>3. CASE d = Missing \/ p = Missing
    <3>1. pc' = "crashed" /\ DOMAIN out' = Files
      <4>1. pc' = "crashed" /\ out' \in {[out EXCEPT !["drep"] = @ \o (IF first["drep"] THEN <<Sep>> ELSE <<>>),
                                                    !["pool"] = @ \o (IF first["pool"] THEN <<Sep>> ELSE <<>>)],
                                        [out EXCEPT !["drep"] = @ \o (IF first["drep"] THEN <<Sep>> ELSE <<>>) \o <<DRepEntry(d)>>,
                                                    !["pool"] = @ \o (IF first["pool"] THEN <<Sep>> ELSE <<>>)]}
        BY <1>0, <2>0, <2>3, Zenon DEF Epoch
      <4> QED BY <1>0, <4>1 DEF Files
    <3> QED BY <2>2, <2>9, <3>1 DEF StakeInv
  <2>4. CASE d # Missing /\ p # Missing
    <3>1. /\ pc' = "epochs"
          /\ out' = [out EXCEPT !["drep"] = @ \o (IF first["drep"] THEN <<Sep>> ELSE <<>>) \o <<DRepEntry(d)>>,
                                 !["pool"] = @ \o (IF first["pool"] THEN <<Sep>> ELSE <<>>) \o <<PoolEntry(p)>>,
                                 !["voting"] = @ \o vw]
      BY <1>0, <2>0, <2>4, Zenon DEF Epoch
    <3>2. /\ DOMAIN out' = Files
          /\ out'["drep"] = out["drep"] \o (IF first["drep"] THEN <<Sep>> ELSE <<>>) \o <<DRepEntry(d)>>
          /\ out'["pool"] = out["pool"] \o (IF first["pool"] THEN <<Sep>> ELSE <<>>) \o <<PoolEntry(p)>>
      BY <1>0, <3>1 DEF Files
    <3>3. /\ (IF first["drep"] THEN <<Sep>> ELSE <<>>) = (IF k = 0 THEN <<>> ELSE <<Sep>>)
          /\ (IF first["pool"] THEN <<Sep>> ELSE <<>>) = (IF k = 0 THEN <<>> ELSE <<Sep>>)
      <4>1. first["drep"] = (k # 0) /\ first["pool"] = (k # 0)
        <5>1. (ee # FirstEpoch) = (k # 0)
          BY <1>0, EpochAssumption
        <5> QED BY <5>1, <1>0
      <4> QED BY <4>1
    <3>4. /\ DRepEntry(d) = Entry(DRepStakeOf(drepDump, LogVoters, FirstEpoch + k))
          /\ PoolEntry(p) = Entry(PoolStakeOf(poolDump, LogVoters, FirstEpoch + k))
      <4>1. /\ DRepEntry(d) = Entry(DRepStakeOf(drepDump, voters, ee))
            /\ PoolEntry(p) = Entry(PoolStakeOf(poolDump, voters, ee))
        BY EntryOf
      <4> QED BY <4>1, <2>0, <1>0
    <3>5. /\ Body(DS(drepDump, LogVoters, k + 1)) =
               Body(DV) \o (IF k = 0 THEN <<>> ELSE <<Sep>>)
                        \o <<Entry(DRepStakeOf(drepDump, LogVoters, FirstEpoch + k))>>
          /\ Body(PS(poolDump, LogVoters, k + 1)) =
               Body(PV) \o (IF k = 0 THEN <<>> ELSE <<Sep>>)
                        \o <<Entry(PoolStakeOf(poolDump, LogVoters, FirstEpoch + k))>>
      BY <1>0, BodyDS, BodyPS
    <3>6. /\ out'["drep"] = Body(DS(drepDump, LogVoters, ee' - FirstEpoch))
          /\ out'["pool"] = Body(PS(poolDump, LogVoters, ee' - FirstEpoch))
      <4>1. /\ out'["drep"] = Body(DS(drepDump, LogVoters, k + 1))
            /\ out'["pool"] = Body(PS(poolDump, LogVoters, k + 1))
        BY <1>0, <3>2, <3>3, <3>4, <3>5
      <4>2. ee' - FirstEpoch = k + 1
        BY <1>0, <2>0, <2>5, EpochAssumption
      <4> QED BY <4>1, <4>2
    <3>7. (out["drep"] = Body(DS(drepDump, LogVoters, ee - FirstEpoch)) /\
           out["pool"] = Body(PS(poolDump, LogVoters, ee - FirstEpoch)))'
      BY <1>0, <1>1, <3>6
    <3>8. first'["drep"] = (ee' # FirstEpoch) /\ first'["pool"] = (ee' # FirstEpoch)
          /\ ee' \in FirstEpoch..(LastEpoch + 1)
      BY <2>0, <2>1, <2>2
    <3> QED BY <2>2, <2>9, <3>1, <3>2, <3>7, <3>8 DEF StakeInv
  <2> QED BY <2>3, <2>4
<1> QED BY <1>0, <1>2, <1>3, EpochAssumption

\* The parameter and statistics files, and the final stutter: the DRep and
\* pool files, the dumps, the log and the loop state are left as they are.
LEMMA TailStakeInv ==
  StakeInv /\ (Params \/ Stats \/ Finished \/ UNCHANGED vars) => StakeInv'
<1> SUFFICES ASSUME StakeInv, Params \/ Stats \/ Finished \/ UNCHANGED vars
             PROVE  StakeInv'
  OBVIOUS
<1>0. /\ log' = log /\ drepDump' = drepDump /\ poolDump' = poolDump
      /\ i' = i /\ voters' = voters /\ ee' = ee /\ first' = first
      /\ out'["drep"] = out["drep"] /\ out'["pool"] = out["pool"]
      /\ DOMAIN out' = DOMAIN out
      /\ \/ pc = "params" /\ pc' = "stats"
         \/ pc = "stats" /\ pc' = "done"
         \/ pc' = pc
  <2>1. CASE Params
    BY <2>1 DEF Params
  <2>2. CASE Stats
    BY <2>2 DEF Stats
  <2>3. CASE Finished \/ UNCHANGED vars
    BY <2>3 DEF Finished, vars
  <2> QED BY <2>1, <2>2, <2>3
<1>1. LogVoters' = LogVoters /\ VotersOf(i - 1)' = VotersOf(i - 1)
  BY <1>0, LogVotersUnchanged DEF VotersOf
<1>2. /\ log' \in Seq(LogLine) /\ i' \in 1..(Len(log') + 1)
      /\ voters' = VotersOf(i - 1)' /\ ee' \in Int
      /\ first' \in [{"drep", "pool", "voting"} -> BOOLEAN] /\ DOMAIN out' = Files
      /\ pc' \in {"scan", "open", "epochs", "params", "stats", "done", "crashed"}
  BY <1>0, <1>1 DEF StakeInv
<1>3. (pc \in {"open", "epochs", "params", "stats", "done"} => i = Len(log) + 1)'
  BY <1>0 DEF StakeInv
<1>4. (pc \in {"scan", "open"} => ee = FirstEpoch /\ ~first["drep"] /\ ~first["pool"])'
  BY <1>0 DEF StakeInv
<1>5. (pc = "epochs" =>
         /\ ee \in FirstEpoch..(LastEpoch + 1)
         /\ out["drep"] = Body(DS(drepDump, LogVoters, ee - FirstEpoch))
         /\ out["pool"] = Body(PS(poolDump, LogVoters, ee - FirstEpoch))
         /\ first["drep"] = (ee # FirstEpoch)
         /\ first["pool"] = (ee # FirstEpoch))'
  BY <1>0, <1>1 DEF StakeInv
<1>6. (pc \in {"params", "stats", "done"} =>
         /\ out["drep"] = Listed(DS(drepDump, LogVoters, NEpochs))
         /\ out["pool"] = Listed(PS(poolDump, LogVoters, NEpochs)))'
  BY <1>0, <1>1 DEF StakeInv
<1> QED BY <1>2, <1>3, <1>4, <1>5, <1>6 DEF StakeInv

\* Every step of the script keeps StakeInv.
LEMMA NextStakeInv == StakeInv /\ [Next]_vars => StakeInv'
<1> SUFFICES ASSUME StakeInv, [Next]_vars PROVE StakeInv'
  OBVIOUS
<1> QED BY ScanStakeInv, OpenStakeInv, EpochStakeInv, TailStakeInv DEF Next

\* The expected lists of StakeOfVoters, one entry per epoch of
\* range(FirstEpoch, LastEpoch + 1), are DS and PS of the whole log's voters.
LEMMA EpochsLists ==
  /\ [k \in DOMAIN Epochs |-> DRepStake(Epochs[k])] = DS(drepDump, LogVoters, NEpochs)
  /\ [k \in DOMAIN Epochs |-> PoolStake(Epochs[k])] = PS(poolDump, LogVoters, NEpochs)
<1>1. DOMAIN Epochs = 1..NEpochs
  BY DEF Epochs, NEpochs
<1>2. \A k \in 1..NEpochs : Epochs[k] = FirstEpoch + k - 1
  BY DEF Epochs, NEpochs
<1>3. \A k \in 1..NEpochs : /\ DRepStake(Epochs[k]) = DRepStakeOf(drepDump, LogVoters, FirstEpoch + k - 1)
                            /\ PoolStake(Epochs[k]) = PoolStakeOf(poolDump, LogVoters, FirstEpoch + k - 1)
  BY <1>2, EntryOf
<1> QED BY <1>1, <1>3 DEF DS, PS

(***************************************************************************)
(* convert_governance.py, run to its end, writes to drep_state.json and    *)
(* pool_state.json, for every epoch of the range, the stake entries of     *)
(* exactly the voters found anywhere in the vote log: StakeOfVoters holds  *)
(* in every reachable state, for every range and every log and dumps.     *)
(***************************************************************************)
THEOREM StakeOfVotersThm == Spec => []StakeOfVoters
<1>1. StakeInv => StakeOfVoters
  BY EpochsLists DEF StakeInv, StakeOfVoters
<1> QED BY <1>1, InitStakeInv, NextStakeInv, PTL DEF Spec
-----------------------------------------------------------------------------
(***************************************************************************)
(* The refinement of ConvertAbs.  The abstract lists are the expected     *)
(* entries DS and PS of the whole range; StakeInv says the files are the  *)
(* body of the epochs done, so each Epoch step is a Write, a Crash or the *)
(* Finish, OpenFiles is the Truncate, and every other step a stutter.     *)
(***************************************************************************)

\* The expected lists, the abstract variables wantD and wantP.
WantD == DS(drepDump, LogVoters, NEpochs)
WantP == PS(poolDump, LogVoters, NEpochs)

\* The expected lists have one entry per epoch of the range.
LEMMA WantShape ==
  /\ NEpochs \in Nat
  /\ DOMAIN WantD = 1..Len(WantD) /\ DOMAIN WantP = DOMAIN WantD
  /\ Len(WantD) = NEpochs
  /\ \A k \in 0..(NEpochs - 1) :
       /\ WantD[k + 1] = DRepStakeOf(drepDump, LogVoters, FirstEpoch + k)
       /\ WantP[k + 1] = PoolStakeOf(poolDump, LogVoters, FirstEpoch + k)
<1>1. NEpochs \in Nat
  BY EpochAssumption DEF NEpochs
<1>2. WantD \in Seq({DRepStakeOf(drepDump, LogVoters, e) : e \in Int})
  BY <1>1, DSStep DEF WantD
<1>3. DOMAIN WantD = 1..NEpochs /\ DOMAIN WantP = 1..NEpochs
  BY DEF WantD, WantP, DS, PS
<1>4. Len(WantD) = NEpochs
  BY <1>1, <1>2, <1>3
<1> QED BY <1>1, <1>3, <1>4 DEF WantD, WantP, DS, PS

\* A step that leaves the inputs, the two files, the epoch and the phase
\* alone is a stutter of ConvertAbs.
LEMMA AbsStutter ==
  ASSUME log' = log, drepDump' = drepDump, poolDump' = poolDump,
         out'["drep"] = out["drep"], out'["pool"] = out["pool"],
         ee' = ee, AbsPhase' = AbsPhase
  PROVE  UNCHANGED AbsConvert!vars
BY LogVotersUnchanged DEF AbsConvert!vars

\* The script starts as ConvertAbs does: the old files, nothing written.
LEMMA InitRefines == Init => AbsConvert!Init
<1> SUFFICES ASSUME Init PROVE AbsConvert!Init
  OBVIOUS
<1>1. out["drep"] = <<Old>> /\ out["pool"] = <<Old>>
  BY DEF Init, Files
<1>2. AbsPhase = "idle" /\ ee - FirstEpoch = 0
  BY EpochAssumption DEF Init, AbsPhase
<1> QED BY <1>1, <1>2, WantShape DEF AbsConvert!Init, WantD, WantP

\* The scan loop touches neither file, nor the epoch: a stutter, a crash in
\* it included, since the files still hold their old content.
LEMMA ScanRefines == StakeInv /\ Scan => UNCHANGED AbsConvert!vars
<1> SUFFICES ASSUME StakeInv, Scan PROVE UNCHANGED AbsConvert!vars
  OBVIOUS
<1>1. /\ pc = "scan" /\ ee = FirstEpoch /\ pc' \in {"scan", "open", "crashed"}
      /\ UNCHANGED <<log, drepDump, poolDump, ee, out>>
  BY DEF StakeInv, Scan
<1>2. AbsPhase' = AbsPhase
  BY <1>1 DEF AbsPhase
<1> QED BY <1>1, <1>2, AbsStutter

\* The truncation is ConvertAbs's Truncate.
LEMMA OpenRefines == StakeInv /\ OpenFiles => AbsConvert!Truncate
<1> SUFFICES ASSUME StakeInv, OpenFiles PROVE AbsConvert!Truncate
  OBVIOUS
<1>1. /\ pc = "open" /\ pc' = "epochs" /\ ee = FirstEpoch
      /\ UNCHANGED <<log, drepDump, poolDump, ee>>
      /\ out'["drep"] = <<Open>> /\ out'["pool"] = <<Open>>
  BY DEF StakeInv, OpenFiles, Files
<1>2. AbsPhase = "idle" /\ AbsPhase' = "writing"
  BY <1>1 DEF AbsPhase
<1> QED BY <1>1, <1>2, LogVotersUnchanged DEF AbsConvert!Truncate

\* The parameter and statistics files and the final stutter leave the two
\* files and the phase as they are.
LEMMA TailRefines ==
  StakeInv /\ (Params \/ Stats \/ Finished \/ UNCHANGED vars) => UNCHANGED AbsConvert!vars
<1> SUFFICES ASSUME StakeInv, Params \/ Stats \/ Finished \/ UNCHANGED vars
             PROVE  UNCHANGED AbsConvert!vars
  OBVIOUS
<1>1. /\ UNCHANGED <<log, drepDump, poolDump, ee>>
      /\ out'["drep"] = out["drep"] /\ out'["pool"] = out["pool"]
      /\ \/ pc = "params" /\ pc' = "stats"
         \/ pc = "stats" /\ pc' = "done"
         \/ pc' = pc
  <2>1. CASE Params
    BY <2>1 DEF Params
  <2>2. CASE Stats
    BY <2>2 DEF Stats
  <2>3. CASE Finished \/ UNCHANGED vars
    BY <2>3 DEF Finished, vars
  <2> QED BY <2>1, <2>2, <2>3
<1>2. AbsPhase' = AbsPhase
  BY <1>1 DEF AbsPhase
<1> QED BY <1>1, <1>2, AbsStutter

\* One iteration of the epoch loop is a Write or a Crash of ConvertAbs, and
\* its end is the Finish.
LEMMA EpochRefines ==
  StakeInv /\ Epoch => AbsConvert!Write \/ AbsConvert!Crash \/ AbsConvert!Finish
<1> SUFFICES ASSUME StakeInv, Epoch
             PROVE  AbsConvert!Write \/ AbsConvert!Crash \/ AbsConvert!Finish
  OBVIOUS
<1> DEFINE k == ee - FirstEpoch
           DV == DS(drepDump, LogVoters, k)
           PV == PS(poolDump, LogVoters, k)
<1>0. /\ pc = "epochs" /\ voters = LogVoters
      /\ ee \in FirstEpoch..(LastEpoch + 1) /\ k \in Nat
      /\ first["drep"] = (ee # FirstEpoch) /\ first["pool"] = (ee # FirstEpoch)
      /\ UNCHANGED <<log, drepDump, poolDump>>
      /\ DOMAIN out = Files
      /\ AbsPhase = "writing"
  BY EpochFacts DEF StakeInv, Epoch, AbsPhase
<1>1. LogVoters' = LogVoters /\ WantD' = WantD /\ WantP' = WantP
  BY <1>0, LogVotersUnchanged DEF WantD, WantP
<1>2. CASE ee > LastEpoch
  <2>1. k = Len(WantD)
    BY <1>0, <1>2, WantShape, EpochAssumption DEF NEpochs
  <2>2. /\ pc' = "params" /\ ee' = ee
        /\ out'["drep"] = Append(out["drep"], Close) /\ out'["pool"] = Append(out["pool"], Close)
    BY <1>0, <1>2 DEF Epoch, Files
  <2>3. AbsPhase' = "closed"
    BY <2>2 DEF AbsPhase
  <2>4. AbsConvert!Finish
    BY <1>0, <1>1, <2>1, <2>2, <2>3 DEF AbsConvert!Finish, WantD, WantP
  <2> QED BY <2>4
<1>3. CASE ee <= LastEpoch
  <2> DEFINE d == drepDump[ee]
             p == poolDump[ee]
             vw == VoteWrites(first["voting"])
             sep == IF k = 0 THEN <<>> ELSE <<Sep>>
  <2>0. /\ ~(ee > LastEpoch) /\ k < Len(WantD) /\ k \in 0..(NEpochs - 1)
        /\ FirstEpoch + k = ee /\ ee + 1 # FirstEpoch
    BY <1>0, <1>3, WantShape, EpochAssumption DEF NEpochs
  <2>1. ee' = ee + 1
    BY <1>0, <2>0, Zenon DEF Epoch
  <2>2. (ee - FirstEpoch)' = k + 1
    BY <2>1, <1>0, EpochAssumption
  <2>3. /\ (IF first["drep"] THEN <<Sep>> ELSE <<>>) = sep
        /\ (IF first["pool"] THEN <<Sep>> ELSE <<>>) = sep
    <3>1. (ee # FirstEpoch) = (k # 0)
      BY <1>0, EpochAssumption
    <3> QED BY <3>1, <1>0
  <2>4. /\ DRepEntry(d) = Entry(WantD[k + 1])
        /\ PoolEntry(p) = Entry(WantP[k + 1])
    <3>1. /\ DRepEntry(d) = Entry(DRepStakeOf(drepDump, voters, ee))
          /\ PoolEntry(p) = Entry(PoolStakeOf(poolDump, voters, ee))
      BY EntryOf
    <3> QED BY <3>1, <2>0, <1>0, WantShape
  <2>5. CASE d # Missing /\ p # Missing
    <3>1. /\ pc' = "epochs"
          /\ out' = [out EXCEPT !["drep"] = @ \o (IF first["drep"] THEN <<Sep>> ELSE <<>>) \o <<DRepEntry(d)>>,
                                 !["pool"] = @ \o (IF first["pool"] THEN <<Sep>> ELSE <<>>) \o <<PoolEntry(p)>>,
                                 !["voting"] = @ \o vw]
      BY <1>0, <2>0, <2>5, Zenon DEF Epoch
    <3>2. /\ out'["drep"] = out["drep"] \o sep \o <<Entry(WantD[k + 1])>>
          /\ out'["pool"] = out["pool"] \o sep \o <<Entry(WantP[k + 1])>>
      <4>1. "drep" \in DOMAIN out /\ "pool" \in DOMAIN out
        BY DEF StakeInv, Files
      <4> QED BY <3>1, <4>1, <2>3, <2>4
    <3>3. AbsPhase' = "writing"
      BY <3>1 DEF AbsPhase
    <3>4. AbsConvert!Write
      BY <1>0, <1>1, <2>0, <2>2, <3>2, <3>3 DEF AbsConvert!Write, AbsConvert!Comma, WantD, WantP
    <3> QED BY <3>4
  <2>6. CASE d = Missing \/ p = Missing
    <3>1. /\ pc' = "crashed"
          /\ \/ out' = [out EXCEPT !["drep"] = @ \o (IF first["drep"] THEN <<Sep>> ELSE <<>>),
                                   !["pool"] = @ \o (IF first["pool"] THEN <<Sep>> ELSE <<>>)]
             \/ out' = [out EXCEPT !["drep"] = @ \o (IF first["drep"] THEN <<Sep>> ELSE <<>>) \o <<DRepEntry(d)>>,
                                   !["pool"] = @ \o (IF first["pool"] THEN <<Sep>> ELSE <<>>)]
      BY <1>0, <2>0, <2>6, Zenon DEF Epoch
    <3>2. /\ out'["drep"] \in {out["drep"] \o sep, out["drep"] \o sep \o <<Entry(WantD[k + 1])>>}
          /\ out'["pool"] = out["pool"] \o sep
      <4>1. "drep" \in DOMAIN out /\ "pool" \in DOMAIN out
        BY DEF StakeInv, Files
      <4> QED BY <3>1, <4>1, <2>3, <2>4
    <3>3. AbsPhase' = "crashed"
      BY <3>1, <2>0, <2>1 DEF AbsPhase
    <3>4. AbsConvert!Crash
      BY <1>0, <1>1, <2>0, <2>2, <3>2, <3>3 DEF AbsConvert!Crash, AbsConvert!Comma, WantD, WantP
    <3> QED BY <3>4
  <2> QED BY <2>5, <2>6
<1> QED BY <1>0, <1>2, <1>3, EpochAssumption

\* Every step of the script, from a state of StakeInv, is a step of
\* ConvertAbs or leaves its variables alone.
LEMMA NextRefines ==
  StakeInv /\ [Next]_vars => [AbsConvert!Next]_AbsConvert!vars
<1> SUFFICES ASSUME StakeInv, [Next]_vars PROVE [AbsConvert!Next]_AbsConvert!vars
  OBVIOUS
<1>1. CASE Scan
  BY <1>1, ScanRefines
<1>2. CASE OpenFiles
  BY <1>2, OpenRefines DEF AbsConvert!Next
<1>3. CASE Epoch
  BY <1>3, EpochRefines DEF AbsConvert!Next
<1>4. CASE Params \/ Stats \/ Finished \/ UNCHANGED vars
  BY <1>4, TailRefines
<1> QED BY <1>1, <1>2, <1>3, <1>4 DEF Next

(***************************************************************************)
(* convert_governance.py implements ConvertAbs: over every run, crashed   *)
(* ones included, drep_state.json and pool_state.json keep their old      *)
(* content until both are truncated, then grow by one epoch's comma and   *)
(* entry at a time, in range order, with the stake of the whole log's     *)
(* voters, and either are closed together after the last epoch or are    *)
(* left by a missing dump with the DRep file at most one entry ahead.     *)
(***************************************************************************)
THEOREM ConvertRefinesThm == Spec => ImplementsConvertAbs
<1>1. Spec => []StakeInv
  BY InitStakeInv, NextStakeInv, PTL DEF Spec
<1>2. []StakeInv /\ [][Next]_vars => [][AbsConvert!Next]_AbsConvert!vars
  BY NextRefines, PTL
<1> QED BY <1>1, <1>2, InitRefines, PTL DEF Spec, ImplementsConvertAbs, AbsConvert!Spec

=============================================================================
