------------------------- MODULE ConvertGovernance -------------------------
(***************************************************************************)
(* modules/governance_state/data/convert_governance.py: one run of the     *)
(* script.  It scans execution_log.txt line by line into module-level      *)
(* dicts (the votes per epoch, every voter's hash, the parameters, the    *)
(* pool statistics), then truncates its five output files and writes one  *)
(* JSON list entry per epoch FirstEpoch..LastEpoch (range(507, 575)) from the DRep   *)
(* and pool stake dumps, and last the parameters and the statistics.      *)
(*                                                                         *)
(* A log line is a record of the fields the three regular expressions     *)
(* capture.  array_as_base64 is injective, so a key is its hash.  A file  *)
(* is the sequence of its writes: '[' and ']' and ',' are tokens, an entry *)
(* is a tuple of what its '%' format prints; newlines are left out.       *)
(***************************************************************************)
EXTENDS Integers, Sequences, SequencesExt

CONSTANTS
  FirstEpoch, LastEpoch, \* the epochs of range(507, 575)
  Logs,          \* the execution logs the script may read
  DRepDumps,     \* the drep-<ee>.json files: [ee -> dump or Missing]
  PoolDumps      \* the spo-<ee>.json files: [ee -> dump or Missing]

\* What the regular expressions of lines 25, 38, 44 and 50 capture of a
\* line: its kind, its numbers, the gov action id, the parsed votes.
VoteCast == [type: {"ConstitutionalCommitteeKey", "ConstitutionalCommitteeScript",
                    "DRepKey", "DRepScript", "StakePoolKey"},
             hash: STRING, vote: {"Yes", "No", "Abstain"}]
LogLine == [kind: {"vote", "nppx", "stats"}, epoch: Nat, gov: STRING,
            votes: Seq(VoteCast), value: STRING, stat: Nat, committee: Nat]

\* range(507, 575): two integers, the range possibly empty.
ASSUME EpochAssumption ==
  FirstEpoch \in Int /\ LastEpoch \in Int /\ FirstEpoch <= LastEpoch + 1
\* A log is a sequence of lines.
ASSUME LogsAssumption == Logs \subseteq Seq(LogLine)

Missing == [epoch |-> -1, entries |-> <<>>]   \* open() raises FileNotFoundError

\* key_type, lines 5-11, and the DRep credential kinds of lines 76-82.
KeyType == [ConstitutionalCommitteeKey |-> 3, ConstitutionalCommitteeScript |-> 4,
            DRepKey |-> 0, DRepScript |-> 1, StakePoolKey |-> 2]
CredType == [AddrKeyHash |-> 0, ScriptHash |-> 1]

Open == [t |-> "open"]
Close == [t |-> "close"]
Sep == [t |-> "comma"]
Old == [t |-> "old"]     \* what the file held before the run
Entry(v) == [t |-> "entry", v |-> v]
Files == {"drep", "pool", "voting", "param", "epoch"}

\* Mutant: the vote value kept in every (key_type, key) pair.
Cast_with_vote(votes, x) ==
  LET s == SelectSeq(votes, LAMBDA b : b.vote = x)
  IN  [k \in DOMAIN s |-> <<KeyType[s[k].type], s[k].hash, x>>]

\* split_votes, lines 19-30: the (key_type, key) pairs of one vote value.
Cast(votes, x) ==
  LET s == SelectSeq(votes, LAMBDA b : b.vote = x)
  IN  [k \in DOMAIN s |-> <<KeyType[s[k].type], s[k].hash>>]
Tally(votes) == [x \in {"Yes", "No", "Abstain"} |-> Cast(votes, x)]

VARIABLES
  log, drepDump, poolDump,   \* the inputs
  pc,        \* "scan", "open", "epochs", "params", "stats", "done", "crashed"
  i,         \* the next log line
  voters,    \* all_voters_hash
  votes,     \* votes_hash: epoch -> sequence of (gov action, tally)
  params,    \* param_hash, in insertion order
  epochData, \* epoch_data
  ee,        \* the epoch loop's variable
  first,     \* first_d, first_p, first_v (one flag per list file)
  out        \* the five files

vars == <<log, drepDump, poolDump, pc, i, voters, votes, params, epochData, ee, first, out>>

Init ==
  /\ log \in Logs /\ drepDump \in DRepDumps /\ poolDump \in PoolDumps
  /\ pc = "scan" /\ i = 1
  /\ voters = {} /\ votes = <<>> /\ params = <<>> /\ epochData = <<>>
  /\ ee = FirstEpoch
  /\ first = [f \in {"drep", "pool", "voting"} |-> FALSE]
  /\ out = [f \in Files |-> <<Old>>]

\* Mutant: the votes filed under the epoch the line reports, not the one before.
AddVotes_key_epoch(vh, n, item) ==
  IF n + 1 \in DOMAIN vh THEN [vh EXCEPT ![n + 1] = Append(@, item)] ELSE vh @@ (n + 1 :> <<item>>)

\* votes_hash[n] += [item], creating the list first (lines 40-42).
AddVotes(vh, n, item) ==
  IF n \in DOMAIN vh THEN [vh EXCEPT ![n] = Append(@, item)] ELSE vh @@ (n :> <<item>>)

\* Mutant: a repeated epoch keeps the value it was first given.
SetParam_first_wins(ps, e, v) ==
  IF \E k \in DOMAIN ps : ps[k][1] = e THEN ps ELSE Append(ps, <<e, v>>)

\* param_hash[e] = v: a new key goes last, an old one keeps its place.
SetParam(ps, e, v) ==
  IF \E k \in DOMAIN ps : ps[k][1] = e
  THEN [k \in DOMAIN ps |-> IF ps[k][1] = e THEN <<e, v>> ELSE ps[k]]
  ELSE Append(ps, <<e, v>>)

(***************************************************************************)
(* One iteration of the scan loop, lines 37-56.  A committee size other   *)
(* than 7 prints and calls sys.exit, but sys is not imported: NameError.  *)
(***************************************************************************)
Scan ==
  /\ pc = "scan"
  /\ IF i > Len(log)
     THEN pc' = "open" /\ UNCHANGED <<i, voters, votes, params, epochData>>
     ELSE LET l == log[i] IN
          /\ i' = i + 1
          /\ voters' = IF l.kind = "vote" THEN voters \cup {b.hash : b \in ToSet(l.votes)}
                       ELSE voters
          /\ votes' = IF l.kind = "vote"
                      THEN AddVotes(votes, l.epoch - 1, <<l.gov, Tally(l.votes)>>)
                      ELSE votes
          /\ params' = IF l.kind = "nppx" THEN SetParam(params, l.epoch, l.value) ELSE params
          /\ epochData' = IF l.kind = "stats" THEN Append(epochData, <<l.epoch, l.stat>>)
                          ELSE epochData
          /\ pc' = IF l.kind = "stats" /\ l.committee # 7 THEN "crashed" ELSE "scan"
  /\ UNCHANGED <<log, drepDump, poolDump, ee, first, out>>

\* Mutant: the files opened for appending ('at'), their old content kept.
OpenFiles_append ==
  /\ pc = "open"
  /\ out' = [f \in Files |-> IF f \in {"param", "epoch"} THEN out[f] ELSE out[f] \o <<Open>>]
  /\ pc' = "epochs"
  /\ UNCHANGED <<log, drepDump, poolDump, i, voters, votes, params, epochData, ee, first>>

\* Lines 60-64 truncate the five files, lines 123-125 open three lists.
OpenFiles ==
  /\ pc = "open"
  /\ out' = [f \in Files |-> IF f \in {"param", "epoch"} THEN <<>> ELSE <<Open>>]
  /\ pc' = "epochs"
  /\ UNCHANGED <<log, drepDump, poolDump, i, voters, votes, params, epochData, ee, first>>

\* Mutant: the DRep list dated with the dump's own epoch.
DRepEntry_same_epoch(d) ==
  LET s == SelectSeq(d.entries, LAMBDA x : x.hash \in voters)
  IN  Entry(<<d.epoch, [k \in DOMAIN s |-> <<CredType[s[k].cred], s[k].hash, s[k].stake>>]>>)

\* convert_drep and convert_pool, lines 66-111: the dump's entries whose
\* hash voted, and the epoch after the dump's own.
DRepEntry(d) ==
  LET s == SelectSeq(d.entries, LAMBDA x : x.hash \in voters)
  IN  Entry(<<d.epoch + 1, [k \in DOMAIN s |-> <<CredType[s[k].cred], s[k].hash, s[k].stake>>]>>)
PoolEntry(d) ==
  LET s == SelectSeq(d.entries, LAMBDA x : x.hash \in voters)
  IN  Entry(<<d.epoch + 1, [k \in DOMAIN s |-> <<s[k].hash, s[k].active, s[k].live>>]>>)
\* convert_votes, lines 113-121, each entry after its comma (lines 137-139).
VoteWrites(fst) ==
  LET vs == IF ee \in DOMAIN votes THEN votes[ee] ELSE <<>>
  IN  FlattenSeq([k \in DOMAIN vs |->
        (IF fst \/ k > 1 THEN <<Sep>> ELSE <<>>) \o
        <<Entry(<<ee, vs[k][1], vs[k][2]["Yes"], vs[k][2]["No"], vs[k][2]["Abstain"]>>)>>])

(***************************************************************************)
(* One iteration of the epoch loop, lines 129-139.  The commas go out     *)
(* before the dumps are opened; a missing dump raises in the middle.      *)
(***************************************************************************)
Epoch ==
  /\ pc = "epochs"
  /\ IF ee > LastEpoch
     THEN /\ pc' = "params"
          /\ out' = [out EXCEPT !["drep"] = Append(@, Close), !["pool"] = Append(@, Close),
                                !["voting"] = Append(@, Close)]
          /\ UNCHANGED <<ee, first>>
     ELSE LET d == drepDump[ee]
              p == poolDump[ee]
              sepd == IF first["drep"] THEN <<Sep>> ELSE <<>>
              sepp == IF first["pool"] THEN <<Sep>> ELSE <<>>
              vw == VoteWrites(first["voting"])
          IN  /\ first' = [f \in DOMAIN first |-> IF f = "voting" THEN first[f] \/ vw # <<>> ELSE TRUE]
              /\ ee' = ee + 1
              /\ CASE d = Missing ->
                        /\ out' = [out EXCEPT !["drep"] = @ \o sepd, !["pool"] = @ \o sepp]
                        /\ pc' = "crashed"
                   [] d # Missing /\ p = Missing ->
                        /\ out' = [out EXCEPT !["drep"] = @ \o sepd \o <<DRepEntry(d)>>,
                                              !["pool"] = @ \o sepp]
                        /\ pc' = "crashed"
                   [] OTHER ->
                        /\ out' = [out EXCEPT !["drep"] = @ \o sepd \o <<DRepEntry(d)>>,
                                              !["pool"] = @ \o sepp \o <<PoolEntry(p)>>,
                                              !["voting"] = @ \o vw]
                        /\ UNCHANGED pc
  /\ UNCHANGED <<log, drepDump, poolDump, i, voters, votes, params, epochData>>

\* Lines 145-150: the parameters in the dict's order, the comma in front.
Params ==
  /\ pc = "params"
  /\ out' = [out EXCEPT !["param"] =
               <<Open>> \o FlattenSeq([k \in DOMAIN params |->
                      (IF k > 1 THEN <<Sep>> ELSE <<>>) \o <<Entry(params[k])>>]) \o <<Close>>]
  /\ pc' = "stats"
  /\ UNCHANGED <<log, drepDump, poolDump, i, voters, votes, params, epochData, ee, first>>

\* Lines 152-158: the statistics sorted as tuples.
TupleLess(a, b) == a[1] < b[1] \/ (a[1] = b[1] /\ a[2] < b[2])
Stats ==
  /\ pc = "stats"
  /\ LET s == SortSeq(epochData, TupleLess)
     IN  out' = [out EXCEPT !["epoch"] =
               <<Open>> \o FlattenSeq([k \in DOMAIN s |->
                      (IF k > 1 THEN <<Sep>> ELSE <<>>) \o <<Entry(s[k])>>]) \o <<Close>>]
  /\ pc' = "done"
  /\ UNCHANGED <<log, drepDump, poolDump, i, voters, votes, params, epochData, ee, first>>

Finished == pc \in {"done", "crashed"} /\ UNCHANGED vars

Next == Scan \/ OpenFiles \/ Epoch \/ Params \/ Stats \/ Finished

\* A sequential script over local files: every step it can take, it takes.
Spec == Init /\ [][Next]_vars /\ WF_vars(Next)

-----------------------------------------------------------------------------
\* The writes of a file whose entries are of type V.
Tok(V) == {Open, Close, Sep, Old} \cup [t: {"entry"}, v: V]

\* Every variable holds a value of its type.
TypeOK ==
  /\ pc \in {"scan", "open", "epochs", "params", "stats", "done", "crashed"}
  /\ i \in 1..(Len(log) + 1)
  /\ ee \in FirstEpoch..(LastEpoch + 1)
  /\ first \in [{"drep", "pool", "voting"} -> BOOLEAN]
  /\ out["drep"] \in Seq(Tok(Int \X Seq(Int \X STRING \X Int)))
  /\ out["pool"] \in Seq(Tok(Int \X Seq(STRING \X Int \X Int)))
  /\ out["voting"] \in Seq(Tok(Int \X STRING \X Seq(Int \X STRING) \X Seq(Int \X STRING)
                                                   \X Seq(Int \X STRING)))
  /\ out["param"] \in Seq(Tok(Int \X STRING))
  /\ out["epoch"] \in Seq(Tok(Int \X Int))
  /\ voters \subseteq STRING
  /\ params \in Seq(Int \X STRING)
  /\ epochData \in Seq(Int \X Int)

\* A JSON list of the given entries before its ']', as it should be written:
\* '[' first, then the entries at the even places, a comma between two.
Body(xs) ==
  [j \in 1..(IF xs = <<>> THEN 1 ELSE 2 * Len(xs)) |->
     IF j = 1 THEN Open ELSE IF j % 2 = 0 THEN Entry(xs[j \div 2]) ELSE Sep]
\* The whole list.
Listed(xs) == Append(Body(xs), Close)

\* The epochs of the loop, in order, as a sequence.
Epochs == [k \in 1..(LastEpoch - FirstEpoch + 1) |-> FirstEpoch + k - 1]

\* The hashes of every voter of every vote line of the log.
LogVoters == UNION {{b.hash : b \in ToSet(l.votes)} : l \in {l \in ToSet(log) : l.kind = "vote"}}

\* The vote lines reported at the start of epoch e + 1: the votes of e.
VotesOf(e) ==
  LET s == SelectSeq(log, LAMBDA l : l.kind = "vote" /\ l.epoch = e + 1)
  IN  [j \in DOMAIN s |-> <<e, s[j].gov, Cast(s[j].votes, "Yes"), Cast(s[j].votes, "No"),
                           Cast(s[j].votes, "Abstain")>>]

(***************************************************************************)
(* A finished run writes to voting_state.json, in epoch order and in the  *)
(* order of the log, one well-formed list entry for every vote line whose *)
(* epoch minus one lies in FirstEpoch..LastEpoch, with its votes split by value      *)
(* (split_votes, the votes_hash of lines 37-42, the first_v comma of lines *)
(* 136-139, across the iterations of the epoch loop).                      *)
(***************************************************************************)
VotesComplete ==
  pc = "done" => out["voting"] = Listed(FlattenSeq([k \in DOMAIN Epochs |-> VotesOf(Epochs[k])]))

\* The NPPX lines of the log, and the first of them for each epoch, in order.
NppxAt == {k \in DOMAIN log : log[k].kind = "nppx"}
FirstNppx ==
  SelectSeq([k \in DOMAIN log |-> k],
            LAMBDA k : k \in NppxAt /\ \A j \in NppxAt : j < k => log[j].epoch # log[k].epoch)
\* The value of the last NPPX line of epoch e.
LastValue(e) ==
  log[CHOOSE k \in NppxAt : log[k].epoch = e /\ \A j \in NppxAt : log[j].epoch = e => j <= k].value

(***************************************************************************)
(* A finished run writes to param_state.json one well-formed entry per    *)
(* epoch that has an NPPX line, in the order the epochs first appear in   *)
(* the log, holding the value of that epoch's last NPPX line (param_hash  *)
(* of line 46, a dict that keeps insertion order, and the first_c comma   *)
(* of lines 145-150).                                                      *)
(***************************************************************************)
ParamsLastWins ==
  pc = "done" =>
    out["param"] = Listed([n \in DOMAIN FirstNppx |->
                             <<log[FirstNppx[n]].epoch, LastValue(log[FirstNppx[n]].epoch)>>])

\* The stake of the dump's voters, as each file should hold it.
Voted(d) == SelectSeq(d.entries, LAMBDA x : x.hash \in LogVoters)
DRepStake(e) ==
  <<drepDump[e].epoch + 1,
    [k \in DOMAIN Voted(drepDump[e]) |-> <<CredType[Voted(drepDump[e])[k].cred],
                                          Voted(drepDump[e])[k].hash, Voted(drepDump[e])[k].stake>>]>>
PoolStake(e) ==
  <<poolDump[e].epoch + 1,
    [k \in DOMAIN Voted(poolDump[e]) |-> <<Voted(poolDump[e])[k].hash,
                                          Voted(poolDump[e])[k].active, Voted(poolDump[e])[k].live>>]>>

(***************************************************************************)
(* A finished run writes to drep_state.json and pool_state.json one       *)
(* well-formed list entry per epoch, in order, holding the stake of every *)
(* DRep and pool of that epoch's dump whose hash voted anywhere in the    *)
(* log, and no other (all_voters_hash filled by the whole scan before     *)
(* the first dump is read; the first_d and first_p commas).               *)
(***************************************************************************)
StakeOfVoters ==
  pc = "done" =>
    /\ out["drep"] = Listed([k \in DOMAIN Epochs |-> DRepStake(Epochs[k])])
    /\ out["pool"] = Listed([k \in DOMAIN Epochs |-> PoolStake(Epochs[k])])
-----------------------------------------------------------------------------
\* The number of epochs of range(FirstEpoch, LastEpoch + 1).
NEpochs == LastEpoch - FirstEpoch + 1

\* DRepStake and PoolStake with the dumps D and the voters V as arguments.
VotedIn(d, V) == SelectSeq(d.entries, LAMBDA x : x.hash \in V)
DRepStakeOf(D, V, e) ==
  <<D[e].epoch + 1,
    [k \in DOMAIN VotedIn(D[e], V) |-> <<CredType[VotedIn(D[e], V)[k].cred],
                                        VotedIn(D[e], V)[k].hash, VotedIn(D[e], V)[k].stake>>]>>
PoolStakeOf(D, V, e) ==
  <<D[e].epoch + 1,
    [k \in DOMAIN VotedIn(D[e], V) |-> <<VotedIn(D[e], V)[k].hash,
                                        VotedIn(D[e], V)[k].active, VotedIn(D[e], V)[k].live>>]>>

\* The entries drep_state.json and pool_state.json should hold for the
\* first n epochs of the loop.
DS(D, V, n) == [k \in 1..n |-> DRepStakeOf(D, V, FirstEpoch + k - 1)]
PS(D, V, n) == [k \in 1..n |-> PoolStakeOf(D, V, FirstEpoch + k - 1)]

\* The phase of the two files: untouched before the truncation (a crash in
\* the scan loop leaves them so), being written, closed, or left half
\* written by a crash in the epoch loop.
AbsPhase ==
  CASE pc \in {"scan", "open"} -> "idle"
    [] pc = "epochs" -> "writing"
    [] pc \in {"params", "stats", "done"} -> "closed"
    [] pc = "crashed" -> IF ee = FirstEpoch THEN "idle" ELSE "crashed"

\* The two stake files as ConvertAbs describes them: the epochs written are
\* those the loop variable has passed.
AbsConvert == INSTANCE ConvertAbs WITH
  wantD <- DS(drepDump, LogVoters, NEpochs), wantP <- PS(poolDump, LogVoters, NEpochs),
  drep <- out["drep"], pool <- out["pool"], phase <- AbsPhase, n <- ee - FirstEpoch

(***************************************************************************)
(* Over every run, crashed ones included, drep_state.json and             *)
(* pool_state.json change only as ConvertAbs allows: truncated together,  *)
(* then one epoch's comma and entry at a time in range order, with the    *)
(* stake of the log's voters (first_d and first_p put the commas, the     *)
(* whole scan fills all_voters_hash first); a missing dump leaves the     *)
(* DRep file at most one entry ahead of the pool file.                    *)
(***************************************************************************)
ImplementsConvertAbs == AbsConvert!Spec

=============================================================================
