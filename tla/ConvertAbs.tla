----------------------------- MODULE ConvertAbs -----------------------------
(***************************************************************************)
(* What convert_governance.py promises of drep_state.json and             *)
(* pool_state.json over a run, crashes included.  Both files keep their   *)
(* old content until they are truncated together; from then on each      *)
(* holds '[' and the entries of the epochs done so far, a comma between   *)
(* two, both files growing by one epoch at a time; a finished run closes  *)
(* both lists with ']'.  A run that dies in the epoch loop leaves both    *)
(* files with the comma of the epoch it died in, and the DRep file        *)
(* possibly with that epoch's entry as well, the pool file never.          *)
(*                                                                         *)
(* wantD and wantP are the entries the two files should hold, one per     *)
(* epoch; they are fixed by the inputs and never change.                  *)
(***************************************************************************)
EXTENDS Naturals, Sequences

CONSTANTS Old, Open, Sep, Close, Entry(_)

VARIABLES
  wantD, wantP, \* the DRep and pool entries of the whole range, in order
  drep, pool,   \* the two files, as sequences of list tokens
  phase,        \* "idle", "writing", "closed" or "crashed"
  n             \* the number of epochs written

vars == <<wantD, wantP, drep, pool, phase, n>>

Init ==
  /\ DOMAIN wantD = 1..Len(wantD) /\ DOMAIN wantP = DOMAIN wantD
  /\ drep = <<Old>> /\ pool = <<Old>>
  /\ phase = "idle" /\ n = 0

\* The comma in front of every entry but the first.
Comma == IF n = 0 THEN <<>> ELSE <<Sep>>

\* Both files truncated, each holding '['.
Truncate ==
  /\ phase = "idle"
  /\ drep' = <<Open>> /\ pool' = <<Open>>
  /\ phase' = "writing"
  /\ UNCHANGED <<wantD, wantP, n>>

\* The next epoch written to both files.
Write ==
  /\ phase = "writing" /\ n < Len(wantD)
  /\ drep' = drep \o Comma \o <<Entry(wantD[n + 1])>>
  /\ pool' = pool \o Comma \o <<Entry(wantP[n + 1])>>
  /\ n' = n + 1
  /\ UNCHANGED <<wantD, wantP, phase>>

\* Every epoch written: both lists closed.
Finish ==
  /\ phase = "writing" /\ n = Len(wantD)
  /\ drep' = Append(drep, Close) /\ pool' = Append(pool, Close)
  /\ phase' = "closed"
  /\ UNCHANGED <<wantD, wantP, n>>

\* The run dies while writing the next epoch: after the commas, and
\* before or after the DRep entry.
Crash ==
  /\ phase = "writing" /\ n < Len(wantD)
  /\ drep' \in {drep \o Comma, drep \o Comma \o <<Entry(wantD[n + 1])>>}
  /\ pool' = pool \o Comma
  /\ n' = n + 1
  /\ phase' = "crashed"
  /\ UNCHANGED <<wantD, wantP>>

Next == Truncate \/ Write \/ Finish \/ Crash

Spec == Init /\ [][Next]_vars
=============================================================================
