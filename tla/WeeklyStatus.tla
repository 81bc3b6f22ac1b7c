---------------------------- MODULE WeeklyStatus ----------------------------
(***************************************************************************)
(* scripts/weekly_status_markdown.py: one run of main() against a GitHub  *)
(* repository whose issues may be updated while the script pages through *)
(* them, and whose API calls may fail.                                     *)
(*                                                                         *)
(* The script picks its source of items in the order of lines 427-490: a *)
(* Projects v2 board (discovered when PROJECT_OWNER/PROJECT_NUMBER are    *)
(* not both set), else the issues carrying DONE_LABELS/INPROGRESS_LABELS, *)
(* else the issues updated in the last 14 days split by open/closed.  It   *)
(* then keeps the done items closed or merged last week and the           *)
(* in-progress items updated in the last seven days (lines 492-516).      *)
(*                                                                         *)
(* Time is counted in ticks, DayUnits to a day; day 0 is a Monday.  A     *)
(* missing timestamp (None) is Null.                                       *)
(***************************************************************************)
EXTENDS Integers, Sequences, SequencesExt, FiniteSets

CONSTANTS
  Nums,          \* the numbers of the repository's issues and pull requests
  Labels,        \* label names; "" is an empty entry of a comma list
  PerPage,       \* page size of every listing (per_page / first: 100)
  DayUnits,      \* clock ticks per day
  TodayOpts,     \* the days the script may run on
  RemoteOpts,    \* the possible issues, as functions from Nums
  EnvOpts,       \* the possible environments of the run
  ProjectOpts,   \* the possible Projects v2 boards
  MaxFailures,   \* bound on failed API calls in one run
  MaxTouches     \* bound on updates of issues during one run

ASSUME PageAssumption == PerPage \in Nat \ {0}
ASSUME DayAssumption == DayUnits \in Nat \ {0}
ASSUME BoundsAssumption == MaxFailures \in Nat /\ MaxTouches \in Nat

Null == -1
DoneName == "Done"               \* STATUS_DONE_VALUE default, line 421
InProgressName == "In Progress"  \* STATUS_INPROGRESS_VALUE default, line 422

(***************************************************************************)
(* The clock.  The run takes no time: datetime.now() is the same at lines *)
(* 338, 418 and 510.                                                       *)
(***************************************************************************)
Now(today) == today * DayUnits + (DayUnits - 1)

\* last_week_window, lines 51-61.  this_monday - timedelta(seconds=1) on a
\* date subtracts the timedelta's whole days, which are 0: last_sunday is
\* this_monday.
last_week_window(today) ==
  LET this_monday == today - (today % 7)
      last_monday == this_monday - 7
      last_sunday == this_monday
  IN  [start |-> last_monday * DayUnits, end |-> last_sunday * DayUnits + (DayUnits - 1)]

\* closed_last_week, lines 493-502: merged or closed inside the window.
closed_last_week(it, w) ==
  \E k \in {"mergedAt", "closedAt"} : it[k] # Null /\ w.start <= it[k] /\ it[k] <= w.end

\* updated_recent, lines 504-510: timedelta.days floors the difference.
updated_recent(it, today, days) ==
  it.updatedAt # Null /\ (Now(today) - it.updatedAt) \div DayUnits <= days

(***************************************************************************)
(* The dicts the three fetchers build for an issue (lines 278-286,        *)
(* 315-319, 365-375).  Only the state path records "state".               *)
(***************************************************************************)
ProjectEntry(n, i) ==
  [num |-> n, type |-> i.kind, closedAt |-> i.closed, mergedAt |-> i.merged,
   updatedAt |-> i.updated, state |-> "absent"]
LabelEntry(n, i) ==
  [num |-> n, type |-> i.kind, closedAt |-> i.closed, mergedAt |-> Null,
   updatedAt |-> i.updated, state |-> "absent"]
StateEntry(n, i) == [LabelEntry(n, i) EXCEPT !.state = i.state]

(***************************************************************************)
(* What the GitHub API lists.  Project items keep their position on the   *)
(* board and are read through a cursor; the REST issue list is cut into   *)
(* numbered pages of a list sorted at the time of each request: by        *)
(* creation (newest first) for the label search, by update time (newest  *)
(* first) for the state search, which only lists issues updated since     *)
(* its `since`.                                                            *)
(***************************************************************************)
\* The REST issue list of this repository holds its issues and pull
\* requests; a board may also hold drafts and other repositories' items.
Listed(i) == i.kind \in {"Issue", "PullRequest"} /\ i.repo = "this"
SortedNums(S, Before(_, _)) == SortSeq(SetToSeq(S), Before)
BoardItems(r) == SortedNums({n \in Nums : r[n].inProject}, LAMBDA a, b : a < b)
Page(s, p) == SubSeq(s, (p - 1) * PerPage + 1, Min({p * PerPage, Len(s)}))
LabelListing(r, lab) ==
  SortedNums({n \in Nums : lab \in r[n].labels /\ Listed(r[n])},
             LAMBDA a, b : a > b)
StateListing(r, since) ==
  SortedNums({n \in Nums : r[n].updated >= since /\ Listed(r[n])},
             LAMBDA a, b : r[a].updated > r[b].updated
                           \/ (r[a].updated = r[b].updated /\ a > b))

\* The de-duplication of search_by_labels, lines 323-327: one entry per
\* number, in the order numbers first appear, holding the last entry seen.
Dedup(s) ==
  LET firsts == SelectSeq([i \in DOMAIN s |-> i],
                          LAMBDA i : \A j \in 1..(i - 1) : s[j].num # s[i].num)
      last(n) == s[Max({j \in DOMAIN s : s[j].num = n})]
  IN  [k \in DOMAIN firsts |-> last(s[firsts[k]].num)]

\* Line 474: empty entries of the comma-separated list are dropped.
NonEmpty(labs) == SelectSeq(labs, LAMBDA l : l # "")

\* The project's wanted status options, line 198.
Wanted(proj) == proj.options \cap {DoneName, InProgressName}

-----------------------------------------------------------------------------
VARIABLES
  remote,     \* the repository's issues and the project board, on GitHub
  env,        \* the environment variables of the run
  project,    \* the Projects v2 board PROJECT_OWNER/PROJECT_NUMBER name
  today,      \* datetime.now().date(), line 418
  pc,         \* where main() is
  tryProj,    \* try_projects, line 451
  page,       \* the page number, or the cursor counted in pages
  labq,       \* the labels search_by_labels has still to query
  phase,      \* which label list is being searched (lines 479-480)
  buf,        \* the items the running fetcher has collected
  buckets,    \* results of items_by_status_from_project, line 200
  doneItems,  \* done_items
  ipItems,    \* inprog_items
  source,     \* the source done_items and inprog_items came from
  report,     \* achievements and plans, lines 513-516
  fails,      \* API calls failed so far
  touches     \* issues updated by others so far

vars == <<remote, env, project, today, pc, tryProj, page, labq, phase, buf,
          buckets, doneItems, ipItems, source, report, fails, touches>>

Init ==
  /\ remote \in RemoteOpts
  /\ env \in EnvOpts
  /\ project \in ProjectOpts
  /\ today \in TodayOpts
  /\ pc = "discover"
  /\ tryProj = FALSE
  /\ page = 0
  /\ labq = <<>>
  /\ phase = "done"
  /\ buf = <<>>
  /\ buckets = [s \in {DoneName, InProgressName} |-> <<>>]
  /\ doneItems = <<>>
  /\ ipItems = <<>>
  /\ source = "none"
  /\ report = [ach |-> <<>>, plans |-> <<>>]
  /\ fails = 0
  /\ touches = 0

\* An API call raises (HTTP error, timeout, GraphQL errors).
Fail == fails < MaxFailures /\ fails' = fails + 1

(***************************************************************************)
(* Lines 427-451: use the configured project, or discover_projects (which *)
(* swallows its own failure and returns []) and take the first one.       *)
(***************************************************************************)
Discover ==
  /\ pc = "discover"
  /\ \/ /\ env.owner /\ env.number
        /\ tryProj' = TRUE /\ UNCHANGED fails
     \/ /\ ~(env.owner /\ env.number)
        /\ tryProj' = project.listed /\ UNCHANGED fails
     \/ /\ ~(env.owner /\ env.number)
        /\ Fail /\ tryProj' = FALSE
  /\ pc' = IF tryProj' THEN "fields" ELSE "fallback"
  /\ UNCHANGED <<remote, env, project, today, page, labq, phase, buf, buckets,
                 doneItems, ipItems, source, report, touches>>

(***************************************************************************)
(* get_project_and_status_field, lines 172-188, inside the try of line    *)
(* 454: a failed call, a missing project or a missing Status field sends  *)
(* main() to the fallback (line 466).                                      *)
(***************************************************************************)
Fields ==
  /\ pc = "fields"
  /\ \/ /\ Fail
        /\ pc' = "fallback" /\ tryProj' = FALSE /\ UNCHANGED page
     \/ /\ ~(project.found /\ project.hasStatus)
        /\ pc' = "fallback" /\ tryProj' = FALSE /\ UNCHANGED <<page, fails>>
     \/ /\ project.found /\ project.hasStatus
        /\ pc' = "board" /\ page' = 1 /\ UNCHANGED <<fails, tryProj>>
  /\ UNCHANGED <<remote, env, project, today, labq, phase, buf, buckets,
                 doneItems, ipItems, source, report, touches>>

\* An item the loop of lines 248-286 keeps: a wanted Status, an issue or a
\* pull request, of this repository.
Keep(i) ==
  /\ i.status \in Wanted(project)
  /\ i.kind \in {"Issue", "PullRequest"}
  /\ i.repo = "this"

(***************************************************************************)
(* One page of items_by_status_from_project, lines 245-293; the buckets   *)
(* become done_items and inprog_items when the last page is read (lines   *)
(* 461-462).  A failure drops the buckets and falls back.                  *)
(***************************************************************************)
BoardPage ==
  /\ pc = "board"
  /\ \/ /\ Fail
        /\ pc' = "fallback" /\ tryProj' = FALSE
        /\ UNCHANGED <<page, buckets, doneItems, ipItems, source>>
     \/ LET items == Page(BoardItems(remote), page)
            kept(s) == SelectSeq(items, LAMBDA n : Keep(remote[n]) /\ remote[n].status = s)
            nb == [s \in DOMAIN buckets |->
                     buckets[s] \o [k \in DOMAIN kept(s) |-> ProjectEntry(kept(s)[k], remote[kept(s)[k]])]]
        IN  /\ buckets' = nb
            /\ UNCHANGED <<fails, tryProj>>
            /\ IF page * PerPage < Len(BoardItems(remote))
               THEN page' = page + 1 /\ UNCHANGED <<pc, doneItems, ipItems, source>>
               ELSE /\ doneItems' = nb[DoneName] /\ ipItems' = nb[InProgressName]
                    /\ source' = "project" /\ pc' = "filter" /\ UNCHANGED page
  /\ UNCHANGED <<remote, env, project, today, labq, phase, buf, report, touches>>

\* Mutant: the empty entries of the label lists are kept.
Fallback_unfiltered ==
  /\ pc = "fallback"
  /\ LET d == env.doneLabels
         p == env.ipLabels
     IN  IF d # <<>> \/ p # <<>>
         THEN pc' = "labels" /\ labq' = d
         ELSE pc' = "state" /\ UNCHANGED labq
  /\ page' = 1 /\ buf' = <<>> /\ phase' = "done"
  /\ UNCHANGED <<remote, env, project, today, tryProj, buckets, doneItems,
                 ipItems, source, report, fails, touches>>

\* Lines 468-490: the label search if any label is configured, else the
\* state search.
Fallback ==
  /\ pc = "fallback"
  /\ LET d == NonEmpty(env.doneLabels)
         p == NonEmpty(env.ipLabels)
     IN  IF d # <<>> \/ p # <<>>
         THEN pc' = "labels" /\ labq' = d
         ELSE pc' = "state" /\ UNCHANGED labq
  /\ page' = 1 /\ buf' = <<>> /\ phase' = "done"
  /\ UNCHANGED <<remote, env, project, today, tryProj, buckets, doneItems,
                 ipItems, source, report, fails, touches>>

\* Mutant: a full page is taken for the last one (`<=` for `<`).
LabelPage_stop_full ==
  /\ pc = "labels" /\ labq # <<>>
  /\ \/ /\ Fail /\ pc' = "crashed" /\ UNCHANGED <<labq, page, buf>>
     \/ LET res == Page(LabelListing(remote, Head(labq)), page)
        IN  /\ buf' = buf \o [k \in DOMAIN res |-> LabelEntry(res[k], remote[res[k]])]
            /\ IF Len(res) <= PerPage
               THEN labq' = Tail(labq) /\ page' = 1
               ELSE page' = page + 1 /\ UNCHANGED labq
            /\ UNCHANGED <<pc, fails>>
  /\ UNCHANGED <<remote, env, project, today, tryProj, phase, buckets,
                 doneItems, ipItems, source, report, touches>>

(***************************************************************************)
(* One page of search_by_labels, lines 300-322.  Its failure is not       *)
(* caught: main() dies.                                                   *)
(***************************************************************************)
LabelPage ==
  /\ pc = "labels" /\ labq # <<>>
  /\ \/ /\ Fail /\ pc' = "crashed" /\ UNCHANGED <<labq, page, buf>>
     \/ LET res == Page(LabelListing(remote, Head(labq)), page)
        IN  /\ buf' = buf \o [k \in DOMAIN res |-> LabelEntry(res[k], remote[res[k]])]
            /\ IF Len(res) < PerPage
               THEN labq' = Tail(labq) /\ page' = 1
               ELSE page' = page + 1 /\ UNCHANGED labq
            /\ UNCHANGED <<pc, fails>>
  /\ UNCHANGED <<remote, env, project, today, tryProj, phase, buckets,
                 doneItems, ipItems, source, report, touches>>

\* The end of a search_by_labels call (lines 323-327) and the next call
\* of lines 479-480.
LabelsDone ==
  /\ pc = "labels" /\ labq = <<>>
  /\ IF phase = "done"
     THEN /\ doneItems' = Dedup(buf) /\ phase' = "ip"
          /\ labq' = NonEmpty(env.ipLabels) /\ buf' = <<>> /\ page' = 1
          /\ UNCHANGED <<pc, ipItems, source>>
     ELSE /\ ipItems' = Dedup(buf) /\ source' = "labels" /\ pc' = "filter"
          /\ UNCHANGED <<doneItems, phase, labq, buf, page>>
  /\ UNCHANGED <<remote, env, project, today, tryProj, buckets, report, fails,
                 touches>>

\* The `since` of get_recent_issues_by_state(days=14), lines 338-339.
Since(d) == Now(d) - 14 * DayUnits

\* Mutant: a full page is taken for the last one.
StatePage_stop_full ==
  /\ pc = "state"
  /\ \/ /\ Fail /\ pc' = "crashed"
        /\ UNCHANGED <<page, buf, doneItems, ipItems, source>>
     \/ LET res == Page(StateListing(remote, Since(today)), page)
            all == buf \o [k \in DOMAIN res |-> StateEntry(res[k], remote[res[k]])]
        IN  /\ buf' = all
            /\ UNCHANGED fails
            /\ IF Len(res) <= PerPage
               THEN /\ doneItems' = SelectSeq(all, LAMBDA it : it.state = "closed")
                    /\ ipItems' = SelectSeq(all, LAMBDA it : it.state = "open")
                    /\ source' = "state" /\ pc' = "filter" /\ UNCHANGED page
               ELSE page' = page + 1 /\ UNCHANGED <<pc, doneItems, ipItems, source>>
  /\ UNCHANGED <<remote, env, project, today, tryProj, labq, phase, buckets,
                 report, touches>>

(***************************************************************************)
(* One page of get_recent_issues_by_state, lines 341-381, then the split  *)
(* by state of lines 489-490.  A failure is not caught.                    *)
(***************************************************************************)
StatePage ==
  /\ pc = "state"
  /\ \/ /\ Fail /\ pc' = "crashed"
        /\ UNCHANGED <<page, buf, doneItems, ipItems, source>>
     \/ LET res == Page(StateListing(remote, Since(today)), page)
            all == buf \o [k \in DOMAIN res |-> StateEntry(res[k], remote[res[k]])]
        IN  /\ buf' = all
            /\ UNCHANGED fails
            /\ IF Len(res) < PerPage
               THEN /\ doneItems' = SelectSeq(all, LAMBDA it : it.state = "closed")
                    /\ ipItems' = SelectSeq(all, LAMBDA it : it.state = "open")
                    /\ source' = "state" /\ pc' = "filter" /\ UNCHANGED page
               ELSE page' = page + 1 /\ UNCHANGED <<pc, doneItems, ipItems, source>>
  /\ UNCHANGED <<remote, env, project, today, tryProj, labq, phase, buckets,
                 report, touches>>

\* Lines 492-516: achievements and plans.  format_markdown (lines 383-408)
\* only sorts and prints them.
Filter ==
  /\ pc = "filter"
  /\ report' =
       [ach |-> SelectSeq(doneItems, LAMBDA it : closed_last_week(it, last_week_window(today))),
        plans |-> SelectSeq(ipItems, LAMBDA it : it.state = "open" /\ updated_recent(it, today, 7))]
  /\ pc' = "done"
  /\ UNCHANGED <<remote, env, project, today, tryProj, page, labq, phase, buf,
                 buckets, doneItems, ipItems, source, fails, touches>>

\* Somebody comments on an issue while the script runs: its update time
\* becomes now.
Touch ==
  /\ pc \notin {"done", "crashed"}
  /\ touches < MaxTouches
  /\ \E n \in Nums : remote' = [remote EXCEPT ![n].updated = Now(today)]
  /\ touches' = touches + 1
  /\ UNCHANGED <<env, project, today, pc, tryProj, page, labq, phase, buf,
                 buckets, doneItems, ipItems, source, report, fails>>

\* main() has printed the report, or died.
Finished == pc \in {"done", "crashed"} /\ UNCHANGED vars

Run == Discover \/ Fields \/ BoardPage \/ Fallback \/ LabelPage \/ LabelsDone
       \/ StatePage \/ Filter

Next == Run \/ Touch \/ Finished

\* The script runs to the end unless a call fails; every call returns
\* (requests' timeout=60).
Spec == Init /\ [][Next]_vars /\ WF_vars(Run)

-----------------------------------------------------------------------------
(***************************************************************************)
(* Properties.                                                             *)
(***************************************************************************)
Kinds == {"Issue", "PullRequest", "DraftIssue"}
Time == {Null} \cup Nat
IssueType ==
  [kind: Kinds, repo: {"this", "other"}, state: {"open", "closed"},
   labels: SUBSET Labels, inProject: BOOLEAN,
   status: {DoneName, InProgressName, "Todo", "none"},
   updated: Nat, closed: Time, merged: Time]
EntryType ==
  [num: Nums, type: Kinds, closedAt: Time, mergedAt: Time, updatedAt: Nat,
   state: {"open", "closed", "absent"}]

\* Every variable holds a value of its type; the label lists searched hold
\* no empty label.
TypeOK ==
  /\ remote \in [Nums -> IssueType]
  /\ pc \in {"discover", "fields", "board", "fallback", "labels", "state",
             "filter", "done", "crashed"}
  /\ tryProj \in BOOLEAN
  /\ page \in Nat
  /\ labq \in Seq(Labels \ {""})
  /\ phase \in {"done", "ip"}
  /\ buf \in Seq(EntryType)
  /\ buckets \in [{DoneName, InProgressName} -> Seq(EntryType)]
  /\ doneItems \in Seq(EntryType) /\ ipItems \in Seq(EntryType)
  /\ source \in {"none", "project", "labels", "state"}
  /\ report \in [ach: Seq(EntryType), plans: Seq(EntryType)]
  /\ fails \in 0..MaxFailures /\ touches \in 0..MaxTouches

\* What each source counts as done, or in progress (lines 198 and 256-276,
\* 300-304, 486-490), and the entry it makes of an issue.
CountedAs(src, n, status, labs, st) ==
  LET i == remote[n] IN
  CASE src = "project" -> i.inProject /\ Keep(i) /\ i.status = status
    [] src = "labels"  -> Listed(i) /\ \E k \in DOMAIN NonEmpty(labs) : NonEmpty(labs)[k] \in i.labels
    [] src = "state"   -> Listed(i) /\ i.updated >= Since(today) /\ i.state = st
    [] OTHER           -> FALSE
DoneBy(n) == CountedAs(source, n, DoneName, env.doneLabels, "closed")
InProgressBy(n) == CountedAs(source, n, InProgressName, env.ipLabels, "open")
EntryOf(n) ==
  CASE source = "project" -> ProjectEntry(n, remote[n])
    [] source = "labels"  -> LabelEntry(n, remote[n])
    [] OTHER              -> StateEntry(n, remote[n])
NumsOf(s) == {s[k].num : k \in DOMAIN s}

(***************************************************************************)
(* The report lists every issue its source counts as done and that was    *)
(* closed or merged in the report's window, each exactly once, whatever   *)
(* the page size, the failures the fallback absorbs, and the page on      *)
(* which an issue falls (the three pagination loops, lines 245-291,       *)
(* 300-327 and 341-379).                                                   *)
(***************************************************************************)
AchievementsComplete ==
  pc = "done" =>
    /\ NumsOf(report.ach) =
         {n \in Nums : DoneBy(n) /\ closed_last_week(EntryOf(n), last_week_window(today))}
    /\ \A j, k \in DOMAIN report.ach : report.ach[j].num = report.ach[k].num => j = k

(***************************************************************************)
(* The docstring (lines 4-5, 25) and the comment of line 515: the plans   *)
(* list the items in progress that were updated recently.                  *)
(***************************************************************************)
PlansReported ==
  pc = "done" =>
    \A n \in Nums : InProgressBy(n) /\ updated_recent(EntryOf(n), today, 7)
                      => n \in NumsOf(report.plans)

=============================================================================
