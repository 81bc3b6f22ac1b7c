--------------------------- MODULE MCWeeklyStatus ---------------------------
(***************************************************************************)
(* A repository of three issues, checked on a Wednesday (day 16; day 14    *)
(* is this week's Monday, days 7-13 last week), with two ticks a day.      *)
(***************************************************************************)
EXTENDS WeeklyStatus

MCLabels == {"done", "status: done", "in progress", ""}

\* at(d, h): tick h (0 = morning, 1 = evening) of day d.
at(d, h) == d * 2 + h

Item(kind, repo, state, labs, status, updated, closed, merged) ==
  [kind |-> kind, repo |-> repo, state |-> state, labels |-> labs,
   inProject |-> TRUE, status |-> status, updated |-> updated,
   closed |-> closed, merged |-> merged]

\* Issue 1 closed last Thursday, with both done labels; pull request 2
\* merged this Monday morning; issue 3 in progress, updated yesterday.
Repo1 ==
  1 :> Item("Issue", "this", "closed", {"done", "status: done"}, "Done",
            at(10, 0), at(10, 0), Null)
  @@ 2 :> Item("PullRequest", "this", "closed", {"done"}, "Done",
               at(14, 0), at(14, 0), at(14, 0))
  @@ 3 :> Item("Issue", "this", "open", {"in progress"}, "In Progress",
               at(15, 1), Null, Null)

\* Pull request 2 merged last Friday instead, issue 3 belongs to another
\* repository, and issue 1 was never put on the board.
Repo2 ==
  [Repo1 EXCEPT ![1].inProject = FALSE,
                ![2].updated = at(11, 1), ![2].closed = at(11, 1), ![2].merged = at(11, 1),
                ![3].repo = "other"]

MCRemoteOpts == {Repo1, Repo2}

MCEnvOpts ==
  { [owner |-> TRUE, number |-> TRUE, doneLabels |-> <<>>, ipLabels |-> <<>>],
    [owner |-> FALSE, number |-> FALSE,
     doneLabels |-> <<"done", "", "status: done">>, ipLabels |-> <<"in progress">>],
    [owner |-> TRUE, number |-> FALSE, doneLabels |-> <<"">>, ipLabels |-> <<>>] }

MCProjectOpts ==
  { [found |-> TRUE, listed |-> TRUE, hasStatus |-> TRUE,
     options |-> {"Done", "In Progress", "Todo"}],
    [found |-> TRUE, listed |-> TRUE, hasStatus |-> FALSE, options |-> {}],
    [found |-> FALSE, listed |-> FALSE, hasStatus |-> FALSE, options |-> {}] }

\* The touched run: a configured board whose failure falls back to labels,
\* and the label search alone.
MCStableEnvOpts ==
  { [owner |-> TRUE, number |-> TRUE,
     doneLabels |-> <<"done">>, ipLabels |-> <<"in progress">>],
    [owner |-> FALSE, number |-> FALSE,
     doneLabels |-> <<"done", "", "status: done">>, ipLabels |-> <<"in progress">>] }
=============================================================================
