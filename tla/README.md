# Formal models of the acropolis snapshot tooling

This directory holds TLA+ models of the Python tooling that lives under `src/`
in this repository, the TLC configurations that model-check them, and TLAPS
proofs of their main safety properties.

## The system

The sources under `src/` are small programs that run around the Rust node. They
do not share state with it:

| part | source | what it does |
|---|---|---|
| manifest generator | `scripts/generate_manifest.py` | stats a CBOR snapshot, reads its synthetic header (or falls back to the file name and the command-line flags), hashes the file in chunks, prints a JSON manifest |
| fixture writer | `scripts/generate_cbor_fixtures.py` | writes the five synthetic snapshots the Rust tests and the manifest generator read |
| weekly status report | `scripts/weekly_status_markdown.py` | pages through the GitHub API (project, labels or issue state), buckets the items and prints a Markdown report for last week |
| Conway sync-db checker | `modules/governance_state/data/check_conway_syncdb.py` | splits CSV lines with a quote-aware comma screener, loads the DB-sync dump into a dict and compares the acropolis dump against it |
| governance converter | `modules/governance_state/data/convert_governance.py` | turns an execution log and DRep/pool stake dumps into per-epoch JSON lists of votes, DRep and pool stake, parameters and pool statistics |
| rename-governance | `processes/replayer/rename-governance.py` | copies dumped JSON files to sequentially numbered names |
| MCP test clients | `scripts/test_mcp_server.py`, `scripts/test_mcp_standalone.py` | send JSON-RPC requests to the MCP server and print the answers |

`spec.md` describes the snapshot format, the Rust stream decoder and
invariant validator (not under `src/`), and the manifest contract.

The manifest generator and the fixture writer interact through the file
system: both use the same `tests/fixtures/*.cbor` paths, and `make` regenerates
fixtures and manifests. Nothing in either program locks the file.

## Modules

### `Manifest` (generate_manifest.py, generate_cbor_fixtures.py)

State:

| variable | code |
|---|---|
| `args` | the parsed command line: file name, `--era`, `--block-hash`, `--block-height`, and the chunk size of `compute_sha256` |
| `disk` | the snapshot file: whether it exists, its bytes, and what `cbor2.load` makes of them (list or not, length, version, header map) |
| `pc` | where `generate_manifest` is: `stat`, `parse`, `read`, `done`, `error` |
| `size` | `size_bytes` from `stat()` (line 121) |
| `header`, `fields` | the result of `parse_cbor_header` and the fields chosen from it or from the fallback (lines 124-137) |
| `hasher`, `pos` | the bytes hashed so far and the file offset of the read loop (lines 35-41) |
| `manifest` | the dict of lines 143-153 |
| `wpc`, `wtarget` | the fixture writer: idle, writing or done, and the fixture it writes |

Python values are tagged records (`None`, `PyInt`, `PyStr`, `PyBytes`) so
that truthiness (`Truthy`, `PyOr`) follows Python: `0`, `""` and `b""` are
false. Strings are sequences over a constant alphabet `Chars`; `.lower()`,
`.hex()` and the hex-digit test are modelled by what they do.

Actions:
- `Stat` models `exists()` and `stat()` (lines 118-121). A missing file ends in
  the error `main()` prints.
- `Parse` models `parse_cbor_header` (lines 44-91) and the choice of fields
  (lines 124-137). It includes the ceiling, the `try` around `cbor2.load`, the
  shape tests, and the `.hex()` and `> 0` that raise outside the `try`.
- `Read` is one iteration of the `compute_sha256` loop. The last iteration
  builds the manifest.
- `WriterOpen` and `WriterDump` model `write_cbor_fixture`:
  - `open(path, 'wb')` truncates the file;
  - `cbor2.dump` appends one byte per step, since the buffered writer may flush
    at any point.

The chunk size is a constant set. The code's fixed 16 MiB is one point of a
property that must hold for every chunk size.

Runs (`MCManifest` instantiates the module):
- `MCManifest.cfg` (pass) has 11 files, 6 names, the flag values `None`, `0`,
  `42`, `''` and mixed-case hashes, chunk sizes 1 and 3, and a ceiling of 3
  bytes. The files:
  - the five fixtures of `generate_cbor_fixtures.py`, reduced to their header
    fields;
  - a file at the ceiling and one above it;
  - bytes that are not CBOR, and an empty file;
  - a header whose hash is a text string;
  - a version-2 envelope;
  - a list whose second element is not a map;
  - a missing file.

  It checks:
  - `TypeOK` (checked in this run only);
  - `ManifestFromHeader`: the manifest's era, height, hash and governance flag
    come from a readable header, and the governance flag is false otherwise;
  - `DigestMatchesFile`: sha256 and size describe the whole file.

  It reaches 23,544 distinct states.
- `MCManifest_writer_live.cfg` (pass) adds the fixture writer. It checks
  `Terminates`, i.e. that the call returns, under weak fairness of the
  generator's steps and of the writer's dump.
- `MCManifest_overrides.cfg` (violation of `OverridesWin`): spec section
  4.5 step 2 says that the command-line overrides always win over the
  header. Lines 129-131 combine them with `or`, so `--block-height 0` and
  `--era ''` are falsy and the header's value (or the fallback) is written
  instead.

Reading the `Parse` action against the spec turns up four more
disagreements. The model reaches each of them, but no run checks them (they
are listed as hazards in `PROJECT.json`):
- `.hex()` on a text block hash raises outside the `try` (line 80), so an
  existing file ends in an error;
- `-5.ab.cbor` gives height -5 (line 101);
- a version-2 envelope is accepted (line 63);
- the fallback hash `unknown` is not hex (line 130).

Bounds: files of at most 4 bytes with a ceiling of 3, which puts one file at
the ceiling and one above it. With chunk sizes 1 and 3, a 3-byte file is read
either in full chunks or with a short last chunk, and a 4-byte file with a
short last chunk. The fixture writer's target is 2 bytes long, so it can be
caught after the truncation, between bytes, and after the end.

Fairness: `generate_manifest` never waits on anything but reads of a local
file, so its steps are weakly fair. The writer, once it has opened the file,
finishes its dump. Opening is not fair: the writer may never run.

Proofs (`ManifestProofs`):
- `TypeCorrect`: `Spec => []TypeOK` for every value of the constants that
  satisfies the module's assumptions. `TypeOK` is not inductive alone. A
  writer's step leaves a file of the file type only while the writer has not
  written all of its target, so the inductive invariant adds
  `WriterProgress`. The proof rests on lemmas about the conversions
  (`LowerType`, `HexType`), `parse_cbor_header` (`ParseType`), the field
  selection (`SelectType`) and partial writes (`TruncatedType`).
- `DigestCorrect`: with no writer, `Spec => []DigestMatchesFile` for every
  chunk size and file. The inductive invariant `DigestInv` says four things:
  - the writer stays idle;
  - the size from `stat()` is the file's length;
  - while reading, `hasher` is the prefix `SubSeq(file, 1, pos)`;
  - a finished manifest carries the whole file.

  Each loop step concatenates the adjacent subsequence
  `pos+1..ChunkEnd`. `ChunkStep` proves that an empty chunk is read exactly
  at the end of the file.

- `HeaderCorrect`: with no writer, `Spec => []ManifestFromHeader` for every
  ceiling, file, name and flag value.
  - `HeaderFields` shows two things about `parse_cbor_header` on a file of
    the file type. It returns a dict exactly when the file is
    `HeaderReadable`, and `SelectFields` then copies the header's era,
    height and hash. On every other file the flag stays FALSE.
  - `GovernanceFlag` and `CountPositiveVal` show that line 83's `or` chain
    sets the flag exactly when key 4 or key 5 holds a positive int.
  - The inductive invariant `HeaderInv`, on top of `DigestInv`, records
    that `header` is still the parse of the unchanged file and that
    `fields` and the manifest are selected from it. `DigestInv` already
    says that the size passed to `parse_cbor_header` is the file's length.

Only model-checked: `Terminates`, because liveness is out of TLAPS's reach.

### `WeeklyStatus` (weekly_status_markdown.py)

One run of `main()` against a repository whose issues other people may
update while the script pages through them, and whose API calls may fail.

State:

| variable | code |
|---|---|
| `remote` | the repository's issues and pull requests and their place on the board: kind, repository, state, labels, Status, update, close and merge times |
| `env`, `project`, `today` | the environment variables (lines 421-451), the configured board, `datetime.now().date()` |
| `pc` | where `main()` is: discover, fields, board, fallback, labels, state, filter, done, crashed |
| `page`, `labq`, `phase`, `buf` | the page or cursor, the labels still to query, which label list is searched, the items collected so far |
| `buckets`, `doneItems`, `ipItems`, `source` | the project buckets (line 200), `done_items`, `inprog_items`, and the fetcher they came from |
| `report` | achievements and plans (lines 513-516) |
| `fails`, `touches` | API failures and outside updates so far, each bounded |

Time is counted in ticks, with `DayUnits` ticks to a day. The window
arithmetic is modelled by what Python does. In particular,
`this_monday - timedelta(seconds=1)` on a `date` subtracts whole days only,
so it leaves the date unchanged. The window therefore ends at the end of
this Monday, not of last Sunday as the docstring (line 23) says, and an item
closed this Monday is reported as last week's. An earlier version of the
project checked this with its own violation run. The arithmetic is kept in
`last_week_window`, but no run checks it now; it is listed as a hazard.

Actions:
- `Discover`: project discovery (lines 427-451);
- `Fields`: `get_project_and_status_field` (172-188);
- `BoardPage`: one page of `items_by_status_from_project` (245-293);
- `Fallback`: the choice of fallback (468-490);
- `LabelPage` and `LabelsDone`: `search_by_labels`, a page at a time, then
  its de-duplication (300-327);
- `StatePage`: one page of `get_recent_issues_by_state` and the split by
  state (341-381, 489-490);
- `Filter`: the final filters (492-516);
- `Touch`: an outside comment that moves an issue's update time to now.

A failed call is a nondeterministic `Fail`, bounded by `MaxFailures`. The
project path catches it and falls back. The label and state paths do not
catch it, so `main()` dies.

Runs (`MCWeeklyStatus`). Every run has 3 items (an issue closed last week, a
pull request merged this Monday, an open issue in progress), two
repositories (one where items leave the board or belong elsewhere), three
environments, three boards (good, without Status, missing), days 14, 16 and
20 (a Monday, a Wednesday, a Sunday), 2 ticks a day and one failure:
- `MCWeeklyStatus.cfg` (pass, page size 2, no outside updates):
  - `TypeOK`;
  - `AchievementsComplete`: every item the chosen source counts as done and
    closed in the window is reported exactly once.
- `MCWeeklyStatus_stable.cfg` (pass, page size 1, up to 2 outside updates,
  the project and label paths): `AchievementsComplete`. Page size 1 puts every
  item on a page of its own, so the boundary cases of each loop happen.
- `MCWeeklyStatus_touched.cfg` (violation of `AchievementsComplete`): the
  state path pages over a list sorted by update time. An issue updated
  between two pages moves to page 1 and is never read, and the issue it
  pushes across the boundary is read twice.
- `MCWeeklyStatus_PlansReported.cfg` (violation): plans require
  `state == "open"`, which only the state path records. Label and project
  items never become plans.

No liveness property is checked here. Every loop walks a finite listing
and advances its page or cursor on each step, so a bug that stopped it
would make the model's state space unbounded rather than show a lasso. The
specification keeps weak fairness of the script's steps (every request has
`timeout=60`, so each call returns or fails); outside updates are not fair
and are bounded.

### `Csv`, `ScreenStrings` (check_conway_syncdb.py, `screen_strings`)

`Csv` holds pure operators:
- `Screened`: the closed form of `screen_strings`. A comma becomes `;` when
  the number of positions at which a quote is followed by a non-quote is
  odd.
- `Split`: `str.split(',')`.
- `CsvScreen`: the reference. A comma lies inside a quoted field when an odd
  number of quotes precede it (RFC 4180, where a quote inside a field is
  written twice).

Characters are string tokens. The quote, space, comma and semicolon are the
tokens `"dq"`, `"sp"`, `"comma"` and `"semicolon"`, because the prover's SMT
encoding does not accept punctuation literals.

`ScreenStrings` runs the loop itself, one iteration (`Step`) per character,
on every line of a constant set.

Runs (`MCScreenStrings`). Lines are three CSV fields chosen from:
- a bare word;
- an empty field;
- a quoted word;
- a quoted field with a comma;
- for the violation run only, an empty quoted field `""` and a quoted field
  with an escaped quote.

The runs:
- `MCScreenStrings.cfg` (pass): `ScreenIsScreened` (once the whole line is
  read, the loop has returned `Screened`) and `ScreenMatchesCsv` (on these
  lines it screens exactly the quoted commas).
- `MCScreenStrings_escaped.cfg` (violation of `ScreenMatchesCsv`):
  `,"",` comes out as `,"";`. Two adjacent quotes flip `inside` once where
  CSV flips it twice.

Proofs (`ScreenProofs`), for every alphabet and every line:
- `ScreenIsScreenedThm`: `Spec => []ScreenIsScreened`.
- `ScreenMatchesCsvThm`: if no line has two adjacent quotes,
  `Spec => []ScreenMatchesCsv`.
- `ScreenTypeThm`: `Spec => []TypeOK`, a conjunct of `LoopInv`. No run
  checks `TypeOK` here; the theorem covers it.

The inductive invariant `LoopInv` says that after `ptr-1` iterations:
- `out` is the prefix of `Screened(line)`, and, on such lines, of
  `CsvScreen(line)`;
- `prev` is the last character read;
- `inside` is the parity of the flips so far, which on such lines is the
  parity of the quotes before the last character.

The step rests on:
- `InsideStep` and `QuoteStep`: how the two parities change by one position.
- `ParityAdd`: adding a new element to a finite set flips the parity of its
  size, proved from `FS_AddElement`.

### `ConwayCheck` (check_conway_syncdb.py, lines 25-89)

The whole script:
- `DbLine`: one iteration of the DB-sync loop (42-55). A line is screened,
  stripped and split. A line whose field count differs from the header's,
  or the header itself, is skipped. Otherwise the tuple is appended under
  (hash without `\x`, index).
- `AcroLine`: one iteration of the acropolis loop (63-87). It covers the
  rejection of short lines, the header, the lookup and `Compare`. `Compare`
  reports the comparisons in order, `InfoAction` mapped to `Information`,
  and dies with `IndexError` when it reads `sl[14]` on a 14-field line.
- `DbDone`, `AcroDone`, `Exited`: the ends of the loops and of the script.

`screen_strings` is `Screened`, which `ScreenProofs` shows the loop
returns. Printing is a set of reports.

Runs (`MCConwayCheck`). The DB-sync files have one or two rows out of four:
- an `InfoAction` row;
- a row with a quoted description containing a comma;
- the same with an empty quoted description;
- the same with an escaped quote.

The acropolis files have one or two records out of four:
- two that agree with the rows above;
- one with another ratified epoch;
- one with another dropped epoch.

The runs:
- `MCConwayCheck.cfg` (pass): `TypeOK` and `NoReportMeansAgreement`. When the
  script ends without printing anything, every acropolis record agrees with
  a DB row, as a CSV reader parses that row, on type and on the ratified,
  enacted and expired epochs. The quote bug skips the rows with `""`. Their
  proposals are then reported as not found, so the script is never silently
  wrong about them. The run also reaches a record that differs only in its
  dropped epoch and is not reported: the script unpacks `de` and never
  compares it.
- `MCConwayCheck_short.cfg` (violation of `NoCrash`): a 14-field acropolis
  line passes `len(sl) < 14` and the script dies reading `sl[14]`.

Two modelling choices serve the proof below. A key seen for the first
time is added with `AddKey(dict, k, v)`, the explicit form of
`dict @@ (k :> v)`, because the provers cannot expand TLC's `@@` and `:>`.
`FilesAssumption` says that both dumps are sequences of lines, as
`file.readlines()` returns them.

`ConwayProofs` proves `NoReportThm`: `Spec => []NoReportMeansAgreement`,
under the hypothesis `ScreensAsCsv`. The hypothesis says that the script's
own splitting of every line of the two dumps gives what a CSV reader gives.
`ScreenMatchesCsvThm` proves that for every line without two adjacent
quotes. The hypothesis is needed because of the quote bug: with `""` inside
a quoted field, the two splits differ (the run's rows D3 and D4), and the
property compares with the CSV reader's split. The run checks the property
without the hypothesis.

The inductive invariant `ConwayInv` is stated with the script's own
`Fields`, so TLC checks it on the run, hypothesis-free. It says:
- The loops' positions agree with the phase.
- Every key of `dict` maps to a non-empty list of tuples. Its first tuple
  comes from a kept DB row among those read so far (`Keyed`), with that
  row's key: right field count, not the header.
- While nothing is reported, every acropolis line compared so far that is
  long enough and is not the header agrees with some kept DB row
  (`Checked`).

The first part is needed because the lookup reads `dict[key][0]`. A report
is avoided only when that tuple matches, so the tuple must be traced back
to a DB row. There is one lemma per loop: `DbLineInv` and `AcroLineInv`.
`CompareAgrees` says that a `Compare` that reports nothing has matched on
every compared field.

### `ConvertGovernance` (convert_governance.py)

The whole script as one sequential state machine:

| variable | code |
|---|---|
| `log`, `drepDump`, `poolDump` | `execution_log.txt` and the `drep-<ee>.json`, `spo-<ee>.json` dumps, drawn from constants; a dump may be `Missing` |
| `pc`, `i`, `ee` | the phase (scan, open, epochs, params, stats, done, crashed), the log line and the epoch of the loops |
| `voters`, `votes`, `params`, `epochData` | `all_voters_hash`, `votes_hash`, `param_hash` (a list of pairs in insertion order, as a dict keeps it) and `epoch_data` |
| `first` | the `first_d`, `first_p`, `first_v` comma flags |
| `out` | the five output files as sequences of list tokens (`Open`, `Close`, `Sep`, `Entry(v)`), `Old` before the truncation |

A log line is a record of the fields the three regular expressions capture.
Hashes stand for their base64 text, and JSON formatting is reduced to the
tokens that make a list well formed.

Actions:
- `Scan`: one iteration of the log loop (lines 37-56). A vote line adds its
  voters, and files `split_votes` under the epoch it reports minus one. An
  NPPX line sets `param_hash`. A statistics line is appended; a committee
  other than 7 ends the script (`sys.exit`, which raises `NameError` since
  `sys` is not imported).
- `OpenFiles`: the truncation of the five files and the three `[` (60-64,
  123-125).
- `Epoch`: one iteration of the epoch loop (129-139) or its end (141-143).
  The commas are written first. A missing DRep dump then crashes the script,
  and a missing pool dump crashes it after the DRep entry is written.
- `Params`, `Stats`: `param_state.json` (145-150), and
  `epoch_pool_stats.json` sorted as tuples (152-158).

Run `MCConvertGovernance.cfg` (pass). It covers 84 logs of up to three lines:
- votes of epochs 1 and 2, and a vote outside the range;
- two NPPX lines for epoch 1 and one for epoch 0;
- out-of-order statistics and a wrong committee size;
- dumps for epochs 1..2, with the epoch-2 dumps present or missing.

It checks:
- `VotesComplete`: `voting_state.json` holds every vote line of the range,
  in epoch and log order, as a well-formed list.
- `StakeOfVoters`: the DRep and pool files hold one entry per epoch (dated
  epoch + 1), with the stake of exactly the dump entries whose hash voted
  anywhere in the log. This is what the one global `all_voters_hash` does:
  a voter of a later epoch, or of another kind, also passes the filter.
- `ParamsLastWins`: the parameter file holds each epoch once, in the order
  it first appears, with its last value.

The crash states are reached: truncated files, and a DRep file one entry
ahead of the pool file. The code promises nothing about the parameter and
statistics files after a crash. For the two stake files, the run also
checks `ImplementsConvertAbs`, the refinement below. Fairness: weak fairness of `Next`, since the
script is sequential and only reads local files.

The properties compare a file with `Listed(xs)`: `[`, then the entries of
`xs` separated by commas, then `]`. It is written in closed form (`Body`:
position 1 is `[`, even positions are entries, odd ones are commas), not as
a flattening, so that TLAPS can reason about it. The run checks both forms
against each other: the actions still build the files with `FlattenSeq`.

The module assumes two things:
- `EpochAssumption`: the range is empty or ascending
  (`FirstEpoch <= LastEpoch + 1`), as `range(507, 575)` is.
- `LogsAssumption`: every log is a sequence of lines of the `LogLine` record
  shape.

`ConvertProofs` proves `StakeOfVotersThm`: `Spec => []StakeOfVoters`, for
every range, log and dumps. `StakeOfVoters` is not inductive alone: it says
nothing until `pc = "done"`, and the files are built one epoch at a time. The
inductive invariant `StakeInv` says:
- During the scan, `all_voters_hash` is the union of the voters of the lines
  read so far (`VotersOf(i - 1)`). Once the scan is over, it is the voters of
  the whole log.
- In the epoch loop, the DRep and pool files hold `[` and the entries of the
  epochs done, each after its comma. The entries are computed from the
  log's voters.
- `first_d` and `first_p` are set exactly when an entry was written.
- After the loop, both files are the full `Listed` lists.

The proof has one lemma per action. The main lemma, `BodyStep`, says that
writing a comma (if an entry came before) and one more entry extends `Body`
by one entry. TLC checked `StakeInv` on the run before the proof was
written. The expected lists are written `DS(D, V, n)` and `PS(D, V, n)`,
with the dumps and the voters as arguments. The reason is that the filter
on voters is a `SelectSeq` with a `LAMBDA`, and the provers cannot carry a
prime into a `LAMBDA`. With the arguments explicit, the prime lands on the
arguments, and those are shown unchanged.

### `ConvertAbs`: what the stake files go through

`ConvertAbs` is the abstract specification of `drep_state.json` and
`pool_state.json` over a whole run, crashed runs included. Its variables:
- `wantD`, `wantP`: the expected entries, one per epoch. They are fixed.
- `drep`, `pool`: the two files.
- `phase`: idle, writing, closed or crashed.
- `n`: the number of epochs written.

Its actions:
- `Truncate`: both files become `[`.
- `Write`: both files get the next epoch's comma (none before the first
  entry) and entry.
- `Finish`: once every epoch is written, both files get `]`.
- `Crash`: both files get the comma; the DRep file may also get its entry,
  the pool file never.

`ConvertGovernance` maps itself onto it with `AbsConvert == INSTANCE
ConvertAbs WITH ...`:
- `wantD` and `wantP` are `DS` and `PS` of the whole range, with the log's
  voters;
- `drep` and `pool` are `out["drep"]` and `out["pool"]`;
- `n` is `ee - FirstEpoch`;
- `phase` is `AbsPhase`. A crash in the scan loop maps to idle, since the
  files still hold their old content. A crash in the epoch loop maps to
  crashed.

The expected lists are variables of `ConvertAbs`, not constants, because
they depend on the log and the dumps, which are state. The property
`ImplementsConvertAbs == AbsConvert!Spec` is checked on the run. Against
`StakeOfVoters` it adds the intermediate and crash states:
- the files are truncated together;
- the comma flags give exactly one comma between two entries at every
  moment;
- a missing dump never leaves the pool file ahead of the DRep file.

`ConvertProofs` proves `ConvertRefinesThm`: `Spec => ImplementsConvertAbs`.
The proof reuses `StakeInv`, which already says that during the loop the
files are `Body` of the epochs done. The steps:
- `InitRefines`: the initial state maps to an initial state.
- `ScanRefines` and `TailRefines`: those steps are stutters (`AbsStutter`).
- `OpenRefines`: `OpenFiles` is `Truncate`.
- `EpochRefines`: an `Epoch` step is `Write` when both dumps are present,
  `Crash` when one is missing, and `Finish` at the end of the range.

`WantShape` gives the length and the entries of the expected lists.

## Not modelled

- `rename-governance.py` copies each `gov_00*.json`, in sorted order, to a
  numbered file. It is pure I/O.
- The Rust stream decoder and invariant validator are described in `spec.md`
  but are not under `src/`.
- The MCP test clients are pure I/O: they send requests and print the
  answers.

## What is proved and what is only checked

TLAPS proves, for every value of the constants that satisfies the modules'
assumptions:
- `TypeCorrect`, `DigestCorrect` and `HeaderCorrect` (`ManifestProofs`);
- `ScreenIsScreenedThm`, `ScreenMatchesCsvThm` and `ScreenTypeThm`
  (`ScreenProofs`);
- `StakeOfVotersThm` (`ConvertProofs`), from the inductive invariant
  `StakeInv` described above.
- `ConvertRefinesThm` (`ConvertProofs`): the converter implements
  `ConvertAbs`, from `StakeInv`;
- `NoReportThm` (`ConwayProofs`), from `ConwayInv`, for dumps whose lines
  satisfy `ScreensAsCsv`.

The following are only model-checked on the instances above:
- Liveness (the manifest's `Terminates`) and `ENABLED` are out of TLAPS's reach.
- What a recursive or sorting operator computes for every input (`SortSeq`,
  `Dedup`, `Split`) would need induction over data, which the installed
  provers cannot instantiate.
- `ConwayCheck`'s `TypeOK`. It depends on the header's field count
  `Len(hl)`. The header is built by `FlattenSeq` and by `Split`,
  whose field boundaries are ranks chosen by `CHOOSE` over the separator
  positions. What those return for every line is again induction over
  data.
- The weekly report's safety properties, and the
  converter's `VotesComplete`, `ParamsLastWins` and `TypeOK`. These rest on
  what `FlattenSeq`, `SelectSeq` and `SortSeq` return. For example,
  `VotesComplete` needs the vote lines of a prefix of the log to be a prefix
  of the selection. Those are facts about recursive definitions, so they
  need induction over data. `StakeOfVoters` escapes this: it uses
  `SelectSeq` only as an opaque function of the dump and the voter set.
