# TLA+ models of wakapi's scripts

This directory holds TLA+ specifications of the Python scripts in `src/scripts/`. It has the
TLC configurations that model-check them and TLAPS proofs of their central invariants.
`PROJECT.json` lists every component, run, mutant, finding and hazard, and maps each
definition to the source lines it models.

## The system

The scripts are independent command-line programs. Each one talks to a wakapi server (or
MailWhale) over HTTP. They meet through files and through the server:

| script | what it does | state that matters |
|---|---|---|
| `download_heartbeats.py` | fetches the all-time range, clamps it to `--from`/`--to`, and appends each day's heartbeats to a new CSV | the output file, the day loop, failed GETs, the existence check on relaunch |
| `upload_heartbeats.py` | reads such a CSV, groups rows by (user_agent, machine), cuts each group into chunks and POSTs them one by one | the grouping and chunking, the send loop, server outcomes |
| `sample_data.py` | generates random heartbeats and posts them in one request or one per heartbeat; a Qt window drives it | the button and progress-bar state, exceptions escaping a Qt slot |
| `push_sample_data.py` | older generator: one POST per heartbeat, exit on the first non-201 | the send loop |
| `send_mail.py` | mails a file to each line of a recipient list | the send loop, abort midway |
| `convert_colors.py` | projects a JSON color table onto another JSON file | none |

No script runs anything concurrently. Qt runs `sample_data.py`'s `run()` synchronously on the
GUI thread, and its message boxes are modal. The hard behaviours are therefore:
- failures midway through a loop of requests;
- requests whose outcome is unknown, because the connection broke after the server stored them;
- numeric edges in the chunk and date arithmetic;
- exceptions the code does not catch;
- what a user meets on the next launch.

## Modules

- **`HeartbeatUpload`** models `upload_heartbeats.py` `run()`.
  - A CSV is a function from row positions to keys (user_agent, machine). Id 0 stands for an empty cell, which pandas reads as NaN.
  - `GroupKeys`, `Least` and `KeysAfter` are groupby with its defaults: NaN keys dropped, keys sorted.
  - `GetGroup` is `get_group`.
  - `FloorDiv` is Python's `//`, floor division for either sign of the divisor. It is written out because TLA+ leaves `\div` by a negative number unspecified, and a negative batch size reaches `split_chunks`.
  - `NChunks`, `Neach`, `Extras`, `ChunkSize`, `ChunkStart` and `Chunk` are `split_chunks`: the chunk count `len // max_n + 1` and numpy's `array_split`, where the first `len % n` sections get one extra row. A chunk is a set of row positions. Both pandas and numpy keep CSV order, so the set in ascending order is the chunk.
  - The list of chunks is built before the first POST, so split errors happen first. `Split` models that, with `SplitError` giving the exception: TypeError for a str batch size, ZeroDivisionError, or ValueError for a negative one.
  - The send loop walks a cursor (`cur`, `chunk`) through the flattened list.
  - `SendAccepted`, `SendRejected` and `SendLost` are `send_batch`'s three outcomes. SendLost is a connection error, after which the server may or may not have stored the batch.
  - `SendEmpty` is `data[0]` failing on an empty chunk.
  - `posts` is the server's log of stored batches.
- **`SampleDataGui`** models both entry points of `sample_data.py`. `gui` is `show_gui`; `Init` picks either.
  - `Click` is `call_back`, `parse_params` and `run()` up to the first request. That includes `generate_data`'s failure modes (`GenerateOutcomes`): IndexError with no project, ValueError for a zero offset, and OverflowError for an offset that reaches before year 1.
  - `HeadlessRun` is `--headless`: `args_to_params` and `run()` up to the first request. `-n` and `-p` are any ints, so a negative `-n` generates nothing and `-p 0` raises IndexError.
  - Headless, `update_progress` is tqdm's `pbar.update` (`PbarUpdate`), `on_error` is `print`, and the script ends when `run()` returns (`RunReturned`).
  - `PostAccepted`, `PostFailed` and `PostRejected` are the outcomes of `post_data_sync`:
    - success, followed by `update_progress`;
    - `RequestError`, caught and passed to `on_error`;
    - `HTTPStatusError`, which is uncaught, so PyQt6 aborts.
  - `Quit` closes the window.
  - `UpdateProgress`, `OnError` and `SetValue` are the widget logic.
- **`PushSampleData`** models `push_sample_data.py`.
  - `Generate` is `generate_data`, called before the first request. It fails (`GenerationFails`) with no project, no hour, or a delta before year 1, and otherwise returns `n` heartbeats. Heartbeat `j` is the number `j`, since their random contents are distinct and otherwise irrelevant.
  - `PostCreated`, `PostRejected` and `PostLost` are one `requests.post` answered 201, answered otherwise (`sys.exit(1)`), or raising. After a raise the server may have stored the heartbeat.
  - `Finish` is the end of the loop, with status 0.
- **`SendLoop`** is an abstract specification: what any script that posts a list one item at a time promises. The server receives a gapless prefix of the list in order. Only the full list ends in success. A failure may or may not deliver the pending item. `PushSampleData` implements it (`ImplementsSendLoop`) under the mapping `items <- data`, `delivered <- stored`, `outcome <- Outcome` (the pc and exit code).
- **`DownloadHeartbeats`** models `download_heartbeats.py` launched up to `MaxLaunches` times against a server that holds `server[d]` heartbeats on day `d`.
  - `CheckOutput` is the existence check.
  - `FetchRange` is `fetch_total_range` followed by opening the file.
  - `FetchDay` is one day of `fetch_all_heartbeats` and its `writerow`s, or a failed GET.
  - `Finish` closes the file.
  - `Relaunch` is the user starting the script again.
- **`SendMail`** models `send_mail.py` `run()` launched up to `MaxLaunches` times on one recipient file.
  - `RecipientFiles` is `read_recipients`: up to `MaxLines` addresses, an address possibly on several lines.
  - `SendAccepted`, `SendRejected` and `SendLost` are `send()`'s outcomes: accepted, `raise_for_status` on an error status, and a connection error after which MailWhale may or may not have sent the mail.
  - `Finish` is the end of the loop, and `Relaunch` the user starting the script again. It starts at the first line, since nothing records progress.
  - `inbox` counts the copies each address received.
- **`MC*`** modules give the constants their model values, with a comment on why each suffices.
- **`HeartbeatUploadProofs`**, **`HeartbeatUploadBatchProofs`**, **`SampleDataGuiProofs`**, **`DownloadHeartbeatsProofs`**, **`SendMailProofs`** and **`PushSampleDataProofs`** hold the TLAPS proofs.

## Runs

| run | expect | what it shows |
|---|---|---|
| `upload_safety` | pass | CSVs of ≤5 rows over 4 keys, batch sizes −1..3, every server outcome. Stored batches are homogeneous (`PostHomogeneous`) and no larger than the batch size (`PostBounded`). They are pairwise disjoint (`NoRowUploadedTwice`). Uploaded rows are a prefix of each group, even after a failure (`UploadedIsGroupPrefix`). A normal end means every row was uploaded (`UploadComplete`). |
| `upload_nan_rows` | violation | A row with an empty user_agent or machine is dropped silently, and the script still ends normally. |
| `upload_cli_batch` | violation | `--batch` given on the command line is a str, so the split raises TypeError. |
| `upload_batch_one` | violation | `max_n = 1` gives each group an empty last chunk, and `data[0]` raises IndexError. |
| `upload_group_order` | violation | Groups are sent in sorted order, not in the first-seen order the spec describes. |
| `gui_safety` | pass | GUI and headless, up to 4 heartbeats, `-n` from −1, both modes, zero/safe/overflowing offsets, all outcomes. The Done box means everything is stored (`DoneMeansAllStored`). The bar never runs ahead of the server (`ProgressNeverAhead`). Every posting run ends with the button usable, the app gone or the headless script done (`PostingEnds`). |
| `gui_zero_heartbeats` | violation | 0 heartbeats in single mode leave the Generate button disabled for good. |
| `gui_uncaught_error` | violation | An HTTP error status escapes `except RequestError` and aborts the app. |
| `download_safety` | pass | Two launches over 3 days, with failures anywhere. A finished file holds every heartbeat of `--from..--to` (`RowsCoverRange`). No launch truncates an earlier file (`FileOnlyGrows`). |
| `download_range` | violation | The day after `--to` is also fetched and written. |
| `mail_safety` | pass | Files of ≤3 lines over 2 addresses, two launches, every send outcome. A normal end has mailed every listed address (`DoneMeansAllMailed`). An address never gets more copies than its lines times the launches (`CopiesBoundedByLaunches`), so duplicates come only from repeated lines and reruns. |
| `push_safety` | pass | `-n` from −1 to 9, no project or 5, offsets 0, 24 and one past year 1, every answer. The server holds the heartbeats before the one being posted, in order, plus at most that one (`StoredIsLoopPrefix`). Status 0 means all are stored (`ExitZeroMeansAllStored`). The script implements `SendLoop` (`ImplementsSendLoop`). |

Each property of a passing run has a mutant in `PROJECT.json`. A mutant is a plausible coding
error in a mapped definition, such as an off-by-one, a dropped guard or a swapped order, and
TLC finds that it breaks the property.

**Bounds.**
- Upload: 5 rows, 2 ids, and batch sizes −1..3.
  - These cover 0, 1, 2 and 3 rows per group.
  - Group lengths are both multiples and non-multiples of the batch size, so the `+1` chunk and the uneven `array_split` sections both occur.
  - Batch size 1 gives the empty chunk, batch size 0 the ZeroDivisionError, and a negative size the ValueError.
- GUI: 4 heartbeats give several requests in single mode, so a failure can come after some were stored.
- Mail: 3 lines over 2 addresses give a repeated address and a failure after some lines. Two launches give a rerun. Addresses are symmetric.
- Push: 9 heartbeats let a rejection or a lost request fall anywhere in a long loop. Each way `generate_data` fails has one value that triggers it.
- Download: 3 days let `--to` end before today, so the extra day can hold heartbeats. Two launches let the second meet the first one's file.

**Fairness.**
- `SampleDataGui` has weak fairness on the run's steps. `run()` keeps the GUI thread until it returns, and every httpx request ends, since its default timeout is 5 s. The modal Done and Error boxes block inside `run()`'s callbacks, so this fairness also assumes that the user eventually dismisses them.
- It also has weak fairness on `HeadlessRun`: the headless script calls `run()` at once, with no user input.
- No fairness is assumed for clicks or for closing the window.
- The other modules are checked for safety only.

## Proofs

`HeartbeatUploadProofs` proves, for every value of the constants:
- **`TypeCorrect`**: `Spec => []TypeOK`. The cursor is always a group key or the end marker, and `posts` is a sequence of well-formed batch records.
- **`BatchesHomogeneous`**: `Spec => []PostHomogeneous`. Every stored batch carries the headers of each of its rows, although `send_batch` reads them from `data[0]` alone.

The argument has three parts:
- `FirstRowIsFirst` and `LeastIsLeast` show that the CHOOSEs standing for `data[0]` and for the next sorted key pick a real least element. They rest on the well-foundedness of `<` on Nat and of its lexicographic extension (`WellFoundedInduction`).
- `BatchInGroup` shows that a chunk holds only rows of the cursor's key. `PostFacts` shows the request carries that key.
- `AppendPostHomogeneous` shows that appending such a request keeps every batch homogeneous.

`TypeOK` already records the fact that makes `PostHomogeneous` inductive: the cursor is a key of the CSV. The induction therefore uses `TypeOK /\ PostHomogeneous`, and `TypeCorrect` supplies the first conjunct.

`HeartbeatUploadBatchProofs` proves the chunking properties of `upload_safety` for every CSV, every `max_n`, and every pattern of server answers:
- **`BatchesWithinMaxN`**: `Spec => []PostBounded`.
- **`NoRowStoredTwice`**: `Spec => []NoRowUploadedTwice`.
- **`UploadsArePrefixes`**: `Spec => []UploadedIsGroupPrefix`.
- **`CompleteWithoutNaN`**: `Spec => []UploadComplete`, under the hypothesis `NaN \notin Ids`, that no user_agent or machine cell is empty. The hypothesis is needed: `upload_nan_rows` shows the violation without it.

A chunk is defined through `Rank(k, i)`, the number of rows of group `k` up to row `i`. `Chunk(k, c)` holds the rows whose ranks lie in `ChunkStart(k, c) + 1 .. ChunkStart(k, c) + ChunkSize(k, c)`. No induction over data is needed for the following steps:
- `Rank` is strictly increasing on a group (`RankStrict`), so it is an injection into `1..Cardinality(group)` (`RankBounds`).
- A chunk is therefore no larger than its rank interval (`ChunkBounded`, through `FS_Injection` and `FS_Interval` of `FiniteSetTheorems`).
- The array_split arithmetic gives these bounds (`SplitSizes`, `SectionBounds`):
  - there are `len // max_n + 1 >= 1` sections;
  - each section has at most `len \div n + 1 <= max_n` rows;
  - consecutive sections are adjacent;
  - together the sections cover `0..len`.

Two inductive invariants carry the proofs.

`BatchInv` rests on these facts:
- while sending, `max_n` is positive and the cursor is a valid (group, chunk);
- before the split nothing is stored;
- every stored batch is `Chunk(k, c)` for some position `<<k, c>>` lexicographically before the cursor (`ChunksBeforeCursor`).

Distinct chunks are disjoint (`ChunksDisjoint`), and the cursor only moves forward (`NextCursorAfter`). So a new batch never meets a stored one, and `NoRowUploadedTwice` is inductive with `BatchInv`.

`PrefixInv` relates the stored rows of each group to the cursor:
- groups before it are whole;
- the cursor's group holds exactly its ranks up to `ChunkStart(cur, chunk)`;
- later groups hold nothing.

After the end of the list, every group is whole. Every group holds a rank prefix (`StoredByRank`), even after a failure. The proof (`AcceptedKeepsPrefix`) follows the cursor's three moves:
- to the next chunk of the same group;
- to chunk 1 of the least later key (by `LeastIsLeast` and `LexTotal`);
- to the end of the list.

`UploadsArePrefixes` follows from `StoredByRank` and `RankStrict`. `CompleteWithoutNaN` follows from `DoneComplete`, since without NaN every row's key is a group key. Both invariants were model-checked with TLC on the `upload_safety` instance, and on one with a str `--batch` and NaN ids, before they were proved.

`SampleDataGuiProofs` proves `TypeCorrect`, `DoneOnlyWhenAllStored` (`[]DoneMeansAllStored`) and
`ProgressBehindServer` (`[]ProgressNeverAhead`).

Neither property is inductive on its own. A post that reaches the bar's maximum must also be the
post that stores the last heartbeat. So the inductive invariant `IInv` records what holds while
`run()` posts:
- the bar value, the loop's count of posted heartbeats and the server's count are equal;
- no dialog has been shown;
- in batch mode nothing has been posted yet, and in single mode fewer than `n` heartbeats have.

Then `update_progress`'s test `updated == maximum` is exactly the loop's last step. That is why
the Done box and `stored = n` always come together. `ClickKeepsIInv` and `AcceptedKeepsIInv`
carry the two steps that change the counts.

The headless path adds one conjunct to `IInv`: before `run()` starts headless, nothing has been posted or shown. `HeadlessKeepsIInv` carries the headless start. `AcceptedKeepsIInv` and `FailedKeepsIInv` split on `gui`, since tqdm's bar counts without resetting and shows no box.

`DownloadHeartbeatsProofs` proves `TypeCorrect` and `FileNeverTruncated` (`FileOnlyGrows`, an
action property). The inductive invariant `IInv` rests on these facts:
- a missing file is empty;
- a launch about to open the file for writing (`pc = "range"`) has seen it missing;
- a launch in its day loop has created it.

So the only step that resets `file` resets an empty one. The day loop appends, and
`PrefixOfConcat`, from `SubSeqOfConcat1` of `SequenceTheorems`, shows that appending keeps a
prefix. `RangeStartIsDay` shows that the server's range start, a CHOOSE of the first day with
heartbeats, is a day. It uses the well-foundedness of `<` on Nat. `TypeCorrect` bounds every
fetched date by the day after `Today`, the off-by-one included.

`DownloadCoversRange` proves `[]RowsCoverRange`. Its invariant `CoverInv` says that, while a launch is in its day loop or has finished it:
- `lo` and `hi` are the server's range clamped to `--from` and `--to` (`Clamped`);
- the file holds every heartbeat of the days the loop has passed (`Covered`);
- a finished loop has passed all `len(date_range)` days.

`RangeStartFirst` shows that no day with heartbeats lies before the range start. A requested day with heartbeats therefore lies in `lo..hi`, and `date_range`'s `(end - start).days + 2` items reach it. `CoverInv` was model-checked with TLC on the `download_safety` instance before it was proved.

`SendMailProofs` proves `TypeCorrect` and `AllMailedWhenDone` (`[]DoneMeansAllMailed`). Its `IInv` says two things:
- every line before the loop's position has reached its address at least once, in this launch or an earlier one;
- an address's copy count is bounded by the completed launches times the file length, plus the current launch's progress.

The second keeps the counts in a finite range for `TypeCorrect`. The first makes `Finish`, whose guard is `i > Len(recipients)`, imply that every listed address has mail.

`CopiesWithinLaunches` proves `[]CopiesBoundedByLaunches` with a second invariant, `CopyInv`. An address's copies are at most its lines `Lines(a)` times the completed launches, plus `SentIn(a, Progress)`, its lines the current launch has passed. No induction over data is needed. `SentInStep` shows that passing line `k + 1` adds exactly one line of its address and none of any other (`FS_AddElement`). `SentInFacts` bounds `SentIn` by `Lines` (`FS_Subset`). A relaunch restarts the count at line 1, which is where the bound per launch comes from. `CopyInv` was model-checked with TLC on the `mail_safety` instance before it was proved.

`PushSampleDataProofs` proves `TypeCorrect`, `ServerHoldsLoopPrefix` (`[]StoredIsLoopPrefix`), `ExitZeroIsComplete` (`[]ExitZeroMeansAllStored`) and `RefinesSendLoop` (`Spec => ImplementsSendLoop`).
- `IInv` adds three facts to the type and prefix invariants: before generation nothing exists, the exit code is 0 until the script exits, and status 0 comes with a stored list as long as the generated one.
- `AppendNextOfPrefix` and `FullPrefix` (from `SubSeqProperties` and `SeqEqual` of `SequenceTheorems`) show that appending `data[i]` keeps a prefix, and that a prefix of full length is the list.
- The refinement maps `Init` to `SendLoop`'s `Init`. `StepRefines` maps every step under `IInv` to a `SendLoop` step or a stutter: `Generate` to `Start` or `Fail`, `PostCreated` to `Deliver`, `PostLost` to `Fail` with or without delivery, and `Finish` to `Complete`.

What is only model-checked:
- The liveness property `PostingEnds`. TLAPS does not handle fairness or ENABLED.
- The properties of the `violation` runs, which TLC shows to fail. `UploadComplete` is proved only under the hypothesis, which `upload_nan_rows` breaks, that no key cell is empty.

Every safety invariant and action property of the passing runs has a theorem.

## Not modelled (yet)

- **`convert_colors.py`**: a stateless JSON projection.
- **Two download launches at once**: the launches are modelled one after another. Two launches running together could both pass the `os.path.exists` check and both open the file with `'w'`.
- **The server's range**: `RangeStart` assumes that `all_time_since_today` reports the first day with heartbeats, or today when there are none. The difference between UTC and local dates is left out.
- **pandas versions**: the empty-cell finding follows `groupby`'s documented `dropna=True`. Before pandas 3, a two-column `.groups` may still list a NaN key; `get_group` would then raise KeyError instead of dropping the row silently.
- **Request timeouts**: no request of the `requests`-based scripts passes a timeout, so a server that never answers blocks them forever. The models therefore assume no fairness for those loops. `sample_data.py`'s httpx client has a 5 s default, and its fairness rests on that.
- **Planned**:
  - a composition of download and upload, in which a failed download's partial CSV is uploaded as if complete;
  - an abstract "batches reproduce the input" specification that `HeartbeatUpload` refines;
