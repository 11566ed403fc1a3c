# registers-crosswalk: specifications and proofs

TLA+ specifications of registers-crosswalk, the layer that pins public documents
(`data/sources/xr_src_NNNN.json`), keeps a Wayback capture of each, and re-checks both. The
modules are translated from `src/registers_crosswalk/`; TLC checks them on small instances and
TLAPS proves, for every size, every property that the passing runs check but the three liveness
properties, of which it proves that each step brings the end closer. Line numbers are those of the
source files at this commit.

## The system

| Part | State it keeps | Operations |
|---|---|---|
| Source registry (`registry.py`, `models.py`, `ids.py`) | `Crosswalk.sources`, loaded from `data/sources` | load with its cross-record rules, `duplicate_of`, `same_document_of`, `live_sources`, resolution by citation and date |
| Pin store (`pin.py`, 2218-2646) | the record files | `add_source`, `archive_source`, `repair_archive`, `note_source` |
| Wayback client (`pin.py`, 543-1238) | none; retry counters per call | check a capture at its timestamp, search existing captures, ask Save Page Now, fetch a new capture back |
| Weekly archive check (`pin.py`, 1406-1818) | clock, rounds, samples and verdicts of one run | `check_archives` |
| Drift check (`pin.py`, 1241-1403, 1827-1949) | reports of one run | `check`, `check_all` |
| Blob store (`pin.py`, 2028-2213) | files and `MANIFEST.sha256` | `save_blobs`, `write_blob_manifest` |
| Console (`console.py`) | resolved specs, progress records, last call per host | resolve, pin, archive, progress; one thread per request |
| Status page (`status.py`) | none | which report each row shows, the summary band |
| References (`refresolve.py`, `xref_ci.py`, `hooks/check_refs.py`, `cross-repo.yml`) | the nodes' and pins' references, one checkout of each register per reader | the pre-commit hook, the existence check |
| Join (`join/`) | none | `join`: read what a node's references name in the registers |
| Fetchers (`fetchers/`) | none | `spec`, `pin`, `amended_since` per publisher: build its requests, read its answers |
| Keys (`apikey.py`) | none | attach a key to a URL, and redact it |

How they meet: the command line and the console call the same four operations of the pin store.
These load the whole register, spend seconds to minutes with a publisher and with Wayback, and
write one file. The weekly check and the drift check read the register and write nothing. Nothing
locks `data/sources`: the console serves each request on a thread of its own, and a terminal may
run beside it. The weekly check, the drift check and the archive check's artifact meet on the status
page. References go the other way: nodes and pins name records of three sibling repositories, which
the hook reads from disk before a commit, `cross-repo.yml` from each repository's main after it, and
the join whenever it is asked.

What is hard about it: the register a call checks against may be minutes old when it writes; a
call may die between any two steps and inside a write; Wayback answers late, differently from one
server to the next, or not at all; a publisher amends a text between two reads of it; a register moves
between a hook and a workflow; and every wait is taken inside somebody's time budget. The
hazards, each at its line with the properties that cover it, are in `PROJECT.json`.

## Modules

| Module | What it is |
|---|---|
| `Registry` | Pure operators: records, the duplicate rules, liveness, and `SourceInvariants`, the rules of `check_source_invariants`. |
| `PinRegister` | The abstract specification of `data/sources`: a register that only grows, one consistent record at a time (`Mint`), whose records change only in their archive, note or merge (`Amend`). |
| `PinStore` | The four operations as steps of concurrent calls over files, with the properties and the refinement to `PinRegister`. |
| `PinStoreProofs` | The inductive invariants of `PinStore`, with one call at a time, with overlapping calls, and with one add at a time, and the theorems. |
| `ArchiveCheck` | One run of the weekly archive check against an arbitrary Wayback. |
| `ArchiveCheckProofs` | The inductive invariants of `ArchiveCheck`, the measure that each step shrinks, and the theorems. |
| `Archiving` | What a call for a capture promises: an attached copy was served at its timestamp and reproduced the pin, while Wayback takes, serves and drops captures. |
| `WaybackArchive` | The Wayback client's `archive` step by step: the search, the save, the polls, the fetch-back and the retries; refines `Archiving`. |
| `WaybackArchiveProofs` | The invariants of `WaybackArchive`, its refinement of `Archiving`, the measure, and the theorems. |
| `DriftCheck` | One run of the drift check over its targets. |
| `StatusPage` | The job around it: the exit code, the archive check's artifact, the band and the pills of the page. |
| `StatusPageProofs` | The inductive invariant of the check and its job, the measure, and the theorems. |
| `Blobs` | The directory of `pin blobs` and its manifest, over runs that may be killed. |
| `BlobsProofs` | The inductive invariant of `Blobs` and the theorems. |
| `Console` | The console: the page's resolve card and Pin button, the server's threads, the specs it holds between a resolve and a pin, and the lock that paces its calls. |
| `ConsoleProofs` | The inductive invariant of `Console` and the theorems. |
| `Editions` | One provision as its publisher serves it over time, the pins the eCFR and U.S. Code fetchers make of it, their checks, and `resolve_source`. |
| `EditionsProofs` | The inductive invariant of `Editions` and the theorems. |
| `CrossRefs` | The references into the three registers: the hook, the existence check and the join, each on checkouts of its own. |
| `CrossRefsProofs` | The evidence each answer rests on, and the theorems. |
| `MC...` | Constants and symmetry for TLC, one module per specification run. |

### PinStore and the code

`files` is the directory as the load path reads it: a function from ids to records. `torn` holds
the ids whose file exists and does not parse. For each operator (a process, or a console thread)
`pc`, `snap`, `id`, `draft` and `result` are the locals of its call: where it is, the `Crosswalk`
it loaded, the id it will write, the record it assembles, and what its last call reported.

An id past the last, which no record can have, is `None`: `add_source` goes on with it to the fetch and
fails when the record is built. The steps of a call are the places where another call, or a kill, can
come between:

| Action | Code |
|---|---|
| `AddLoad` | `add_source`: load, capture-pin refusal, first duplicate rule |
| `AddMint` | `next_source_id` |
| `AddExists` | the `path.exists()` test that refuses to overwrite |
| `AddFetch` | `pin()`, then the second duplicate rule with `--supersedes` applied |
| `AddArchive` | the archive step, whose capture must reproduce the drift value |
| `AddCheck` | the assembled record against `check_source_invariants` over the loaded register |
| `ArchiveLoad`, `ArchiveCapture` | `archive_source` |
| `RepairLoad`, `RepairRecheck` | `repair_archive` |
| `WriteArchives` | `_write_archives` up to the write: check, read the file again, replace one field |
| `NoteLoad`, `NoteWrite` | `note_source` |
| `Open`, `Flush` | `path.write_text`: truncate, then write |
| `Crash`, `Lose`, `MergeByHand` | the world: a killed call, a capture Wayback stops serving, a maintainer's edit |

Data is abstract. A document version stands for the pair (canonical URL, point in time), a drift
for (drift key, drift value), and `Shows` gives the drift each capture's bytes read as. A record
keeps the head of its `archives` list, the one entry the program ever replaces. A copy that is not
a Wayback capture (Perma.cc, GovInfo), which repair refuses to touch, is left out.

Two writers of one file: the second `open` truncates again, and whichever closes last lands over
the other's content without a shared offset. `Flush` therefore leaves either the later record or a
file that does not parse (`overlay`).

### ArchiveCheck and the code

One run of `check_archives`. `queue` is the code's `order`, kept rotated: an entry that was asked
and not settled goes to the back, so after each round the queue is `order[asked:] + order[:asked]`
less the settled ones. `left` counts what the round has not reached; `clock` and `rested` are
`_Paced`'s. A request takes 0 to `Slow`, and its answer is any of the five `_check_attached` can
give, or a 429 with any `Retry-After`. The listing stage models `_cdx_listing` under `_retrying`,
with its two counters (`failed`), because its waits count against the same budget. Copies with
nothing to check are settled in `Init`; they are numbered after the others, which changes nothing
since nothing is asked about them. `last` and `limited` are history for the properties.

### WaybackArchive and the code

One call of `archive` (which a pin of a given drift value makes) against a Wayback of finitely
many captures. `world` is what `Archiving` says of Wayback: which captures exist, which are served,
and what each reads as; it moves between any two requests and its listing may be behind. The steps
of the call are its requests:

| Action | Code |
|---|---|
| `AskAgain`, `Proceed` | `_retrying`: two budgets, one of 5xx and one of 429 answers, for one request |
| `CheckCapture` | `_check_capture`: a capture fetched at its timestamp |
| `ListAnswers`, `ListFails`, `TryCapture`, `SearchEnds`, `NothingFound` | `_existing_capture`: list, try the newest of each digest, stop at the number of tries |
| `SaveStarts`, `SaveAnswers`, `SaveFails`, `SaveMalformed` | the keyed (SPN2) and the anonymous save |
| `Poll`, `JobPending`, `JobSucceeds`, `JobFails`, `PollEnds` | `_archive_spn2`'s job |
| `Verify` | `_verified_new_capture`: the capture that a save named, fetched back until served |

There is no clock: what a wait allows is that Wayback moves. Wayback after the call has ended is
not followed. A call without an expected drift value exists in the signature and has no caller; it
is not modelled.

### DriftCheck, StatusPage and the code

`kind` says which of a fetcher's optional hooks a pin has: a second address (uscode), an amendment
history (eCFR), a capture instead of a URL (`FIXED_BYTES`), a key that is missing or cannot be
attached. No fetcher has two of the first two. `Begin` is `check` up to its fetch; `FetchPinned`,
`FetchFallback` and `FetchHistory` are its three fetches with all they may find; `RetryFailed` is
the single second pass of `check_all`. A publisher may change a document between any two fetches,
so each finds any text. `read`, `broken` and `failed` are history for the properties.

In `StatusPage`, `CheckEnds`, `Download` and `Build` are steps of the job: the check's code is
kept (1 of a check that died), the newest archive verdicts are fetched or not, and the page is
built from what there is. A pin may have no verdict, one, or two of two attached copies. The band's
wording is kept as its tone, what it says its 1:1 of, and its two counts.

### Blobs and the code

`held` is what lies under each pin's name and `manifest` the set of names the manifest lists; they
outlive the runs. A run (`Start`) takes some of the pins, or all, in order: `Found` and `NotAsked`
are the early returns of `save_blobs`, `Ask`, `Fetch` and `Keep` its fetch, the comparison of the
digest, the `.part` file and `os.replace`; `LeaveManifest`, `WritePart` and `KeepManifest` are
`write_blob_manifest`. A `.part` file is never read again, so a kill inside one only loses it. A
kill (`Crash`) is possible anywhere, and stands for the body of a capture that ends early, which
raises no OSError and ends the run. Files are put under the pins' names, damaged and lost at any
time, also while a run fetches the pin in question; between runs a person edits the manifest. The
content-addressed blob that `pin()` writes with `--blob-dir` is another directory and is not
modelled.

### Console and the code

A request of the page is a thread of the server; `req` follows each from the click to its answer.
`specs` is `Console._specs`, named by the resolve that made them, `resolved` and `card` are the
page's variable and what its card shows, and `since` and `lock` are the throttled host's entry of
`paced`'s `last` and its lock.

| Action | Code |
|---|---|
| `Call`, `Wakes`, `Tick` | `paced.wrapper`: take the lock, sleep inside it, note the time, release it and fetch |
| `ResolveStarts`, `ResolveFinds`, `ResolveFails` | `api_resolve` and `_resolve`, whose spec is kept even of a document already pinned |
| `PinStarts`, `PinWrites`, `PinIsRefused` | `api_pin`: read the spec, `add_source`, drop the spec of a written pin |
| `ClickResolve`, `ShowResolved` | `resolve` and `drawResolved` |
| `ClickPin`, `ShowPinned` | `doPin` |
| `Fails`, `Reload` | the two `catch` handlers; the page loaded again |

Answers come in any order. One that fails (`Fails`) leaves the server's thread running, whether the
request ever reached it or not. `add_source` is kept as what it means to the page: it refuses a
document of the register it loaded when the pin began, and may refuse any; its steps and what two
of them do to the files are `PinStore`'s. The fetch follows the release of the lock and is not a
step of its own: what is spaced is the turns the lock gives. A progress tick writes the card only
while `resolved` is null, so it never covers a document that can be pinned; ticks, the search, the
page's lists and `api_archive` (which is `PinStore`'s `archive_source`) are left out.

### Editions and the code

One provision and everything its publisher does to it. A text is the set of the laws it has taken
up. `law` gives each law its date, what it does to the provision (amends it, corrects its wording, or
concerns something else of the same part) and the day it was taken up, which may be later than its
date. In a U.S. Code credit an amendment's date is of one of three forms: one that `_CREDIT_DATE`
parses ("Mar. 5, 2027"), one that it does not and `_DATE_SHAPED` finds, so that `last_amended` raises
("March 5, 2027"), or one that neither finds, which is dropped ("September 5, 2027"). `stated` is the
date the publisher says its text is current to.

| Action | Code |
|---|---|
| `Publish`, `Restate`, `Tick` | the publisher and the calendar |
| `ReadDate` | `spec`: the date read, or given with `--as-of` (eCFR) |
| `Pin` | `pin`: the text read, the duplicate and load rules of `Registry`, the record written |
| `CheckText` | `check` up to the comparison of the drift value |
| `CheckHistory` | `amended_since`, eCFR's second read |
| `MergeByHand`, `GiveUp` | a maintainer's edit; a command that fails or refuses |

`ServedText` is the difference between the two publishers: eCFR serves the text as of a date, the
U.S. Code site only today's. `LastAmended` is `last_amended` over the source credit,
`LatestAmendment` the newest substantive entry of the amendment history. `ResolveSource` is
`resolve_source` with its rank by date and id. The fallback address of a U.S. Code pin is in
`DriftCheck`; what reads as the document there is the same page.

### CrossRefs and the code

`main` holds each register's files on its main, `copy` the working copies beside the crosswalk,
`data`, `index` and `commit` the crosswalk's references in the working tree, staged, and committed,
and `run` the workflow on that commit: what each job has fetched and how it ended. A file has its
directory, its id and the one id it names (a conflict its official, a filing its filer, a record of
`records.json` another record); `RecipientOf` gives each conflict its recipient. A section says whether
the reference's own record was read, and lists the conflicts or filings read with it, a conflict with
whether its recipient and its holding could be read. `VIResolver` reads no record of the reference's
own: it lists the counted conflicts of an official, and nothing for a recipient or a conflict.

| Definition | Code |
|---|---|
| `DirsOf`, `Bears`, `ResolveRef`, `CheckRefs` | `refresolve.py`: `_FILE_DIRS`, `_IN_FILE`, `resolve_ref`, `check_refs` |
| `Loads` | `_check_invariants`: an id stands on at most one node |
| `VISection`, `CPSection`, `SovereignSection`, `Join` | `join/resolvers.py`, `join/core.py` |
| `HookPasses`, `Commit` | `hooks/check_refs.py`; a commit may also be made without the hook |
| `Sparse`, `Start`, `Fetch`, `FetchFails`, `Finish` | the two jobs of `cross-repo.yml` |
| `EditMain`, `EditCopy`, `RemoveCopy`, `Pull`, `EditRefs`, `Stage` | people |

The search for an id in `records.json` is a search for the quoted string, so a record that another
one mentions resolves without standing there itself (`Bears`); `docs/operations.md` says that this
is meant. The join job's own tests are left out: of the job only whether it could run and whether
the crosswalk loads is kept. `GreenMeansJoined` does not ask that the two jobs read the same main. Its
exceptions are four: an entity, which the join job's checkouts leave out; a vi reference, whose record
is read by no resolver; a sovereign id that another record only mentions; and a file that main lost
between the two jobs' fetches.

## Runs

| Run | What it asks | Bounds |
|---|---|---|
| `pin_store_serial` | With one call at a time, killed anywhere but inside a write: types, the directory loads, captures reproduce their pins, the early rules agree with the final check, and `PinRegister` is implemented | 2 ids, 3 versions, 2 citations, 2 drifts, 2 captures, 1 note |
| `pin_store_concurrent` | With two calls overlapping and kills anywhere: a readable cited pin has an archive copy, ids leave no gap, and links lead to names | 2 ids, 1 version, 2 captures, 2 operators |
| `archive_check` | The pacing, budget, fairness, verdicts and termination of the weekly check | 3 entries, 2 rounds, a stop after 2 unanswered, budget 9 with waits of 1 to 5, 2 retries of a listing |
| `wayback_archive` | What one call for a capture attaches, refuses, overlooks and asks for, that it ends, and that it implements `Archiving` | 3 captures of 2 digests, 1 retry of a 5xx, 2 tries of a 429, 2 captures tried in the search, 2 polls, 2 fetches back |
| `status_page` | That a report is what was read, that a failure is two failures, the meaning of the exit code, and that the page's band is earned, agrees with the run and is published | 2 checked pins of any kinds, 0 or 1 unchecked |
| `blobs` | That a green run has put and listed each of its targets, that a run changes nothing but adds pinned bytes, with files put, damaged and lost while it runs, that the manifest only grows | 2 pins of any kinds, any number of runs |
| `console` | That a pin is of what was shown when it was asked for, and that calls to the throttled host are spaced, with answers in any order, lost, retried and forgotten | 3 requests, 2 documents, 2 calls of a request, interval 2 |
| `editions` | That an answer as of a date is of that date, that checks miss no amendment and raise no false alarm, that the current pin is checked, that no date loses its answer | 2 laws, 4 days, 2 pins |
| `cross_refs` | That a red existence check after a green hook has one of three causes, that a green one, with a green join job on a main of its own, means the join reads what was checked, with four exceptions, that no conflict counts twice | 2 nodes, 1 pin, 1 or 2 records of each kind, 2 edits |
| `pin_store_overwrite` | *violated*: no add overwrites a file, with overlapping calls | 2 operators |
| `status_page_red` | *violated*: a red page goes with a red run | 1 pin |
| `drift_check_errors` | *violated*: an ERROR is about a document that was fetched | 1 pin |

Why the bounds are enough. The rules of the register relate at most two records, and a call
touches one, so two ids with two values of each field reach every conflict; the second id is also
the last, so the refusal of a full directory is reached. All the captures of the instance show one
of the two drifts: a pin of that drift can be archived and repaired, a pin of the other by no
capture at all. The proofs then remove the bounds. For the weekly check, three entries and a stop
after two leave one entry behind the stop; two rounds reach the rotation; a 429 may ask for more
than the longest wait, and the budget runs out before a round, in one, before the listings and
while retrying one. Three captures let two share a digest, one be new, and the search stop with one
untried; every counter of the client is reached and exhausted. Two pins give every mix of two
statuses in the band and the exit code, which are sums and maxima over the pins. Two blobs give a
run over one pin beside a file and a line of the other.

Three requests are two resolves answered in either order and a pin of one of them, a pin and its
retry, or a pin under way while another resolve is asked for.

Two pins of four days with two laws are enough for a pin to be made before, between and after the
laws, for one law to be backdated behind the other, and for one pin to supersede or be merged into
the other. Two edits move `main` under a reference, or a working copy and `main` apart, or put one
reference on two nodes; a start with one record missing, a conflict's recipient or holding among them,
makes up for what they do not reach.

Symmetry is used on versions, citations, captures, operators, documents, laws, nodes, officials and
records, which no definition
tells apart. No run with a liveness property uses it.

Deadlock is not checked. The pin store may rest with every capture lost and every name taken; the
weekly check ends; the console's page may send no more requests; the calendar of `Editions` and the
edits of `CrossRefs` are bounded.

Fairness is weak fairness of the program's own next step, in `ArchiveCheck`, `WaybackArchive` and
`StatusPage`: sleeps end, requests carry a timeout, a job runs its steps. Nothing is assumed of
Wayback, the publishers or the artifact. No property of the pin store needs any,
and none is stated.

## What the violations show

- **Overlapping adds overwrite.** Two calls mint the same id, and `write_text` is not exclusive.
  The duplicate rules are lost the same way, since each call checks the register it loaded. The
  proofs say how far this goes: `OneAddKeepsTheRules` and its companions, that it takes two adds.
- **A red page under a green run.** The job's header promises that the two agree. The band counts
  a capture found lost or missing; the run ends with the drift check's code, 0 for such a pin.
  `PageAgreesButForCopies` proves that nothing else makes a red page of a green run, and that a
  green page of a red run does not occur.
- **A dropped body reads as a changed document.** `check` says that whatever the fetch raises is a
  transport problem, and takes OSError for that. `IncompleteRead`, and what a damaged gzip or
  deflate body raises, are not OSErrors: the pin is ERROR, exit 1, and is not tried again.

### Other disagreements met on the way

These have no run.

- A record is truncated in place (`pin.py:2444`), so a call killed inside the write leaves a name
  whose file does not load and stops every command, while blobs go through a `.part` file and
  `os.replace`. `pin_store_concurrent` includes such kills.
- `doPin` (`console.py:1080`) hides the card and clears `resolved` when its answer comes, whatever
  the card shows by then; drawing the next resolve's answer on the card does not bring it back.
- A comment of `add_source` (`pin.py:2369`) says that a refused pin should not cost a capture: an
  unknown `--supersedes` is refused after the archive step, and `LateRefusalIsADanglingLink`, which
  is proved, says that this is the only such case.
- `models.py:261` says that `supersedes` is an earlier pin of the same citation: any known id is
  accepted, the one being minted too, and such a pin is never live. `CurrentIsWatched` holds while
  links are `Orderly`, which nothing enforces.
- The docstring of `uscode.py` (lines 20-22) says that a date-shaped token whose month form the parser
  does not know "is an ERROR, not a dropped date", and the comment at line 97 that `_DATE_SHAPED`
  finds dates "whatever the month form". The expression (line 100) takes a capital and one to four
  letters: "September 5, 2027", or any lowercase month, is neither parsed nor found, the date is
  dropped, and a check answers `ok` over the amendment. Without that exception, the first of two,
  `UnchangedMeansUnamended` is violated.
- A law that enters a U.S. Code section's credit under a date no later than the latest there leaves
  `last_amended` (`uscode.py:160`), the pin's drift value, as it was: the check reports no change.
  It is the other exception of `UnchangedMeansUnamended`.
- `save_blobs` says that a file already there is never overwritten (`pin.py:2124`): one put there after
  `target.exists()` and before `os.replace`, which a fetch separates, is. `OnlyPinnedBytesAppear`
  states it as the exception.
- A U.S. Code pin reads its page twice (`uscode.py:199`): its text may be newer than its point in
  time, never older (`AnswersAreOfTheirDate`).
- A comment of `cross-repo.yml` (line 64) says that the join job's checkouts are widened to what
  the resolvers read: `data/entities`, which `resolvers.py:134` reads, is not among them, so the
  join job has no record of an entity that the existence check found. And a sovereign id that
  `records.json` only mentions passes the existence check, while the join finds no record. These
  are two of the exceptions of `GreenMeansJoined`.
- `docs/crosswalk-spec.md:99` says that the winner of a node merge absorbs its registers:
  `merged_into` of a node is read by nothing but the check that it names a node.

## Proofs

`PinStoreProofs` proves of `SerialSpec`, from `RegistryAssumption` alone (there is a highest id,
`None` is no value, every capture shows a drift), for any number of ids, documents, captures,
notes and operators:

| Theorem | Property |
|---|---|
| `TypeCorrect` | `TypeOK` |
| `AlwaysLoads` | `RegisterLoads` |
| `AddsNeverOverwrite` | `NeverOverwrites` (in the run that violates it when calls overlap) |
| `ArchivesAlwaysReproduce` | `ArchivesReproduce` |
| `EarlyRulesAgree` | `LateRefusalIsADanglingLink` |
| `Implementation` | `ImplementsRegister` |

None of these is inductive alone. That the directory loads after a write depends on what the call
checked, and it checked the register it loaded; so `IInv` says that at most one call is in
progress, that until it opens its file its `snap` is `files`, that while the file is open `files`
is `snap` less that one record, and, step by step, what the call has established of its draft: the
id is the next one or the record's own, the attached capture reproduces it, the rules hold of
`snap` with the draft in place. There is one lemma per action under `StepHolds`; the steps that
touch no file go through `LocalStep`. `EarlyRulesAgree` adds `RInv`, what the two duplicate rules
established, and `FinalCheckPasses`, that nothing but a dangling link is then left for the final
check. `Implementation` maps `Pins`: what a reader sees who never catches a file half written.

Of `ConcurrentSpec`, where calls overlap at every step and are killed anywhere, inside a write too,
it proves from the same assumption:

| Theorem | Property |
|---|---|
| `TypesSurviveOverlap` | `TypeOK` |
| `CitedStaysRecoverable` | `CitedIsRecoverable` |
| `LinksKeepLeadingToNames` | `LinksLeadToNames` |
| `NamesStayTaken` | no name is given back |

Neither of the last two says that a name keeps its meaning: two calls that mint one id write it twice.

Nothing of `IInv` is left here: the register a call loaded is stale. `OverlapInv` keeps what a stale
register still says, because no step takes a name away: the names in it are taken (`Named`), the id
minted from it leaves no gap, and what the call found of its own record, or of the record
`_write_archives` reads again, goes into the draft it writes (`Recoverable`). A step that touches no
file goes through `OverlapLocal`; `Open` and `Flush` are the others.

The rules of the register do not survive overlapping calls, which is the first violation. What they
need is proved as an implication:

| Theorem | `ConcurrentSpec /\ []OneAdd` implies that |
|---|---|
| `OneAddKeepsTheRules` | the directory obeys the load rules whenever no file is half written |
| `OneAddKeepsArchives` | an archive copy reads as its pin's drift value |
| `OneAddOverwritesNothing` | a call that opens a file takes a free name or writes the pin it loaded |
| `OneAddKeepsMeanings` | an id states one document, citation and chain for ever, through rewrites and kills |

`OneAdd` says that no two calls are at once between `add_source`'s load and the end of its write. The
code has nothing that makes it so; one person at one terminal, or a lock around an add and around
nothing else, would. Amendments overlap with the add and with one another, and every call may still
be killed anywhere. The argument is about a value that no variable holds: the register `g` of every
record ever closed, less what amendments change. `Agreed(g)` says that what the files and each
loaded register have of an id is what `g` has, that an add knows all of `g`, so that the rules it
checked of its draft are those of `g` with the draft, and that an amendment writes back the pin it
loaded. A step keeps `g` or, when an add closes its file, extends it (`AgreeStep`). A file left
half written stays in `g`, which is why an id keeps its meaning when the file is put right.

`StatusPageProofs` proves of `StatusPage!Spec`, from `DriftCheckAssumption` alone (a number of pins;
`None` is no value), for any number of pins:

| Theorem | Property |
|---|---|
| `TypeCorrect` | `TypeOK` (in no run) |
| `ReportsAreRead` | `AnswersAreRead` |
| `FailuresAreTwo` | `FailuresAreConfirmed` |
| `AnswersAreKept` | `AnswersStand` (in no run) |
| `CodeIsSound` | `ExitCodeIsSound` |
| `GreenIsTrue` | `GreenIsEarned` |
| `RowsAreCounted` | `BandCountsTheRows` (in no run) |
| `PageAgreesButForCopies` | `PageDiffersOnlyByCopies`, how far `PageAgreesWithTheRun` holds |
| `EveryRunIsFinite` | each step is `Closer` to the page |

Its `IInv` adds to the two invariants what has been read of the pin being asked for (`AskedFor`:
nothing, until the history is asked, which only follows the pinned text), what the passes have left
(`Passes`: a pin still to do is unreported in the first and a failure in the second, and a failure
is known to be of the first pass or of both), and that code and page are functions of the reports
once these stand (`Published`). `ReportHolds` and `GoOnHolds` are the two ways a step of `check`
ends; every action is one or the other. The page's theorems are about the operators: `ExitCodeMeans`
and `VerdictIsTheStrongest` that the maxima exist, `Counts` that the band's numbers compare the sets
they count, `PillsAreCounted` that the rows show those sets.

`BlobsProofs` proves of `Blobs!Spec`, from `BlobsAssumption`, for any number of pins and runs:

| Theorem | Property |
|---|---|
| `TypeCorrect` | `TypeOK` (in no run) |
| `GreenIsComplete` | `GreenRunsAreComplete` |
| `FilesAreSafe` | `OnlyPinnedBytesAppear` |
| `ManifestIsSafe` | `ManifestOnlyGrows` |

`IInv` adds that no file is under the name of a pin being fetched but one put there since
(`NothingThere`), that a good report is of a file with the pinned bytes unless it was touched since
(`ReportsHold`), and that the lines about to be written contain the manifest and every good report
(`LinesHold`).

`ConsoleProofs` proves of `Console!Spec`, from `ConsoleAssumption` alone, for any number of
requests, documents and calls and any interval:

| Theorem | Property |
|---|---|
| `TypeCorrect` | `TypeOK` (in no run) |
| `PinsAreAsShown` | `PinsWhatIsShown` |
| `HostIsSpared` | `CallsAreSpaced` |

`IInv` adds that a thread asleep holds the lock and that what it still waits and what has passed
make up the interval (`Paced`), that the document on a visible card is the one a click would pin
(`CardIsResolved`), that what the page shows was answered, with a document (`ShownIsAnswered`,
`HaveDocs`), and that a pin carries the resolve whose document was shown
(`PinsNameTheirResolve`). The server's steps are one shape, `MovedHolds`; the page's are `SendHolds`
or `SettleHolds` and what they draw.

`EditionsProofs` proves of `Editions!Spec`, from `EditionsAssumption` alone, for any number of
laws, days and pins:

| Theorem | Property |
|---|---|
| `TypeCorrect` | `TypeOK` (in no run) |
| `UnchangedIsUnamended` | `UnchangedMeansUnamended` |
| `AlarmsHaveCauses` | `AlarmsAreReal` |
| `AnswersKeepTheirDate` | `AnswersAreOfTheirDate` |
| `CurrentIsChecked` | `CurrentIsWatched` |
| `HistoryIsKept` | `HistoryStaysReachable` |

One lemma about steps carries the rest: `Grows`, what has been published stays as it was, what is
new is of today, and no pin's text, date or drift value changes. So what was true of a pin when it
was made stays true (`PinsAreHonest`: it is dated no later than today, it has all that was published
before its date, its drift value is that of its text), and a check between its two reads knows that
the text was as pinned (`CallIsHonest`); a report is then true when given, and stays so. The
greatest date of a credit, and the pin that `resolve_source` picks, exist because the days and the
ids are bounded (`GreatestExists`, from the well-foundedness of the naturals).

`CrossRefsProofs` proves of `CrossRefs!Spec`, from `CrossRefsAssumption` alone (persons and entities
have different ids, a conflict names a recipient or none, and `None` is no value), for any registers, nodes, pins and number of edits:

| Theorem | Property |
|---|---|
| `TypeCorrect` | `TypeOK` (in no run) |
| `RedHasACause` | `RedAfterTheHookHasACause` |
| `GreenIsJoined` | `GreenMeansJoined` |
| `ConflictsCountOnce` | `NoConflictIsCountedTwice` |

`Evidence` keeps what each answer rested on: the references and roots the hook read for a commit,
and a job's checkouts, which no longer change once it has answered. `TypeOK` includes that a
checkout holds one file of a name. The rest is about the operators: `CheckoutsSuffice` that the
existence check's checkouts hold every directory the hook's rules name, `JoinReadsAll` and
`SectionsAreAlike` that the join's hold what its sections are read from, `FoundIsRead` that a record
the existence rules find is one the resolver reads, but for the exceptions.

`ArchiveCheckProofs` proves of `ArchiveCheck!Spec`, from `ArchiveCheckAssumption` alone, for any
number of entries and rounds, any gap, budget and waits:

| Theorem | Property |
|---|---|
| `TypeCorrect` | `TypeOK` |
| `RequestsKeepTheGap` | `RequestsArePaced` |
| `TheBudgetHolds` | `EndsInsideTheBudget` |
| `NoEntryIsLeftOut` | `EveryEntryIsReported` |
| `MismatchIsLost` | `MismatchIsNeverHidden` |
| `MissingIsNotServed` | `MissingRestsOnTwoAnswers` |
| `TheQueueIsFair` | `RoundsAreFair` |
| `EveryRunIsFinite` | each step is `Closer` to the end |

`Paced` adds that what has passed since the last request is exactly what was rested, so that what
`ready` still owes makes up the gap. `Rotation` says why the rounds are fair: the queue holds every
pending entry once, those with a sample less in front, and asking the one in front and putting it
at the back keeps that (`RotatedIsOrdered`), however often a round is cut off. `Standing` adds to
the verdict invariants what a pending entry's samples can be: none is good, and once the listings
are read there are two answers and none but "not served". `Kinds` sorts the steps by what they do
to samples and verdicts, `Steps` by action.

`WaybackArchiveProofs` proves of `WaybackArchive!CallSpec`, from `ArchivingAssumption` and
`WaybackArchiveAssumption`, for any number of captures, budgets and tries:

| Theorem | Property |
|---|---|
| `TypeCorrect` | `TypeOK` |
| `Implementation` | `ImplementsArchiving` |
| `NothingRightIsPassedOver` | `NothingIsOverlooked` |
| `RefusalsHaveEvidence` | `RefusedOnEvidence` |
| `FewSaves` | `SavesAreBounded` |
| `EveryCallIsFinite` | each step of the call is `Closer` to its end |

The variables of `Archiving` are variables of the call, so the refinement mapping is the identity;
`Answering` says that a step leaves Wayback alone and answers, if it does, as `Attach` or `Refuse`
would, and `Open` that a call that is not done has no answer to overwrite. `Searching` is why a
rejected digest hides nothing: what should be found is still to try, an entry's digest is that of
its capture, and no right capture's is rejected; it stands up to Wayback's own steps because a
capture never changes (`CapturesStay`). `Saving` counts the requests for a new capture as the
failures the budgets have forgiven.

The three programs that wait (the weekly check, the Wayback client, the drift check with its job)
have a measure each: natural numbers in lexicographic order, the phase, what is still to come in the
phase, and so on down to the failures that the request in hand may still have. The theorems above
say that the parts are natural numbers and that every step, of the Wayback client every step of its
own, makes the measure smaller. A counter that is not counted, a budget that is refilled by the
other failure's, or a list that is asked for again would be a step that does not. Such a
measure cannot shrink for ever, so no behaviour takes infinitely many of these steps. `ArchiveCheck`
needs for it that a listing is given up before its failures exceed what they are waited for
(`Borne`), `WaybackArchive` that polls and fetches stay within their numbers (`Counted`); both were
checked by TLC, like `OverlapInv`, on the bounds of the runs before they were proved.

Model-checked only: `Terminates`, of the weekly check and of the Wayback client, and `Publishes`.
They are liveness properties: that a step is taken while one is enabled needs fairness and ENABLED,
which the prover does not reach. What the theorems leave to TLC is that, and that no state but the
last is without a step.

## Not modelled, and what could follow

1. `pin()`'s own content-addressed blob (`pin.py:402`), with crashes inside its write.
2. The fetchers of FEC filings, dockets, bills and the Federal Register, which build one request
   and read one answer; the console's progress records and its list of unarchived pins, redrawn
   while an archive runs.

Left out for good: HTTP, HTML and JSON parsing, wording and layout, key redaction (string masking
without state), the steps of the scheduled workflows that only start a command and publish its
output, and the prompts of the command line.
